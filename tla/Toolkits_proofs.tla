--------------------------- MODULE Toolkits_proofs ---------------------------
(***************************************************************************)
(* Proofs about Toolkits: the random strings, for any number of byte       *)
(* values and of characters, the language a header is answered in, for a   *)
(* header of any length, and the helpers that cut texts, for texts of any  *)
(* length over any characters.                                             *)
(***************************************************************************)
EXTENDS Toolkits, FiniteSetTheorems, SequenceTheorems, WellFoundedInduction, TLAPS

(* The bytes that become the character c, and how often the characters fit *)
(* into the bytes.                                                         *)
BytesOf(c) == {b \in 0..(Bytes - 1) : Taken(b) /\ CharAt(b) = c}
Rounds == Bytes \div Characters

-----------------------------------------------------------------------------
LEMMA Division ==
  ASSUME NEW a \in Nat, NEW n \in Nat \ {0}
  PROVE  /\ a \div n \in Nat
         /\ a % n \in 0..(n - 1)
         /\ a = (n * (a \div n)) + (a % n)
OBVIOUS

LEMMA Remainder ==
  ASSUME NEW n \in Nat \ {0}, NEW q \in Nat, NEW r \in 0..(n - 1)
  PROVE  ((n * q) + r) % n = r
OBVIOUS

LEMMA TimesIsMonotone ==
  ASSUME NEW n \in Nat \ {0}, NEW p \in Nat, NEW q \in Nat
  PROVE  /\ p < q => (n * p) + n <= n * q
         /\ n * p = n * q => p = q
         /\ n * p \in Nat
OBVIOUS

(* A byte is taken when it belongs to a whole round of the characters.     *)
LEMMA LimitIsWholeRounds == Limit = Characters * Rounds /\ Rounds \in Nat
<1>1. /\ Bytes \div Characters \in Nat
      /\ Bytes = (Characters * (Bytes \div Characters)) + (Bytes % Characters)
      /\ Bytes % Characters \in 0..(Characters - 1)
  BY BytesAreDrawn, Division
<1>2. Characters * Rounds \in Nat
  BY <1>1, BytesAreDrawn, TimesIsMonotone DEF Rounds
<1> QED BY <1>1, <1>2, BytesAreDrawn DEF Limit, Rounds

(* Each round has one byte for each character.                             *)
LEMMA OneByteARound ==
  ASSUME NEW c \in 0..(Characters - 1), Rounds # 0
  PROVE  [i \in 0..(Rounds - 1) |-> (Characters * i) + c] \in Bijection(0..(Rounds - 1), BytesOf(c))
<1> DEFINE f == [i \in 0..(Rounds - 1) |-> (Characters * i) + c]
<1>1. Characters \in Nat \ {0} /\ Rounds \in Nat /\ c \in Nat /\ Bytes \in Nat
  BY BytesAreDrawn, LimitIsWholeRounds
<1>2. Limit = Characters * Rounds /\ Limit <= Bytes /\ Limit \in Nat
  <2>1. Bytes % Characters \in Nat
    BY BytesAreDrawn, Division
  <2> QED BY <1>1, <2>1, LimitIsWholeRounds, TimesIsMonotone DEF Limit
<1>3. ASSUME NEW i \in 0..(Rounds - 1) PROVE f[i] \in BytesOf(c)
  <2>1. (Characters * i) + Characters <= Limit /\ Characters * i \in Nat
    BY <1>1, <1>2, TimesIsMonotone
  <2>2. f[i] \in 0..(Bytes - 1) /\ f[i] < Limit
    BY <1>1, <1>2, <2>1
  <2>3. f[i] % Characters = c
    BY <1>1, Remainder
  <2> QED BY <2>2, <2>3 DEF BytesOf, Taken, CharAt
<1>4. ASSUME NEW i \in 0..(Rounds - 1), NEW j \in 0..(Rounds - 1), f[i] = f[j]
      PROVE  i = j
  <2>1. Characters * i \in Nat /\ Characters * j \in Nat
    BY <1>1, TimesIsMonotone
  <2>2. Characters * i = Characters * j
    BY <1>1, <1>4, <2>1
  <2> QED BY <1>1, <2>2, TimesIsMonotone
<1>5. ASSUME NEW b \in BytesOf(c) PROVE \E i \in 0..(Rounds - 1) : f[i] = b
  <2> DEFINE i == b \div Characters
  <2>1. b \in Nat /\ b < Limit /\ b % Characters = c
    BY <1>1 DEF BytesOf, Taken, CharAt
  <2>2. i \in Nat /\ b = (Characters * i) + c
    BY <1>1, <2>1, Division
  <2> HIDE DEF i
  <2>3. i < Rounds
    <3>1. SUFFICES ASSUME Rounds <= i PROVE FALSE
      BY <1>1, <2>2
    <3>2. Limit <= Characters * i
      BY <1>1, <1>2, <2>2, <3>1, TimesIsMonotone
    <3> QED BY <1>1, <1>2, <2>1, <2>2, <3>2, TimesIsMonotone
  <2>4. i \in 0..(Rounds - 1)
    BY <1>1, <2>2, <2>3
  <2> QED BY <2>2, <2>4
<1> QED BY <1>3, <1>4, <1>5 DEF Bijection, Injection, Surjection, IsInjective

LEMMA BytesPerCharacter ==
  ASSUME NEW c \in 0..(Characters - 1)
  PROVE  Cardinality(BytesOf(c)) = Rounds
<1>1. Rounds \in Nat /\ Limit = Characters * Rounds /\ Characters \in Nat \ {0}
  BY BytesAreDrawn, LimitIsWholeRounds
<1>2. CASE Rounds = 0
  <2>1. Limit = 0
    BY <1>1, <1>2
  <2>2. BytesOf(c) = {}
    BY <2>1, BytesAreDrawn DEF BytesOf, Taken
  <2> QED BY <1>2, <2>2, FS_EmptySet
<1>3. CASE Rounds # 0
  <2>1. ExistsBijection(0..(Rounds - 1), BytesOf(c))
    BY <1>3, OneByteARound DEF ExistsBijection
  <2>2. IsFiniteSet(0..(Rounds - 1)) /\ Cardinality(0..(Rounds - 1)) = Rounds
    BY <1>1, <1>3, FS_Interval
  <2> QED BY <2>1, <2>2, FS_Bijection
<1> QED BY <1>2, <1>3

-----------------------------------------------------------------------------
(* A drawn character is one of the characters.                             *)
DrawsACharacter == call.of = "random" => call.character \in 0..(Characters - 1)

(* However many byte values there are and however many characters, every   *)
(* character of a random string stands for equally many of the bytes that  *)
(* are taken, also where the one number does not divide the other and      *)
(* where there are more characters than bytes.                             *)
THEOREM TokensAreEven == Spec => []CharactersAreEven
<1>1. Init => DrawsACharacter
  BY DEF Init, DrawsACharacter
<1>2. DrawsACharacter /\ [Next]_call => DrawsACharacter'
  <2> SUFFICES ASSUME DrawsACharacter, [Next]_call PROVE DrawsACharacter'
    OBVIOUS
  <2>1. CASE Random
    BY <2>1 DEF Random, DrawsACharacter
  <2>2. CASE Negotiate \/ Cut
    BY <2>2 DEF Negotiate, Cut, DrawsACharacter
  <2>3. CASE UNCHANGED call
    BY <2>3 DEF DrawsACharacter
  <2> QED BY <2>1, <2>2, <2>3 DEF Next
<1>3. DrawsACharacter => CharactersAreEven
  <2> SUFFICES ASSUME call.character \in 0..(Characters - 1), call.of = "random"
               PROVE  CharactersAreEven
    BY DEF DrawsACharacter, CharactersAreEven
  <2>1. Cardinality(BytesOf(call.character)) = Rounds
    BY BytesPerCharacter
  <2> QED BY <2>1 DEF CharactersAreEven, BytesOf, Rounds
<1> QED BY <1>1, <1>2, <1>3, PTL DEF Spec

-----------------------------------------------------------------------------
(* The language.  The least of a set of places, and induction with a set   *)
(* for the hypothesis.                                                     *)
LEMMA LeastOf ==
  ASSUME NEW S \in SUBSET Nat, S # {}
  PROVE  Min(S) \in S /\ \A y \in S : Min(S) <= y
<1>1. PICK x \in S : \A y \in S : ~(<<y, x>> \in OpToRel(<, Nat))
  BY NatLessThanWellFounded, WFMin
<1>2. ASSUME NEW y \in S PROVE x <= y
  <2>1. OpToRel(<, Nat) = {ss \in Nat \X Nat : ss[1] < ss[2]}
    BY Zenon DEF OpToRel
  <2>2. y < x => <<y, x>> \in {ss \in Nat \X Nat : ss[1] < ss[2]}
    OBVIOUS
  <2>3. ~(y < x)
    BY <1>1, <2>1, <2>2, Zenon
  <2> QED BY <2>3
<1> QED BY <1>2 DEF Min

LEMMA SetInduction ==
  ASSUME NEW T, 0 \in T, \A n \in Nat : n \in T => n + 1 \in T
  PROVE  Nat \subseteq T
<1> SUFFICES ASSUME Nat \ T # {} PROVE FALSE
  OBVIOUS
<1> DEFINE m == Min(Nat \ T)
<1>1. m \in Nat /\ m \notin T /\ \A y \in Nat \ T : m <= y
  BY LeastOf
<1> HIDE DEF m
<1>2. m - 1 \in Nat /\ m - 1 \notin T
  BY <1>1
<1> QED BY <1>1, <1>2

(* One turn of the sort.                                                   *)
Taking(header, order, n) ==
  IF n \in Candidates(header) THEN Placed(header, order, n) ELSE order

(* f holds the orders of the first 0 to n candidates.                      *)
IsOrders(header, f, n) ==
  f = [m \in 0..n |-> IF m = 0 THEN <<>> ELSE Taking(header, f[m - 1], m)]

(* The recursive function of Toolkits exists and satisfies its equation.   *)
LEMMA OrdersExist ==
  ASSUME NEW header, NEW n \in Nat
  PROVE  \E f : IsOrders(header, f, n)
<1> DEFINE T == {k \in Nat : \E f : IsOrders(header, f, k)}
<1>1. 0 \in T
  <2>1. IsOrders(header, [m \in 0..0 |-> <<>>], 0)
    BY DEF IsOrders
  <2> QED BY <2>1
<1>2. ASSUME NEW k \in Nat, k \in T PROVE k + 1 \in T
  <2>1. PICK f : IsOrders(header, f, k)
    BY <1>2
  <2> DEFINE g == [m \in 0..(k + 1) |-> IF m = k + 1 THEN Taking(header, f[k], k + 1) ELSE f[m]]
             h == [m \in 0..(k + 1) |-> IF m = 0 THEN <<>> ELSE Taking(header, g[m - 1], m)]
  <2>2. ASSUME NEW m \in 0..(k + 1) PROVE g[m] = h[m]
    <3>1. CASE m = 0
      BY <2>1, <3>1 DEF IsOrders
    <3>2. CASE m \in 1..k
      <4>1. g[m] = f[m] /\ g[m - 1] = f[m - 1] /\ m \in 0..k
        BY <3>2
      <4>2. f[m] = Taking(header, f[m - 1], m)
        BY <2>1, <3>2 DEF IsOrders
      <4> QED BY <3>2, <4>1, <4>2
    <3>3. CASE m = k + 1
      BY <3>3
    <3> QED BY <3>1, <3>2, <3>3
  <2>3. IsOrders(header, g, k + 1)
    <3>1. g = h
      BY <2>2
    <3> QED BY <3>1 DEF IsOrders
  <2> QED BY <2>3
<1>3. Nat \subseteq T
  <2> HIDE DEF T
  <2> QED BY <1>1, <1>2, SetInduction
<1> QED BY <1>3

LEMMA OrdersEquation ==
  ASSUME NEW header, Len(header) \in Nat
  PROVE  /\ Orders(header)[0] = <<>>
         /\ \A n \in 1..Len(header) : Orders(header)[n] = Taking(header, Orders(header)[n - 1], n)
<1> DEFINE f == Orders(header)
<1>1. f = CHOOSE g : g = [n \in 0..Len(header) |->
                            IF n = 0 THEN <<>>
                            ELSE IF n \in Candidates(header) THEN Placed(header, g[n - 1], n)
                            ELSE g[n - 1]]
  BY DEF Orders
<1>2. f = CHOOSE g : IsOrders(header, g, Len(header))
  BY <1>1 DEF IsOrders, Taking
<1>3. IsOrders(header, f, Len(header))
  BY <1>2, OrdersExist
<1> QED BY <1>3 DEF IsOrders

(* Better is the reference: liked more, or named first among equals.  An   *)
(* order of the first n places is right if it names the candidates among   *)
(* them, the better ones first.                                            *)
Better(h, j, k) ==
  \/ Quality(h[j]) > Quality(h[k])
  \/ Quality(h[j]) = Quality(h[k]) /\ j < k

IsHeader(h) == h \in Seq([tag : STRING, q : Nat \cup {None}])

Right(h, n, order) ==
  /\ order \in Seq(1..n)
  /\ {order[j] : j \in DOMAIN order} = Candidates(h) \cap 1..n
  /\ \A i, j \in DOMAIN order : i < j => Better(h, order[i], order[j])

LEMMA Qualities ==
  ASSUME NEW h, IsHeader(h), NEW k \in DOMAIN h
  PROVE  Quality(h[k]) \in Nat
<1>1. h[k] \in [tag : STRING, q : Nat \cup {None}]
  <2>1. DOMAIN h = 1..Len(h)
    BY DEF IsHeader
  <2> QED BY <2>1, ElementOfSeq DEF IsHeader
<1> QED BY <1>1 DEF Quality

LEMMA InsertElements ==
  ASSUME NEW S, NEW s \in Seq(S), NEW p \in 1..(Len(s) + 1), NEW e \in S
  PROVE  /\ InsertAt(s, p, e) \in Seq(S)
         /\ Len(InsertAt(s, p, e)) = Len(s) + 1
         /\ \A i \in 1..(Len(s) + 1) :
              InsertAt(s, p, e)[i] = IF i < p THEN s[i] ELSE IF i = p THEN e ELSE s[i - 1]
<1>0. Len(s) \in Nat /\ p \in Nat
  BY LenProperties
<1> DEFINE a == SubSeq(s, 1, p - 1)
           b == SubSeq(s, p, Len(s))
<1>1. a \in Seq(S) /\ Len(a) = p - 1 /\ \A i \in 1..(p - 1) : a[i] = s[i]
  OBVIOUS
<1>2. b \in Seq(S) /\ Len(b) = Len(s) - p + 1 /\ \A i \in 1..(Len(s) - p + 1) : b[i] = s[p + i - 1]
  OBVIOUS
<1>3. InsertAt(s, p, e) = a \o <<e>> \o b
  BY DEF InsertAt
<1> HIDE DEF a, b
<1>4. a \o <<e>> \in Seq(S) /\ Len(a \o <<e>>) = p
      /\ \A i \in 1..p : (a \o <<e>>)[i] = IF i < p THEN s[i] ELSE e
  BY <1>1
<1> DEFINE d == a \o <<e>>
<1>5. d \in Seq(S) /\ Len(d) = p /\ \A i \in 1..p : d[i] = IF i < p THEN s[i] ELSE e
  BY <1>4
<1> HIDE DEF d
<1>6. d \o b \in Seq(S) /\ Len(d \o b) = Len(s) + 1
  BY <1>2, <1>5
<1>7. ASSUME NEW i \in 1..(Len(s) + 1)
      PROVE  (d \o b)[i] = IF i < p THEN s[i] ELSE IF i = p THEN e ELSE s[i - 1]
  <2>1. CASE i <= p
    BY <1>2, <1>5, <2>1
  <2>2. CASE i > p
    <3>1. (d \o b)[i] = b[i - p]
      BY <1>2, <1>5, <2>2
    <3>2. i - p \in 1..(Len(s) - p + 1)
      BY <2>2
    <3>3. b[i - p] = s[p + (i - p) - 1]
      BY <1>2, <3>2
    <3>4. p + (i - p) - 1 = i - 1 /\ ~(i < p) /\ i # p
      BY <1>0, <2>2
    <3>5. (d \o b)[i] = s[i - 1]
      BY <3>1, <3>3, <3>4
    <3> QED BY Zenon, <3>4, <3>5
  <2>3. i <= p \/ i > p
    BY <1>0
  <2> QED BY <2>1, <2>2, <2>3, Zenon
<1> QED BY <1>3, <1>6, <1>7 DEF d

(* A turn of the sort leaves the order right, and so do all of them.       *)
LEMMA PlacedIsRight ==
  ASSUME NEW h, IsHeader(h), NEW n \in 1..Len(h), n \in Candidates(h), NEW order,
         Right(h, n - 1, order)
  PROVE  Right(h, n, Placed(h, order, n))
<1> DEFINE late == {j \in DOMAIN order : ~Precedes(h[order[j]], h[n])}
           p == Min(late \cup {Len(order) + 1})
           new == Placed(h, order, n)
           L == Len(order)
<1>1. /\ Len(h) \in Nat /\ DOMAIN h = 1..Len(h) /\ n \in Nat /\ L \in Nat
      /\ DOMAIN order = 1..L /\ order \in Seq(1..(n - 1))
  BY DEF IsHeader, Right
<1>2. order \in Seq(1..n) /\ \A j \in 1..L : order[j] \in 1..(n - 1) /\ order[j] \in DOMAIN h
  BY <1>1
<1>3. /\ p \in 1..(L + 1)
      /\ \A j \in 1..(p - 1) : j \in 1..L /\ Precedes(h[order[j]], h[n])
      /\ p <= L => p \in 1..L /\ ~Precedes(h[order[p]], h[n])
  <2>1. late \cup {L + 1} \in SUBSET Nat /\ late \cup {L + 1} # {}
    BY <1>1
  <2>2. p \in late \cup {L + 1} /\ \A y \in late \cup {L + 1} : p <= y
    BY <2>1, LeastOf
  <2>3. late \subseteq 1..L /\ \A j \in 1..L : j \in late <=> ~Precedes(h[order[j]], h[n])
    BY <1>1
  <2> HIDE DEF p, late
  <2>4. p \in 1..(L + 1)
    BY <1>1, <2>2, <2>3
  <2>5. ASSUME NEW j \in 1..(p - 1) PROVE j \in 1..L /\ Precedes(h[order[j]], h[n])
    <3>1. j \in 1..L /\ ~(p <= j)
      BY <1>1, <2>4
    <3> QED BY <2>2, <2>3, <3>1
  <2>6. ASSUME p <= L PROVE p \in 1..L /\ ~Precedes(h[order[p]], h[n])
    <3>1. p \in 1..L /\ p # L + 1
      BY <1>1, <2>4, <2>6
    <3> QED BY <2>2, <2>3, <3>1
  <2> QED BY <2>4, <2>5, <2>6
<1>4. new = InsertAt(order, p, n)
  BY DEF Placed
<1> HIDE DEF late, p, new
<1>5. /\ new \in Seq(1..n) /\ Len(new) = L + 1
      /\ \A i \in 1..(L + 1) :
           new[i] = IF i < p THEN order[i] ELSE IF i = p THEN n ELSE order[i - 1]
  <2>1. n \in 1..n /\ p \in 1..(Len(order) + 1)
    BY <1>1, <1>3
  <2> QED BY <1>2, <1>4, <2>1, InsertElements
<1>6. \A j \in 1..L : Quality(h[order[j]]) \in Nat
  BY <1>2, Qualities
<1>7. Quality(h[n]) \in Nat
  BY <1>1, Qualities
<1>8. \A i, j \in 1..L : i < j => Better(h, order[i], order[j])
  BY <1>1 DEF Right
<1>9. {new[i] : i \in DOMAIN new} = Candidates(h) \cap 1..n
  <2>1. \A k : k \in Candidates(h) \cap 1..(n - 1) <=> \E j \in 1..L : k = order[j]
    BY <1>1 DEF Right
  <2>2. \A k : k \in Candidates(h) \cap 1..n <=> k = n \/ \E j \in 1..L : k = order[j]
    BY <1>1, <2>1
  <2>3. DOMAIN new = 1..(L + 1)
    BY <1>5
  <2>4. ASSUME NEW j \in 1..L PROVE \E i \in 1..(L + 1) : new[i] = order[j]
    <3>1. CASE j < p
      <4>1. j \in 1..(L + 1) /\ new[j] = order[j]
        BY <1>1, <1>5, <3>1
      <4> QED BY <4>1
    <3>2. CASE j >= p
      <4>1. j + 1 \in 1..(L + 1) /\ new[j + 1] = order[(j + 1) - 1]
        BY <1>1, <1>3, <1>5, <3>2
      <4>2. (j + 1) - 1 = j
        OBVIOUS
      <4> QED BY <4>1, <4>2
    <3> QED BY <1>1, <1>3, <3>1, <3>2
  <2>5. p \in 1..(L + 1) /\ new[p] = n
    BY <1>1, <1>3, <1>5
  <2>6. ASSUME NEW i \in 1..(L + 1) PROVE new[i] = n \/ \E j \in 1..L : new[i] = order[j]
    <3>1. CASE i < p
      BY <1>1, <1>3, <1>5, <3>1
    <3>2. CASE i = p
      BY <2>5, <3>2
    <3>3. CASE i > p
      <4>1. i - 1 \in 1..L /\ new[i] = order[i - 1]
        BY <1>1, <1>3, <1>5, <3>3
      <4> QED BY <4>1
    <3> QED BY <1>1, <1>3, <3>1, <3>2, <3>3
  <2>7. \A k : k \in {new[i] : i \in DOMAIN new} <=> \E i \in 1..(L + 1) : new[i] = k
    BY <2>3
  <2>8. \A k : k \in {new[i] : i \in DOMAIN new} <=> k = n \/ \E j \in 1..L : k = order[j]
    BY <2>4, <2>5, <2>6, <2>7, ZenonT(60)
  <2> QED BY <2>2, <2>8
<1>10. ASSUME NEW i \in 1..(L + 1), NEW j \in 1..(L + 1), i < j
       PROVE  Better(h, new[i], new[j])
  <2>1. CASE j < p
    <3>1. new[i] = order[i] /\ new[j] = order[j] /\ i \in 1..L /\ j \in 1..L
      BY <1>1, <1>3, <1>5, <1>10, <2>1
    <3> QED BY <1>8, <1>10, <3>1
  <2>2. CASE j = p
    <3>1. new[i] = order[i] /\ new[j] = n /\ i \in 1..L /\ i \in 1..(p - 1)
      BY <1>1, <1>3, <1>5, <1>10, <2>2
    <3>2. Quality(h[order[i]]) >= Quality(h[n]) /\ order[i] \in 1..(n - 1)
      BY <1>2, <1>3, <3>1 DEF Precedes
    <3> QED BY <1>1, <1>6, <1>7, <3>1, <3>2 DEF Better
  <2>3. CASE j > p
    <3>1. new[j] = order[j - 1] /\ j - 1 \in 1..L /\ p <= L /\ p <= j - 1
      BY <1>1, <1>3, <1>5, <2>3
    <3>2. CASE i < p
      <4>1. new[i] = order[i] /\ i \in 1..L /\ i < j - 1
        BY <1>1, <1>3, <1>5, <2>3, <3>1, <3>2
      <4> QED BY <1>8, <3>1, <4>1
    <3>3. CASE i = p
      <4>1. Quality(h[order[p]]) < Quality(h[n]) /\ p \in 1..L
        BY <1>3, <1>6, <1>7, <3>1 DEF Precedes
      <4>2. CASE p = j - 1
        <5>1. new[i] = n /\ new[j] = order[p]
          BY <1>5, <3>1, <3>3, <4>2
        <5> QED BY <1>6, <1>7, <4>1, <5>1 DEF Better
      <4>3. CASE p # j - 1
        <5>1. Better(h, order[p], order[j - 1])
          BY <1>1, <1>3, <1>8, <3>1, <4>1, <4>3
        <5>2. Quality(h[order[j - 1]]) <= Quality(h[order[p]])
          BY <1>6, <3>1, <4>1, <5>1, SMTT(30) DEF Better
        <5>3. new[i] = n
          BY <1>5, <3>3
        <5> QED BY <1>6, <1>7, <3>1, <4>1, <5>2, <5>3, SMTT(30) DEF Better
      <4> QED BY <4>2, <4>3
    <3>4. CASE i > p
      <4>1. new[i] = order[i - 1] /\ i - 1 \in 1..L /\ i - 1 < j - 1
        BY <1>1, <1>3, <1>5, <1>10, <3>1, <3>4
      <4> QED BY <1>8, <3>1, <4>1
    <3> QED BY <1>1, <1>3, <3>2, <3>3, <3>4
  <2> QED BY <1>1, <1>3, <2>1, <2>2, <2>3
<1>11. DOMAIN new = 1..(L + 1)
  BY <1>5
<1>12. Right(h, n, new)
  BY <1>5, <1>9, <1>10, <1>11 DEF Right
<1> QED BY <1>12 DEF new

LEMMA OrdersAreRight ==
  ASSUME NEW h, IsHeader(h), NEW n \in 0..Len(h)
  PROVE  Right(h, n, Orders(h)[n])
<1> DEFINE T == {k \in Nat : k <= Len(h) => Right(h, k, Orders(h)[k])}
<1>1. Len(h) \in Nat
  BY DEF IsHeader
<1>2. 0 \in T
  <2>1. Orders(h)[0] = <<>>
    BY <1>1, OrdersEquation
  <2>2. Right(h, 0, <<>>)
    <3>1. <<>> \in Seq(1..0) /\ DOMAIN <<>> = {}
      OBVIOUS
    <3>2. Candidates(h) \cap 1..0 = {}
      OBVIOUS
    <3> QED BY <3>1, <3>2 DEF Right
  <2> QED BY <2>1, <2>2
<1>3. ASSUME NEW k \in Nat, k \in T PROVE k + 1 \in T
  <2> SUFFICES ASSUME k + 1 <= Len(h) PROVE Right(h, k + 1, Orders(h)[k + 1])
    OBVIOUS
  <2> DEFINE order == Orders(h)[k]
             m == k + 1
  <2>1. m \in 1..Len(h) /\ m - 1 = k /\ m \in Nat
    BY <1>1
  <2>2. Right(h, k, order)
    BY <1>1, <1>3
  <2>3. Orders(h)[m] = Taking(h, Orders(h)[m - 1], m)
    BY <1>1, <2>1, OrdersEquation
  <2>4. Orders(h)[m] = Taking(h, order, m)
    BY <2>1, <2>3
  <2> HIDE DEF order, m
  <2>5. CASE m \in Candidates(h)
    <3>1. Right(h, m - 1, order)
      BY <2>1, <2>2
    <3>2. Right(h, m, Placed(h, order, m))
      BY <2>1, <2>5, <3>1, PlacedIsRight
    <3> QED BY <2>4, <2>5, <3>2 DEF Taking, m
  <2>6. CASE m \notin Candidates(h)
    <3>1. Candidates(h) \cap 1..m = Candidates(h) \cap 1..k
      BY <2>1, <2>6
    <3>2. order \in Seq(1..m)
      <4>1. order \in Seq(1..k) /\ 1..k \subseteq 1..m
        BY <2>1, <2>2 DEF Right
      <4> QED BY <4>1, SeqMonotonic
    <3>3. Right(h, m, order)
      BY <2>2, <3>1, <3>2 DEF Right
    <3> QED BY <2>4, <2>6, <3>3 DEF Taking, m
  <2> QED BY <2>5, <2>6
<1>4. Nat \subseteq T
  <2> HIDE DEF T
  <2> QED BY <1>2, <1>3, SetInduction
<1> QED BY <1>1, <1>4

(* The first supported language of the sorted candidates is the best.      *)
LEMMA BestOfHeader ==
  ASSUME NEW h, IsHeader(h)
  PROVE  LET wanted == {k \in DOMAIN h : h[k].tag \in Supported /\ Quality(h[k]) > 0} IN
         \/ wanted = {} /\ ParseAcceptLanguage(h) = Default
         \/ \E k \in wanted : /\ \A j \in wanted : ~Better(h, j, k)
                              /\ ParseAcceptLanguage(h) = h[k].tag
<1> DEFINE wanted == {k \in DOMAIN h : h[k].tag \in Supported /\ Quality(h[k]) > 0}
           order == ByQuality(h)
           spoken == {j \in DOMAIN order : h[order[j]].tag \in Supported}
<1>1. Len(h) \in Nat /\ DOMAIN h = 1..Len(h)
  BY DEF IsHeader
<1>2. Right(h, Len(h), order)
  BY <1>1, OrdersAreRight DEF ByQuality
<1>3. ParseAcceptLanguage(h) = IF spoken = {} THEN Default ELSE h[order[Min(spoken)]].tag
  BY DEF ParseAcceptLanguage
<1> HIDE DEF order
<1>4. Len(order) \in Nat /\ DOMAIN order = 1..Len(order)
  BY <1>2 DEF Right
<1>5. \A k : k \in Candidates(h) <=> \E j \in DOMAIN order : k = order[j]
  <2>1. Candidates(h) \cap 1..Len(h) = Candidates(h)
    BY <1>1 DEF Candidates
  <2> QED BY <1>2, <2>1 DEF Right
<1>6. wanted = {k \in Candidates(h) : h[k].tag \in Supported}
  BY DEF Candidates, Supported
<1>7. \A k : k \in wanted <=> \E j \in spoken : k = order[j]
  BY <1>5, <1>6
<1> HIDE DEF wanted
<1>8. CASE spoken = {}
  <2>1. wanted = {} /\ ParseAcceptLanguage(h) = Default
    BY <1>3, <1>7, <1>8
  <2> QED BY <2>1 DEF wanted
<1>9. CASE spoken # {}
  <2> DEFINE m == Min(spoken)
  <2>1. m \in spoken /\ \A j \in spoken : m <= j
    <3>1. spoken \in SUBSET Nat
      BY <1>4
    <3> HIDE DEF spoken
    <3> QED BY <1>9, <3>1, LeastOf
  <2>2. ParseAcceptLanguage(h) = h[order[m]].tag
    BY <1>3, <1>9
  <2> HIDE DEF m
  <2>3. order[m] \in wanted
    BY <1>7, <2>1
  <2>4. ASSUME NEW j \in wanted PROVE ~Better(h, j, order[m])
    <3>1. PICK i \in spoken : j = order[i]
      BY <1>7
    <3>2. /\ i \in DOMAIN order /\ m \in DOMAIN order /\ m <= i
          /\ j \in DOMAIN h /\ order[m] \in DOMAIN h
      BY <2>1, <2>3, <3>1 DEF wanted
    <3>3. /\ Quality(h[j]) \in Nat /\ Quality(h[order[m]]) \in Nat
          /\ j \in Nat /\ order[m] \in Nat
      BY <1>1, <3>2, Qualities
    <3>4. CASE i = m
      BY <3>1, <3>3, <3>4 DEF Better
    <3>5. CASE i # m
      <4>1. Better(h, order[m], j)
        BY <1>2, <1>4, <3>1, <3>2, <3>5 DEF Right
      <4> QED BY <3>3, <4>1 DEF Better
    <3> QED BY Zenon, <3>4, <3>5
  <2>5. \E k \in wanted : /\ \A j \in wanted : ~Better(h, j, k)
                          /\ ParseAcceptLanguage(h) = h[k].tag
    BY <2>2, <2>3, <2>4
  <2> QED BY <2>5 DEF wanted
<1> QED BY <1>8, <1>9

(* The header of a call is one of the headers.                             *)
ReadsAHeader == call.of = "language" => call.header \in Headers

(* For a header of any length the sort and the search for a supported      *)
(* language find the one the header likes best, the first of equals, and   *)
(* English when it accepts neither.                                        *)
THEOREM BestLanguageAlways == Spec => []BestLanguageIsSpoken
<1>1. Init => ReadsAHeader
  BY DEF Init, ReadsAHeader
<1>2. ReadsAHeader /\ [Next]_call => ReadsAHeader'
  <2> SUFFICES ASSUME ReadsAHeader, [Next]_call PROVE ReadsAHeader'
    OBVIOUS
  <2>1. CASE Negotiate
    BY <2>1 DEF Negotiate, ReadsAHeader
  <2>2. CASE Random \/ Cut
    BY <2>2 DEF Random, Cut, ReadsAHeader
  <2>3. CASE UNCHANGED call
    BY <2>3 DEF ReadsAHeader
  <2> QED BY <2>1, <2>2, <2>3 DEF Next
<1>3. ReadsAHeader => BestLanguageIsSpoken
  <2> SUFFICES ASSUME call.header \in Headers, call.of = "language"
               PROVE  BestLanguageIsSpoken
    BY DEF ReadsAHeader, BestLanguageIsSpoken
  <2>1. IsHeader(call.header)
    BY HeadersShape DEF IsHeader
  <2> QED BY <2>1, BestOfHeader DEF BestLanguageIsSpoken, Better
<1> QED BY <1>1, <1>2, <1>3, PTL DEF Spec
-----------------------------------------------------------------------------
(* The texts.  Induction from the end of a text to its beginning.          *)
LEMMA GreatestOf ==
  ASSUME NEW n \in Nat, NEW S \in SUBSET (0..n), S # {}
  PROVE  Max(S) \in S /\ \A y \in S : y <= Max(S)
<1> DEFINE D == {k \in 0..n : n - k \in S}
           m == Min(D)
<1>1. D \in SUBSET Nat /\ \A y \in S : n - y \in D
  OBVIOUS
<1>2. m \in D /\ \A k \in D : m <= k
  <2>1. D # {}
    BY <1>1
  <2> HIDE DEF D
  <2> QED BY <1>1, <2>1, LeastOf
<1> HIDE DEF m
<1>3. n - m \in S /\ \A y \in S : n - m >= y
  <2>1. ASSUME NEW y \in S PROVE n - m >= y
    <3>1. m <= n - y /\ m \in Nat /\ y \in Nat
      BY <1>1, <1>2
    <3> QED BY <3>1
  <2> QED BY <1>2, <2>1
<1>4. \E x \in S : \A y \in S : x >= y
  BY <1>3
<1>5. Max(S) \in S /\ \A y \in S : Max(S) >= y
  BY <1>4 DEF Max
<1> QED BY <1>5

LEMMA TopDown ==
  ASSUME NEW n \in Nat, NEW T,
         \A i \in 1..n : (\A j \in (i + 1)..n : j \in T) => i \in T
  PROVE  1..n \subseteq T
<1> SUFFICES ASSUME (1..n) \ T # {} PROVE FALSE
  OBVIOUS
<1> DEFINE m == Max((1..n) \ T)
<1>1. m \in (1..n) \ T /\ \A y \in (1..n) \ T : y <= m
  <2>1. (1..n) \ T \in SUBSET (0..n)
    OBVIOUS
  <2> QED BY <2>1, GreatestOf
<1> HIDE DEF m
<1> QED BY <1>1

-----------------------------------------------------------------------------
(* Parts of a text and occurrences of another text in it.                  *)
LEMMA Part ==
  ASSUME NEW S, NEW s \in Seq(S), NEW a \in 1..(Len(s) + 1), NEW b \in (a - 1)..Len(s)
  PROVE  /\ SubSeq(s, a, b) \in Seq(S)
         /\ Len(SubSeq(s, a, b)) = (b - a) + 1
         /\ \A k \in 1..((b - a) + 1) : SubSeq(s, a, b)[k] = s[(a + k) - 1]
<1>1. Len(s) \in Nat /\ a \in Int /\ b \in Int
  OBVIOUS
<1>2. \A i \in a..b : s[i] \in S
  BY <1>1, ElementOfSeq
<1>3. /\ SubSeq(s, a, b) \in Seq(S)
      /\ Len(SubSeq(s, a, b)) = IF a <= b THEN b - a + 1 ELSE 0
      /\ \A i \in 1..b - a + 1 : SubSeq(s, a, b)[i] = s[a + i - 1]
  BY <1>1, <1>2, SubSeqProperties
<1> QED BY <1>1, <1>3

LEMMA Prefix ==
  ASSUME NEW S, NEW s \in Seq(S), NEW t \in Seq(S)
  PROVE  IsPrefix(t, s) <=> Len(t) <= Len(s) /\ \A k \in 1..Len(t) : t[k] = s[k]
<1>1. Len(s) \in Nat /\ Len(t) \in Nat
  OBVIOUS
<1>2. SubSeq(t, 1, Len(t)) = t
  BY SubSeqFull
<1> SUFFICES ASSUME Len(t) <= Len(s)
             PROVE  t = SubSeq(s, 1, Len(t)) <=> \A k \in 1..Len(t) : t[k] = s[k]
  BY <1>2 DEF IsPrefix
<1> DEFINE p == SubSeq(s, 1, Len(t))
<1>3. p \in Seq(S) /\ Len(p) = Len(t) /\ \A k \in 1..Len(t) : p[k] = s[k]
  <2>1. 1 \in 1..(Len(s) + 1) /\ Len(t) \in (1 - 1)..Len(s) /\ (Len(t) - 1) + 1 = Len(t)
    BY <1>1
  <2>2. \A k \in 1..Len(t) : (1 + k) - 1 = k
    OBVIOUS
  <2> QED BY <2>1, <2>2, Part
<1> HIDE DEF p
<1>4. (\A k \in 1..Len(t) : t[k] = p[k]) => t = p
  BY <1>3, SeqEqual
<1> QED BY <1>3, <1>4

LEMMA Occurs ==
  ASSUME NEW S, NEW s \in Seq(S), NEW t \in Seq(S), NEW i
  PROVE  i \in At(s, t) <=> /\ i \in 1..Len(s)
                            /\ (i + Len(t)) - 1 <= Len(s)
                            /\ \A k \in 1..Len(t) : s[(i + k) - 1] = t[k]
<1>1. Len(s) \in Nat /\ Len(t) \in Nat
  OBVIOUS
<1> SUFFICES ASSUME i \in 1..Len(s)
             PROVE  IsPrefix(t, SubSeq(s, i, Len(s)))
                      <=> /\ (i + Len(t)) - 1 <= Len(s)
                          /\ \A k \in 1..Len(t) : s[(i + k) - 1] = t[k]
  BY DEF At
<1> DEFINE p == SubSeq(s, i, Len(s))
<1>2. /\ p \in Seq(S) /\ Len(p) = (Len(s) - i) + 1
      /\ \A k \in 1..((Len(s) - i) + 1) : p[k] = s[(i + k) - 1]
  <2>1. i \in 1..(Len(s) + 1) /\ Len(s) \in (i - 1)..Len(s)
    BY <1>1
  <2> QED BY <2>1, Part
<1> HIDE DEF p
<1>3. IsPrefix(t, p) <=> Len(t) <= Len(p) /\ \A k \in 1..Len(t) : t[k] = p[k]
  BY <1>2, Prefix
<1>4. Len(t) <= Len(p) <=> (i + Len(t)) - 1 <= Len(s)
  BY <1>1, <1>2
<1>5. ASSUME Len(t) <= Len(p), NEW k \in 1..Len(t) PROVE p[k] = s[(i + k) - 1]
  <2>1. k \in 1..((Len(s) - i) + 1)
    BY <1>1, <1>2, <1>5
  <2> QED BY <1>2, <2>1
<1>6. IsPrefix(t, p) <=> /\ (i + Len(t)) - 1 <= Len(s)
                         /\ \A k \in 1..Len(t) : s[(i + k) - 1] = t[k]
  BY <1>3, <1>4, <1>5
<1> QED BY <1>6 DEF p

Reads(s, t, i) ==
  /\ i \in 1..Len(s) /\ (i + Len(t)) - 1 <= Len(s)
  /\ \A k \in 1..Len(t) : s[(i + k) - 1] = t[k]

LEMMA OccursWhereRead ==
  ASSUME NEW S, NEW s \in Seq(S), NEW t \in Seq(S), NEW i
  PROVE  i \in At(s, t) <=> Reads(s, t, i)
BY Occurs DEF Reads

LEMMA NextOccurrence ==
  ASSUME NEW S, NEW s \in Seq(S), NEW t \in Seq(S), NEW i \in 1..(Len(s) + 1),
         Ahead(s, t, i) # {}
  PROVE  /\ IndexOf(s, t, i) \in At(s, t) /\ IndexOf(s, t, i) >= i
         /\ IndexOf(s, t, i) \in Nat
         /\ \A j \in At(s, t) : j >= i => j >= IndexOf(s, t, i)
<1>1. Ahead(s, t, i) \in SUBSET Nat
  BY DEF Ahead, At
<1>2. /\ IndexOf(s, t, i) \in Ahead(s, t, i)
      /\ \A j \in Ahead(s, t, i) : IndexOf(s, t, i) <= j
  BY <1>1, LeastOf DEF IndexOf
<1>3. IndexOf(s, t, i) \in Nat
  BY <1>1, <1>2
<1>4. ASSUME NEW j \in At(s, t), j >= i PROVE j >= IndexOf(s, t, i)
  <2>1. j \in Ahead(s, t, i) /\ j \in Nat
    BY <1>4 DEF Ahead, At
  <2> QED BY <1>2, <1>3, <2>1
<1> QED BY <1>2, <1>3, <1>4 DEF Ahead

LEMMA LastOccurrence ==
  ASSUME NEW S, NEW s \in Seq(S), NEW t \in Seq(S), At(s, t) # {}
  PROVE  /\ LastIndexOf(s, t) \in At(s, t) /\ LastIndexOf(s, t) \in Nat
         /\ \A j \in At(s, t) : j <= LastIndexOf(s, t)
<1>1. At(s, t) \in SUBSET (0..Len(s)) /\ Len(s) \in Nat
  BY DEF At
<1>2. Max(At(s, t)) \in At(s, t) /\ \A j \in At(s, t) : j <= Max(At(s, t))
  BY <1>1, GreatestOf
<1> QED BY <1>1, <1>2 DEF LastIndexOf

(* The text from a on, with an occurrence taken out and put back.          *)
LEMMA PutBack ==
  ASSUME NEW S, NEW s \in Seq(S), NEW t \in Seq(S), t # <<>>, NEW i \in At(s, t), NEW a \in 1..i
  PROVE  /\ SubSeq(s, a, i - 1) \in Seq(S)
         /\ i + Len(t) \in 1..(Len(s) + 1)
         /\ From(s, i + Len(t)) \in Seq(S)
         /\ SubSeq(s, a, i - 1) \o (t \o From(s, i + Len(t))) = From(s, a)
<1> DEFINE L == Len(s)
           T == Len(t)
<1>1. L \in Nat /\ T \in Nat /\ T > 0 /\ i \in 1..L /\ (i + T) - 1 <= L
  BY Occurs, EmptySeq
<1>2. \A k \in 1..T : s[(i + k) - 1] = t[k]
  BY Occurs
<1>3. /\ SubSeq(s, a, i - 1) \in Seq(S) /\ From(s, i + T) \in Seq(S)
      /\ i + T \in 1..(L + 1) /\ From(s, i) \in Seq(S)
  <2>1. /\ a \in 1..(L + 1) /\ i - 1 \in (a - 1)..L
        /\ i + T \in 1..(L + 1) /\ L \in ((i + T) - 1)..L
        /\ i \in 1..(L + 1) /\ L \in (i - 1)..L
    BY <1>1
  <2> QED BY <2>1, Part DEF From
<1> DEFINE p == SubSeq(s, i, (i + T) - 1)
<1>4. p = t
  <2>1. i \in 1..(L + 1) /\ (i + T) - 1 \in (i - 1)..L /\ (((i + T) - 1) - i) + 1 = T
    BY <1>1
  <2>2. p \in Seq(S) /\ Len(p) = T /\ \A k \in 1..T : p[k] = s[(i + k) - 1]
    BY <2>1, Part
  <2> HIDE DEF p
  <2> QED BY <1>2, <2>2, SeqEqual
<1>5. t \o From(s, i + T) = From(s, i)
  <2>1. /\ i \in 1..(L + 1) /\ (i + T) - 1 \in (i - 1)..L /\ L \in ((i + T) - 1)..L
        /\ ((i + T) - 1) + 1 = i + T
    BY <1>1
  <2>2. p \o SubSeq(s, ((i + T) - 1) + 1, L) = SubSeq(s, i, L)
    BY <2>1, ConcatAdjacentSubSeq
  <2> QED BY <1>4, <2>1, <2>2 DEF From
<1>6. SubSeq(s, a, i - 1) \o From(s, i) = From(s, a)
  <2>1. /\ a \in 1..(L + 1) /\ i - 1 \in (a - 1)..L /\ L \in (i - 1)..L
        /\ (i - 1) + 1 = i
    BY <1>1
  <2> QED BY <2>1, ConcatAdjacentSubSeq DEF From
<1> QED BY <1>3, <1>5, <1>6
-----------------------------------------------------------------------------
(* The recursive functions of the texts exist and satisfy their equations. *)
Cutting(s, t, f, i) ==
  IF Ahead(s, t, i) = {} THEN <<From(s, i)>>
  ELSE <<SubSeq(s, i, IndexOf(s, t, i) - 1)>> \o f[IndexOf(s, t, i) + Len(t)]

IsPieces(s, t, f, a) == f = [i \in a..(Len(s) + 1) |-> Cutting(s, t, f, i)]

LEMMA CutGoesOn ==
  ASSUME NEW S, NEW s \in Seq(S), NEW t \in Seq(S), t # <<>>, NEW i \in 1..(Len(s) + 1),
         Ahead(s, t, i) # {}
  PROVE  IndexOf(s, t, i) + Len(t) \in (i + 1)..(Len(s) + 1)
<1>1. /\ IndexOf(s, t, i) \in At(s, t) /\ IndexOf(s, t, i) >= i
      /\ IndexOf(s, t, i) \in Nat
  BY NextOccurrence
<1>2. IndexOf(s, t, i) \in 1..Len(s) /\ (IndexOf(s, t, i) + Len(t)) - 1 <= Len(s)
  BY <1>1, Occurs
<1>3. Len(s) \in Nat /\ Len(t) \in Nat /\ Len(t) > 0
  BY EmptySeq
<1> QED BY <1>1, <1>2, <1>3

LEMMA PiecesExist ==
  ASSUME NEW S, NEW s \in Seq(S), NEW t \in Seq(S), t # <<>>
  PROVE  \E f : IsPieces(s, t, f, 1)
<1> DEFINE N == Len(s) + 1
           T == {a \in 1..N : \E f : IsPieces(s, t, f, a)}
<1>1. N \in Nat /\ 1 \in 1..N
  OBVIOUS
<1>2. ASSUME NEW a \in 1..N, \A j \in (a + 1)..N : j \in T PROVE a \in T
  <2>1. PICK f : a # N => IsPieces(s, t, f, a + 1)
    <3>1. a # N => a + 1 \in (a + 1)..N
      BY <1>1
    <3> QED BY <1>2, <3>1
  <2> DEFINE g == [i \in a..N |-> IF i = a THEN Cutting(s, t, f, a) ELSE f[i]]
             h == [i \in a..N |-> Cutting(s, t, g, i)]
  <2>2. ASSUME NEW i \in a..N PROVE Cutting(s, t, g, i) = Cutting(s, t, f, i)
    <3>1. CASE Ahead(s, t, i) = {}
      BY <3>1 DEF Cutting
    <3>2. CASE Ahead(s, t, i) # {}
      <4> DEFINE j == IndexOf(s, t, i) + Len(t)
      <4>1. j \in (i + 1)..N
        <5>1. i \in 1..(Len(s) + 1)
          BY <1>1
        <5> QED BY <3>2, <5>1, CutGoesOn
      <4> HIDE DEF j
      <4>2. j \in a..N /\ j # a
        BY <1>1, <4>1
      <4>3. g[j] = f[j]
        BY <4>2
      <4> QED BY <3>2, <4>3 DEF Cutting, j
    <3> QED BY <3>1, <3>2
  <2>3. ASSUME NEW i \in a..N PROVE g[i] = h[i]
    <3>1. CASE i = a
      BY <2>2, <3>1
    <3>2. CASE i # a
      <4>1. i \in (a + 1)..N /\ a # N
        BY <1>1, <3>2
      <4>2. f[i] = Cutting(s, t, f, i)
        BY <2>1, <4>1 DEF IsPieces
      <4> QED BY <2>2, <3>2, <4>2
    <3> QED BY <3>1, <3>2
  <2>4. g = h
    BY <2>3
  <2>5. IsPieces(s, t, g, a)
    BY <2>4 DEF IsPieces
  <2> QED BY <2>5
<1>3. 1..N \subseteq T
  <2> HIDE DEF T, N
  <2> QED BY <1>1, <1>2, TopDown
<1> QED BY <1>1, <1>3

LEMMA PiecesEquation ==
  ASSUME NEW S, NEW s \in Seq(S), NEW t \in Seq(S), t # <<>>, NEW i \in 1..(Len(s) + 1)
  PROVE  Pieces(s, t)[i] = Cutting(s, t, Pieces(s, t), i)
<1> DEFINE f == Pieces(s, t)
<1>1. f = CHOOSE g : g = [k \in 1..(Len(s) + 1) |->
                            IF Ahead(s, t, k) = {} THEN <<From(s, k)>>
                            ELSE <<SubSeq(s, k, IndexOf(s, t, k) - 1)>>
                                   \o g[IndexOf(s, t, k) + Len(t)]]
  BY DEF Pieces
<1>2. f = CHOOSE g : IsPieces(s, t, g, 1)
  BY <1>1 DEF IsPieces, Cutting
<1>3. IsPieces(s, t, f, 1)
  BY <1>2, PiecesExist
<1> QED BY <1>3 DEF IsPieces

Joining(p, t, f, n) == IF n = 1 THEN p[1] ELSE f[n - 1] \o t \o p[n]

IsJoined(p, t, f, n) == f = [m \in 1..n |-> Joining(p, t, f, m)]

LEMMA JoinedExist ==
  ASSUME NEW p, NEW t, NEW n \in Nat
  PROVE  \E f : IsJoined(p, t, f, n)
<1> DEFINE T == {k \in Nat : \E f : IsJoined(p, t, f, k)}
<1>1. 0 \in T
  <2> DEFINE f == [m \in 1..0 |-> <<>>]
             h == [m \in 1..0 |-> Joining(p, t, f, m)]
  <2>1. f = h
    <3>1. \A m \in 1..0 : f[m] = h[m]
      OBVIOUS
    <3> QED BY <3>1
  <2>2. IsJoined(p, t, f, 0)
    BY <2>1 DEF IsJoined
  <2> QED BY <2>2
<1>2. ASSUME NEW k \in Nat, k \in T PROVE k + 1 \in T
  <2>1. PICK f : IsJoined(p, t, f, k)
    BY <1>2
  <2> DEFINE g == [m \in 1..(k + 1) |-> IF m = k + 1 THEN Joining(p, t, f, m) ELSE f[m]]
             h == [m \in 1..(k + 1) |-> Joining(p, t, g, m)]
  <2>2. ASSUME NEW m \in 1..(k + 1) PROVE Joining(p, t, g, m) = Joining(p, t, f, m)
    <3>1. CASE m = 1
      BY <3>1 DEF Joining
    <3>2. CASE m # 1
      <4>1. m - 1 \in 1..(k + 1) /\ m - 1 # k + 1
        BY <3>2
      <4>2. g[m - 1] = f[m - 1]
        BY <4>1
      <4> HIDE DEF g
      <4> QED BY <3>2, <4>2, Zenon DEF Joining
    <3> QED BY <3>1, <3>2
  <2>3. ASSUME NEW m \in 1..(k + 1) PROVE g[m] = h[m]
    <3>1. CASE m = k + 1
      BY <2>2, <3>1
    <3>2. CASE m # k + 1
      <4>1. m \in 1..k
        BY <3>2
      <4>2. f[m] = Joining(p, t, f, m)
        BY <2>1, <4>1 DEF IsJoined
      <4> QED BY <2>2, <3>2, <4>2
    <3> QED BY <3>1, <3>2
  <2>4. g = h
    BY <2>3
  <2>5. IsJoined(p, t, g, k + 1)
    BY <2>4 DEF IsJoined
  <2> QED BY <2>5
<1>3. Nat \subseteq T
  <2> HIDE DEF T
  <2> QED BY <1>1, <1>2, SetInduction
<1> QED BY <1>3

LEMMA JoinedEquation ==
  ASSUME NEW p, Len(p) \in Nat, NEW t, NEW n \in 1..Len(p)
  PROVE  Joined(p, t)[n] = Joining(p, t, Joined(p, t), n)
<1> DEFINE f == Joined(p, t)
<1>1. f = CHOOSE g : g = [m \in 1..Len(p) |-> IF m = 1 THEN p[1] ELSE g[m - 1] \o t \o p[m]]
  BY DEF Joined
<1>2. f = CHOOSE g : IsJoined(p, t, g, Len(p))
  BY <1>1 DEF IsJoined, Joining
<1>3. IsJoined(p, t, f, Len(p))
  BY <1>2, JoinedExist
<1> QED BY <1>3 DEF IsJoined

(* Concatenation is associative.  Under a name of its own it stays a       *)
(* symbol to the provers, whose own theory of sequences loses its way.     *)
Cat(u, v) == u \o v

LEMMA CatIsText ==
  ASSUME NEW S, NEW u \in Seq(S), NEW v \in Seq(S)
  PROVE  Cat(u, v) \in Seq(S)
BY DEF Cat

LEMMA Regrouped ==
  ASSUME NEW S, NEW u \in Seq(S), NEW v \in Seq(S), NEW w \in Seq(S)
  PROVE  Cat(Cat(u, v), w) = Cat(u, Cat(v, w))
BY DEF Cat

LEMMA RegroupedTwice ==
  ASSUME NEW S, NEW a \in Seq(S), NEW t \in Seq(S), NEW u \in Seq(S), NEW v \in Seq(S)
  PROVE  Cat(Cat(Cat(a, t), u), v) = Cat(a, Cat(t, Cat(u, v)))
<1>1. Cat(a, t) \in Seq(S) /\ Cat(u, v) \in Seq(S)
  BY CatIsText
<1>2. Cat(Cat(Cat(a, t), u), v) = Cat(Cat(a, t), Cat(u, v))
  BY <1>1, Regrouped
<1>3. Cat(Cat(a, t), Cat(u, v)) = Cat(a, Cat(t, Cat(u, v)))
  BY <1>1, Regrouped
<1> QED BY <1>2, <1>3

LEMMA RegroupedThrice ==
  ASSUME NEW S, NEW a \in Seq(S), NEW t \in Seq(S), NEW j \in Seq(S), NEW e \in Seq(S)
  PROVE  Cat(Cat(Cat(a, Cat(t, j)), t), e) = Cat(a, Cat(t, Cat(Cat(j, t), e)))
<1>1. Cat(t, j) \in Seq(S) /\ Cat(j, t) \in Seq(S) /\ Cat(t, e) \in Seq(S)
  BY CatIsText
<1>2. Cat(Cat(Cat(a, Cat(t, j)), t), e) = Cat(a, Cat(Cat(t, j), Cat(t, e)))
  BY <1>1, RegroupedTwice
<1>3. Cat(Cat(t, j), Cat(t, e)) = Cat(t, Cat(j, Cat(t, e)))
  BY <1>1, Regrouped
<1>4. Cat(Cat(j, t), e) = Cat(j, Cat(t, e))
  BY <1>1, Regrouped
<1> QED BY <1>2, <1>3, <1>4

(* A text with t behind it and another one behind that.                    *)
Glued(a, t, u) == a \o (t \o u)

LEMMA JoinCons ==
  ASSUME NEW S, NEW p \in Seq(Seq(S)), p # <<>>, NEW a \in Seq(S), NEW t \in Seq(S)
  PROVE  /\ Join(p, t) \in Seq(S)
         /\ Join(Cons(a, p), t) = Glued(a, t, Join(p, t))
<1> DEFINE q == Cons(a, p)
           N == Len(p)
           J == Joined(p, t)
           K == Joined(q, t)
           T == {n \in Nat : n \in 1..N => J[n] \in Seq(S) /\ K[n + 1] = a \o (t \o J[n])}
<1>1. N \in Nat /\ N > 0 /\ \A n \in 1..N : p[n] \in Seq(S)
  BY EmptySeq, ElementOfSeq
<1>2. Len(q) = N + 1 /\ q[1] = a /\ \A n \in 1..N : q[n + 1] = p[n]
  BY DEF Cons
<1>3. \A n \in 1..N : J[n] = Joining(p, t, J, n)
  BY <1>1, JoinedEquation
<1>4. \A n \in 1..(N + 1) : K[n] = Joining(q, t, K, n)
  <2>1. Len(q) = N + 1 /\ Len(q) \in Nat
    BY <1>1, <1>2
  <2> HIDE DEF q
  <2> QED BY <2>1, JoinedEquation
<1>5. \A n \in 1..N : K[n + 1] = (K[n] \o t) \o p[n]
  <2> SUFFICES ASSUME NEW n \in 1..N PROVE K[n + 1] = (K[n] \o t) \o p[n]
    OBVIOUS
  <2>1. n + 1 \in 1..(N + 1) /\ n + 1 # 1 /\ (n + 1) - 1 = n
    BY <1>1
  <2>2. K[n + 1] = Joining(q, t, K, n + 1)
    BY <1>4, <2>1
  <2>3. q[n + 1] = p[n]
    BY <1>2
  <2> HIDE DEF q, K
  <2> QED BY <2>1, <2>2, <2>3 DEF Joining
<1>6. J[1] = p[1] /\ K[1] = a
  <2>1. 1 \in 1..N /\ 1 \in 1..(N + 1)
    BY <1>1
  <2> HIDE DEF J, K, q, N
  <2> QED BY <1>2, <1>3, <1>4, <2>1 DEF Joining
<1>7. \A n \in 1..N : n # 1 => J[n] = (J[n - 1] \o t) \o p[n]
  <2> HIDE DEF J
  <2> QED BY <1>3 DEF Joining
<1> HIDE DEF J, K, q
<1>8. 0 \in T
  BY <1>1
<1>9. ASSUME NEW n \in Nat, n \in T PROVE n + 1 \in T
  <2> SUFFICES ASSUME n + 1 \in 1..N
               PROVE  J[n + 1] \in Seq(S) /\ K[(n + 1) + 1] = a \o (t \o J[n + 1])
    BY SMTT(30)
  <2>1. p[n + 1] \in Seq(S) /\ K[(n + 1) + 1] = (K[n + 1] \o t) \o p[n + 1]
    BY <1>1, <1>5
  <2>2. CASE n = 0
    <3>1. J[n + 1] = p[n + 1] /\ K[n + 1] = a
      BY <1>6, <2>2
    <3>2. Cat(Cat(a, t), p[n + 1]) = Cat(a, Cat(t, p[n + 1]))
      BY <2>1, Regrouped
    <3> QED BY <2>1, <3>1, <3>2 DEF Cat
  <2>3. CASE n # 0
    <3>1. n \in 1..N /\ n + 1 # 1 /\ (n + 1) - 1 = n
      BY <2>3
    <3>2. J[n] \in Seq(S) /\ K[n + 1] = a \o (t \o J[n])
      BY <1>9, <3>1
    <3>3. J[n + 1] = (J[n] \o t) \o p[n + 1]
      BY <1>7, <3>1
    <3> DEFINE j == J[n]
               e == p[n + 1]
    <3>4. j \in Seq(S) /\ e \in Seq(S)
      BY <2>1, <3>2
    <3> HIDE DEF j, e
    <3>5. Cat(Cat(j, t), e) \in Seq(S)
      BY <3>4, CatIsText
    <3>6. Cat(Cat(Cat(a, Cat(t, j)), t), e) = Cat(a, Cat(t, Cat(Cat(j, t), e)))
      BY <3>4, RegroupedThrice
    <3>7. K[(n + 1) + 1] = Cat(Cat(Cat(a, Cat(t, j)), t), e)
      BY <2>1, <3>2, Zenon DEF Cat, j, e
    <3>8. J[n + 1] = Cat(Cat(j, t), e)
      BY <3>3, Zenon DEF Cat, j, e
    <3>9. J[n + 1] \in Seq(S) /\ K[(n + 1) + 1] = Cat(a, Cat(t, J[n + 1]))
      BY <3>5, <3>6, <3>7, <3>8, Zenon
    <3> QED BY <3>9, Zenon DEF Cat
  <2> QED BY <2>2, <2>3
<1>10. Nat \subseteq T
  <2> HIDE DEF T
  <2> QED BY <1>8, <1>9, SetInduction
<1>11. J[N] \in Seq(S) /\ K[N + 1] = a \o (t \o J[N])
  <2>1. N \in T /\ N \in 1..N
    BY <1>1, <1>10
  <2> QED BY <2>1
<1> QED BY <1>2, <1>11 DEF Join, Glued, J, K, q
-----------------------------------------------------------------------------
LEMMA JoinOne ==
  ASSUME NEW p, Len(p) = 1, NEW t
  PROVE  Join(p, t) = p[1]
<1>1. Joined(p, t)[1] = Joining(p, t, Joined(p, t), 1)
  BY JoinedEquation
<1> QED BY <1>1 DEF Join, Joining

(* The pieces from i on, put together, are the text from i on.             *)
LEMMA SplitRebuilds ==
  ASSUME NEW S, NEW s \in Seq(S), NEW t \in Seq(S), t # <<>>, NEW i \in 1..(Len(s) + 1)
  PROVE  /\ Pieces(s, t)[i] \in Seq(Seq(S)) /\ Pieces(s, t)[i] # <<>>
         /\ Join(Pieces(s, t)[i], t) = From(s, i)
<1> DEFINE N == Len(s) + 1
           P == Pieces(s, t)
           T == {k \in 1..N : P[k] \in Seq(Seq(S)) /\ P[k] # <<>> /\ Join(P[k], t) = From(s, k)}
<1>1. N \in Nat
  OBVIOUS
<1>2. ASSUME NEW k \in 1..N, \A j \in (k + 1)..N : j \in T PROVE k \in T
  <2>1. P[k] = Cutting(s, t, P, k)
    BY PiecesEquation
  <2>2. CASE Ahead(s, t, k) = {}
    <3>1. P[k] = <<From(s, k)>>
      BY <2>1, <2>2 DEF Cutting
    <3>2. From(s, k) \in Seq(S)
      <4>1. Len(s) \in (k - 1)..Len(s)
        OBVIOUS
      <4> QED BY <4>1, Part DEF From
    <3> HIDE DEF P
    <3>3. Len(P[k]) = 1 /\ P[k][1] = From(s, k) /\ P[k] \in Seq(Seq(S)) /\ P[k] # <<>>
      BY <3>1, <3>2
    <3> QED BY <3>3, JoinOne
  <2>3. CASE Ahead(s, t, k) # {}
    <3> DEFINE m == IndexOf(s, t, k)
               a == SubSeq(s, k, m - 1)
               j == m + Len(t)
    <3>1. m \in At(s, t) /\ k \in 1..m
      BY <2>3, NextOccurrence
    <3>2. a \in Seq(S) /\ a \o (t \o From(s, j)) = From(s, k)
      BY <3>1, PutBack
    <3>3. j \in (k + 1)..N
      BY <2>3, CutGoesOn
    <3>4. P[k] = <<a>> \o P[j]
      BY <2>1, <2>3 DEF Cutting
    <3> HIDE DEF m, a, j, P
    <3>5. P[j] \in Seq(Seq(S)) /\ P[j] # <<>> /\ Join(P[j], t) = From(s, j)
      BY <1>2, <3>3
    <3>6. Join(Cons(a, P[j]), t) = Glued(a, t, Join(P[j], t))
      BY <3>2, <3>5, JoinCons
    <3>7. <<a>> \o P[j] \in Seq(Seq(S)) /\ <<a>> \o P[j] # <<>>
      BY <3>2, <3>5
    <3>8. Join(P[k], t) = From(s, k)
      BY <3>2, <3>4, <3>5, <3>6 DEF Cons, Glued
    <3> QED BY <3>4, <3>7, <3>8
  <2> QED BY <2>2, <2>3
<1>3. 1..N \subseteq T
  <2> HIDE DEF T, N
  <2> QED BY <1>1, <1>2, TopDown
<1> QED BY <1>3

(* Occurrences of a text that cannot overlap itself are apart.             *)
LEMMA Apart ==
  ASSUME NEW S, NEW s \in Seq(S), NEW t \in Seq(S), ~Overlaps(t),
         NEW i \in At(s, t), NEW j \in At(s, t), i < j
  PROVE  i + Len(t) <= j
<1> DEFINE T == Len(t)
<1>1. T \in Nat /\ Len(s) \in Nat /\ i \in 1..Len(s) /\ j \in 1..Len(s)
  BY Occurs
<1> SUFFICES ASSUME j < i + T PROVE Overlaps(t)
  BY <1>1
<1> DEFINE n == j - i
           a == SubSeq(t, n + 1, T)
           b == SubSeq(t, 1, T - n)
<1>2. n \in 1..(T - 1)
  BY <1>1
<1> HIDE DEF n
<1>3. /\ a \in Seq(S) /\ Len(a) = T - n
      /\ \A k \in 1..(T - n) : a[k] = t[(n + 1 + k) - 1]
  <2>1. n + 1 \in 1..(T + 1) /\ T \in ((n + 1) - 1)..T /\ (T - (n + 1)) + 1 = T - n
    BY <1>1, <1>2
  <2> QED BY <2>1, Part
<1>4. /\ b \in Seq(S) /\ Len(b) = T - n
      /\ \A k \in 1..(T - n) : b[k] = t[(1 + k) - 1]
  <2>1. 1 \in 1..(T + 1) /\ T - n \in (1 - 1)..T /\ ((T - n) - 1) + 1 = T - n
    BY <1>1, <1>2
  <2> QED BY <2>1, Part
<1>5. ASSUME NEW k \in 1..(T - n) PROVE t[(n + 1 + k) - 1] = t[(1 + k) - 1]
  <2>1. k \in 1..T /\ n + k \in 1..T
    BY <1>1, <1>2
  <2>5. \A l \in 1..T : s[(i + l) - 1] = t[l] /\ s[(j + l) - 1] = t[l]
    BY Occurs
  <2>2. s[(j + k) - 1] = t[k]
    BY <2>5, <2>1
  <2>3. s[(i + (n + k)) - 1] = t[n + k]
    BY <2>5, <2>1
  <2>4. (i + (n + k)) - 1 = (j + k) - 1 /\ (n + 1 + k) - 1 = n + k /\ (1 + k) - 1 = k
    BY <1>1, <2>1 DEF n
  <2> QED BY <2>2, <2>3, <2>4
<1>6. a = b
  <2> HIDE DEF a, b
  <2>1. \A k \in 1..(T - n) : a[k] = b[k]
    BY <1>3, <1>4, <1>5
  <2> QED BY <1>3, <1>4, <2>1, SeqEqual
<1> QED BY <1>2, <1>6 DEF Overlaps, From

LEMMA LastPiece ==
  ASSUME NEW S, NEW s \in Seq(S), NEW t \in Seq(S), t # <<>>, ~Overlaps(t),
         NEW i \in 1..(Len(s) + 1), Ahead(s, t, i) # {}
  PROVE  Last(Pieces(s, t)[i]) = From(s, LastIndexOf(s, t) + Len(t))
<1> DEFINE N == Len(s) + 1
           P == Pieces(s, t)
           L == LastIndexOf(s, t)
           T == {k \in 1..N : Ahead(s, t, k) # {} => Last(P[k]) = From(s, L + Len(t))}
<1>1. N \in Nat
  OBVIOUS
<1>2. ASSUME NEW k \in 1..N, \A j \in (k + 1)..N : j \in T PROVE k \in T
  <2> SUFFICES ASSUME Ahead(s, t, k) # {} PROVE Last(P[k]) = From(s, L + Len(t))
    OBVIOUS
  <2> DEFINE m == IndexOf(s, t, k)
             a == SubSeq(s, k, m - 1)
             j == m + Len(t)
  <2>1. m \in At(s, t) /\ m \in Nat /\ k \in 1..m
    BY NextOccurrence
  <2>2. j \in (k + 1)..N
    BY CutGoesOn
  <2>3. P[k] = Cutting(s, t, P, k)
    BY PiecesEquation
  <2>4. P[k] = <<a>> \o P[j]
    BY <2>3 DEF Cutting
  <2>5. P[j] \in Seq(Seq(S)) /\ P[j] # <<>>
    <3>1. j \in 1..(Len(s) + 1)
      BY <2>2
    <3> QED BY <3>1, SplitRebuilds
  <2>6. a \in Seq(S)
    BY <2>1, PutBack
  <2>7. L \in At(s, t) /\ L \in Nat /\ \A y \in At(s, t) : y <= L
    BY <2>1, LastOccurrence
  <2>8. Last(P[k]) = Last(P[j])
    <3> DEFINE p == P[j]
    <3>1. p \in Seq(Seq(S)) /\ p # <<>>
      BY <2>5
    <3> HIDE DEF p, a, m, j
    <3>2. Last(<<a>> \o p) = Last(p)
      <4>1. Len(p) \in Nat /\ Len(p) > 0
        BY <3>1, EmptySeq
      <4>2. Len(<<a>> \o p) = Len(p) + 1 /\ (<<a>> \o p)[Len(p) + 1] = p[Len(p)]
        BY <3>1, <4>1
      <4> QED BY <4>2 DEF Last
    <3> QED BY <2>4, <3>2 DEF p
  <2>9. CASE Ahead(s, t, j) # {}
    <3>1. j \in T
      BY <1>2, <2>2
    <3> QED BY <2>8, <2>9, <3>1
  <2>10. CASE Ahead(s, t, j) = {}
    <3>1. L = m
      <4>1. m <= L
        BY <2>1, <2>7
      <4>2. ~(m < L)
        <5>1. SUFFICES ASSUME m < L PROVE FALSE
          OBVIOUS
        <5>2. m + Len(t) <= L
          <6> HIDE DEF m, L
          <6> QED BY <2>1, <2>7, <5>1, Apart
        <5>3. L \in Ahead(s, t, j)
          BY <2>7, <5>2 DEF Ahead
        <5> QED BY <2>10, <5>3
      <4> QED BY <2>1, <2>7, <4>1, <4>2
    <3>2. P[j] = <<From(s, j)>>
      <4>1. P[j] = Cutting(s, t, P, j)
        <5>1. j \in 1..(Len(s) + 1)
          BY <2>2
        <5> QED BY <5>1, PiecesEquation
      <4> QED BY <2>10, <4>1 DEF Cutting
    <3>3. Last(P[j]) = From(s, j)
      BY <3>2 DEF Last
    <3> QED BY <2>8, <3>1, <3>3
  <2> QED BY <2>9, <2>10
<1>3. 1..N \subseteq T
  <2> HIDE DEF T, N
  <2> QED BY <1>1, <1>2, TopDown
<1> QED BY <1>3
-----------------------------------------------------------------------------
LEMMA Whole ==
  ASSUME NEW S, NEW s \in Seq(S)
  PROVE  From(s, 1) = s
BY SubSeqFull DEF From

(* What a concatenation looks like, character by character.                *)
LEMMA Behind ==
  ASSUME NEW S, NEW u \in Seq(S), NEW v \in Seq(S)
  PROVE  /\ u \o v \in Seq(S)
         /\ Len(u \o v) = Len(u) + Len(v)
         /\ \A k \in 1..Len(u) : (u \o v)[k] = u[k]
         /\ \A k \in 1..Len(v) : (u \o v)[Len(u) + k] = v[k]
OBVIOUS

LEMMA StartsWith ==
  ASSUME NEW S, NEW u \in Seq(S), NEW v \in Seq(S)
  PROVE  IsPrefix(u, u \o v) /\ From(u \o v, Len(u) + 1) = v /\ SubSeq(u \o v, 1, Len(u)) = u
<1> DEFINE w == u \o v
           M == Len(u)
           N == Len(v)
           a == SubSeq(w, M + 1, M + N)
           b == SubSeq(w, 1, M)
<1>1. /\ w \in Seq(S) /\ Len(w) = M + N /\ M \in Nat /\ N \in Nat
      /\ \A k \in 1..M : w[k] = u[k]
      /\ \A k \in 1..N : w[M + k] = v[k]
  BY Behind
<1> HIDE DEF w
<1>2. IsPrefix(u, w)
  <2>1. M <= Len(w)
    BY <1>1
  <2>2. \A k \in 1..M : u[k] = w[k]
    BY <1>1
  <2> QED BY <1>1, <2>1, <2>2, Prefix
<1>3. a = v
  <2>1. M + 1 \in 1..(Len(w) + 1) /\ M + N \in ((M + 1) - 1)..Len(w) /\ ((M + N) - (M + 1)) + 1 = N
    BY <1>1
  <2>2. a \in Seq(S) /\ Len(a) = N /\ \A k \in 1..N : a[k] = w[((M + 1) + k) - 1]
    BY <1>1, <2>1, Part
  <2>3. \A k \in 1..N : ((M + 1) + k) - 1 = M + k
    BY <1>1
  <2>4. \A k \in 1..N : a[k] = v[k]
    BY <1>1, <2>2, <2>3
  <2> HIDE DEF a
  <2> QED BY <2>2, <2>4, SeqEqual
<1>4. b = u
  <2>1. 1 \in 1..(Len(w) + 1) /\ M \in (1 - 1)..Len(w) /\ (M - 1) + 1 = M
    BY <1>1
  <2>2. b \in Seq(S) /\ Len(b) = M /\ \A k \in 1..M : b[k] = w[(1 + k) - 1]
    BY <1>1, <2>1, Part
  <2>3. \A k \in 1..M : (1 + k) - 1 = k
    BY <1>1
  <2>4. \A k \in 1..M : b[k] = u[k]
    BY <1>1, <2>2, <2>3
  <2> HIDE DEF b
  <2> QED BY <2>2, <2>4, SeqEqual
<1>5. From(w, M + 1) = v
  BY <1>1, <1>3 DEF From
<1> QED BY <1>2, <1>4, <1>5 DEF w

LEMMA EndsWith ==
  ASSUME NEW S, NEW u \in Seq(S), NEW v \in Seq(S)
  PROVE  IsSuffix(v, u \o v)
<1> DEFINE w == u \o v
           M == Len(u)
           N == Len(v)
           x == Reverse(v)
           y == Reverse(w)
<1>1. /\ w \in Seq(S) /\ Len(w) = M + N /\ M \in Nat /\ N \in Nat
      /\ \A k \in 1..N : w[M + k] = v[k]
  BY Behind
<1> HIDE DEF w
<1>2. x \in Seq(S) /\ Len(x) = N /\ \A k \in 1..N : x[k] = v[(N - k) + 1]
  <2>1. \A k \in 1..N : v[(N - k) + 1] \in S
    <3> SUFFICES ASSUME NEW k \in 1..N PROVE v[(N - k) + 1] \in S
      OBVIOUS
    <3>1. (N - k) + 1 \in 1..N
      BY <1>1
    <3> QED BY <3>1, ElementOfSeq
  <2>2. x = [k \in 1..N |-> v[(N - k) + 1]]
    BY DEF Reverse
  <2> HIDE DEF x
  <2> QED BY <1>1, <2>1, <2>2
<1>3. y \in Seq(S) /\ Len(y) = M + N /\ \A k \in 1..(M + N) : y[k] = w[((M + N) - k) + 1]
  <2>1. \A k \in 1..(M + N) : w[((M + N) - k) + 1] \in S
    <3> SUFFICES ASSUME NEW k \in 1..(M + N) PROVE w[((M + N) - k) + 1] \in S
      OBVIOUS
    <3>1. ((M + N) - k) + 1 \in 1..Len(w)
      BY <1>1
    <3> QED BY <1>1, <3>1, ElementOfSeq
  <2>2. y = [k \in 1..(M + N) |-> w[((M + N) - k) + 1]]
    BY <1>1 DEF Reverse
  <2> HIDE DEF y
  <2> QED BY <1>1, <2>1, <2>2
<1>4. ASSUME NEW k \in 1..N PROVE x[k] = y[k]
  <2>1. (N - k) + 1 \in 1..N /\ k \in 1..(M + N) /\ ((M + N) - k) + 1 = M + ((N - k) + 1)
    BY <1>1
  <2>2. w[M + ((N - k) + 1)] = v[(N - k) + 1]
    BY <1>1, <2>1
  <2> QED BY <1>2, <1>3, <2>1, <2>2
<1> HIDE DEF x, y
<1>5. IsPrefix(x, y)
  <2>1. Len(x) <= Len(y) /\ \A k \in 1..Len(x) : x[k] = y[k]
    BY <1>1, <1>2, <1>3, <1>4
  <2> QED BY <1>2, <1>3, <2>1, Prefix
<1> QED BY <1>5 DEF IsSuffix, x, y, w

-----------------------------------------------------------------------------
(* The helpers.                                                            *)
LEMMA Chopped ==
  ASSUME NEW S, NEW s \in Seq(S), NEW t \in Seq(S)
  PROVE  /\ ChopStart(t \o s, t) = s
         /\ ChopEnd(s \o t, t) = s
         /\ ChopEnd(Finish(s, t), t) = ChopEnd(s, t)
         /\ ChopStart(Start(s, t), t) = ChopStart(s, t)
<1>1. ChopStart(t \o s, t) = s
  BY StartsWith DEF ChopStart
<1>2. ChopEnd(s \o t, t) = s
  <2> DEFINE w == s \o t
  <2>1. IsSuffix(t, w) /\ SubSeq(w, 1, Len(s)) = s /\ Len(w) = Len(s) + Len(t)
    BY StartsWith, EndsWith, Behind
  <2>2. Len(w) - Len(t) = Len(s)
    BY <2>1
  <2> HIDE DEF w
  <2>3. ChopEnd(w, t) = s
    BY <2>1, <2>2 DEF ChopEnd
  <2> QED BY <2>3 DEF w
<1>3. ChopEnd(Finish(s, t), t) = ChopEnd(s, t)
  <2>1. CASE IsSuffix(t, s)
    BY <2>1 DEF Finish
  <2>2. CASE ~IsSuffix(t, s)
    BY <1>2, <2>2 DEF Finish, ChopEnd
  <2> QED BY <2>1, <2>2
<1>4. ChopStart(Start(s, t), t) = ChopStart(s, t)
  <2>1. CASE IsPrefix(t, s)
    BY <2>1 DEF Start
  <2>2. CASE ~IsPrefix(t, s)
    BY <1>1, <2>2 DEF Start, ChopStart
  <2> QED BY <2>1, <2>2
<1> QED BY <1>1, <1>2, <1>3, <1>4

LEMMA Unwrapped ==
  ASSUME NEW S, NEW s \in Seq(S), NEW t \in Seq(S)
  PROVE  /\ Wrap(s, t) \in Seq(S) /\ Wrap(s, t) = t \o (s \o t)
         /\ Unwrap(Wrap(s, t), t) = s
<1> DEFINE u == t \o s
           v == s \o t
           w == u \o t
           N == Len(t)
<1>1. /\ u \in Seq(S) /\ v \in Seq(S) /\ w \in Seq(S) /\ w = t \o v
      /\ Len(u) = N + Len(s) /\ Len(w) = Len(u) + N /\ Len(s) \in Nat /\ N \in Nat
  OBVIOUS
<1>2. Wrap(s, t) = w
  BY DEF Wrap
<1>3. IsPrefix(t, w)
  BY <1>1, StartsWith, ZenonT(60)
<1>4. IsSuffix(t, w)
  BY <1>1, EndsWith
<1>5. \A k \in 1..Len(u) : w[k] = u[k]
  <2> HIDE DEF u
  <2> QED BY <1>1, Behind
<1>6. SubSeq(w, N + 1, Len(w) - N) = s
  <2> DEFINE a == SubSeq(w, N + 1, Len(w) - N)
  <2>1. /\ N + 1 \in 1..(Len(w) + 1) /\ Len(w) - N \in ((N + 1) - 1)..Len(w)
        /\ ((Len(w) - N) - (N + 1)) + 1 = Len(s)
    BY <1>1
  <2>2. a \in Seq(S) /\ Len(a) = Len(s) /\ \A k \in 1..Len(s) : a[k] = w[((N + 1) + k) - 1]
    <3> HIDE DEF w
    <3> QED BY <1>1, <2>1, Part
  <2>3. ASSUME NEW k \in 1..Len(s) PROVE a[k] = s[k]
    <3>1. ((N + 1) + k) - 1 = N + k /\ N + k \in 1..Len(u)
      BY <1>1
    <3>2. w[N + k] = u[N + k]
      BY <1>5, <3>1
    <3>3. u[N + k] = s[k]
      BY Behind
    <3> QED BY <2>2, <3>1, <3>2, <3>3
  <2>4. a = s
    <3> HIDE DEF a
    <3> QED BY <2>2, <2>3, SeqEqual
  <2> QED BY <2>4
<1> QED BY <1>1, <1>2, <1>3, <1>4, <1>6 DEF Unwrap

LEMMA NotCut ==
  ASSUME NEW s, NEW t, ~Includes(s, t)
  PROVE  {Before(s, t), After(s, t), BeforeLast(s, t), AfterLast(s, t)} = {s}
BY DEF Before, After, BeforeLast, AfterLast
-----------------------------------------------------------------------------
LEMMA Rejoined ==
  ASSUME NEW S, NEW s \in Seq(S), NEW t \in Seq(S), t # <<>>
  PROVE  Join(Split(s, t), t) = s /\ Swap(s, t, t) = s
<1>1. 1 \in 1..(Len(s) + 1)
  OBVIOUS
<1>2. Join(Split(s, t), t) = From(s, 1)
  BY <1>1, SplitRebuilds DEF Split
<1> QED BY <1>2, Whole DEF Swap

(* What is before the first occurrence and what is right after it.         *)
LEMMA FirstPieces ==
  ASSUME NEW S, NEW s \in Seq(S), NEW t \in Seq(S), t # <<>>, Includes(s, t)
  PROVE  LET m == IndexOf(s, t, 1)
             j == m + Len(t)
         IN  /\ m \in At(s, t) /\ j \in 1..(Len(s) + 1)
             /\ Split(s, t) = <<SubSeq(s, 1, m - 1)>> \o Pieces(s, t)[j]
             /\ Before(s, t) = SubSeq(s, 1, m - 1)
             /\ After(s, t) = IF Ahead(s, t, j) = {} THEN From(s, j)
                              ELSE SubSeq(s, j, IndexOf(s, t, j) - 1)
<1> DEFINE m == IndexOf(s, t, 1)
           j == m + Len(t)
           b == SubSeq(s, 1, m - 1)
           P == Pieces(s, t)
<1>1. 1 \in 1..(Len(s) + 1)
  OBVIOUS
<1>2. Ahead(s, t, 1) # {}
  <2>1. \A i \in At(s, t) : i >= 1
    BY DEF At
  <2> QED BY <2>1 DEF Ahead, Includes
<1>3. m \in At(s, t) /\ m \in Nat /\ m >= 1
  BY <1>1, <1>2, NextOccurrence
<1>4. j \in 1..(Len(s) + 1)
  <2>1. j \in (1 + 1)..(Len(s) + 1)
    BY <1>1, <1>2, CutGoesOn
  <2> QED BY <2>1
<1>5. P[1] = <<b>> \o P[j]
  <2>1. P[1] = Cutting(s, t, P, 1)
    BY <1>1, PiecesEquation
  <2> QED BY <1>2, <2>1 DEF Cutting
<1>6. P[j] \in Seq(Seq(S)) /\ P[j] # <<>>
  BY <1>4, SplitRebuilds
<1>7. b \in Seq(S)
  <2>1. 1 \in 1..m
    BY <1>3
  <2> QED BY <1>3, <2>1, PutBack
<1>8. P[j][1] = IF Ahead(s, t, j) = {} THEN From(s, j) ELSE SubSeq(s, j, IndexOf(s, t, j) - 1)
  <2>1. P[j] = Cutting(s, t, P, j)
    BY <1>4, PiecesEquation
  <2>2. CASE Ahead(s, t, j) = {}
    BY <2>1, <2>2 DEF Cutting
  <2>3. CASE Ahead(s, t, j) # {}
    <3> DEFINE k == IndexOf(s, t, j)
               a == SubSeq(s, j, k - 1)
               p == P[k + Len(t)]
    <3>1. k \in At(s, t) /\ j \in 1..k
      BY <1>4, <2>3, NextOccurrence
    <3>2. a \in Seq(S)
      BY <3>1, PutBack
    <3>3. p \in Seq(Seq(S))
      <4>1. k + Len(t) \in (j + 1)..(Len(s) + 1)
        BY <1>4, <2>3, CutGoesOn
      <4>2. k + Len(t) \in 1..(Len(s) + 1)
        BY <1>4, <4>1
      <4> QED BY <4>2, SplitRebuilds
    <3>4. P[j] = <<a>> \o p
      BY <2>1, <2>3 DEF Cutting
    <3> HIDE DEF a, p
    <3>5. (<<a>> \o p)[1] = a
      BY <3>2, <3>3
    <3> QED BY <2>3, <3>4, <3>5 DEF a
  <2> QED BY <2>2, <2>3
<1>9. P[1][1] = b /\ P[1][2] = P[j][1]
  <2> DEFINE p == P[j]
  <2> HIDE DEF b, j, P
  <2>1. p \in Seq(Seq(S)) /\ p # <<>>
    BY <1>6
  <2> HIDE DEF p
  <2>2. (<<b>> \o p)[1] = b /\ (<<b>> \o p)[2] = p[1]
    <3>1. Len(p) \in Nat /\ Len(p) > 0
      BY <2>1, EmptySeq
    <3> QED BY <1>7, <2>1, <3>1
  <2> QED BY <1>5, <2>2 DEF p
<1>10. Before(s, t) = b /\ After(s, t) = P[j][1]
  BY <1>9 DEF Before, After, Split
<1> QED BY <1>3, <1>4, <1>5, <1>8, <1>10 DEF Split

LEMMA FirstRebuilds ==
  ASSUME NEW S, NEW s \in Seq(S), NEW t \in Seq(S), t # <<>>, Includes(s, t)
  PROVE  /\ IsPrefix(Before(s, t) \o t \o After(s, t), s)
         /\ Len(Split(s, t)) = 2 => Before(s, t) \o t \o After(s, t) = s
<1> DEFINE m == IndexOf(s, t, 1)
           j == m + Len(t)
           b == Before(s, t)
           a == After(s, t)
<1>1. /\ m \in At(s, t) /\ j \in 1..(Len(s) + 1)
      /\ Split(s, t) = <<b>> \o Pieces(s, t)[j]
      /\ b = SubSeq(s, 1, m - 1)
      /\ a = IF Ahead(s, t, j) = {} THEN From(s, j) ELSE SubSeq(s, j, IndexOf(s, t, j) - 1)
  BY FirstPieces
<1>2. b \in Seq(S) /\ From(s, j) \in Seq(S) /\ b \o (t \o From(s, j)) = s
  <2>1. 1 \in 1..m
    BY <1>1 DEF At
  <2>2. /\ SubSeq(s, 1, m - 1) \in Seq(S) /\ From(s, j) \in Seq(S)
        /\ SubSeq(s, 1, m - 1) \o (t \o From(s, j)) = From(s, 1)
    BY <1>1, <2>1, PutBack
  <2> QED BY <1>1, <2>2, Whole
<1>3. \E c \in Seq(S) : a \in Seq(S) /\ a \o c = From(s, j)
  <2>1. CASE Ahead(s, t, j) = {}
    <3>1. a = From(s, j)
      BY <1>1, <2>1
    <3>2. <<>> \in Seq(S) /\ From(s, j) \o <<>> = From(s, j)
      BY <1>2
    <3> QED BY <1>2, <3>1, <3>2
  <2>2. CASE Ahead(s, t, j) # {}
    <3> DEFINE k == IndexOf(s, t, j)
    <3>1. k \in At(s, t) /\ j \in 1..k
      BY <1>1, <2>2, NextOccurrence
    <3>2. k \in 1..Len(s)
      BY <3>1, Occurs
    <3>3. a = SubSeq(s, j, k - 1)
      BY <1>1, <2>2
    <3> HIDE DEF k, j, a
    <3>4. /\ j \in 1..(Len(s) + 1) /\ k - 1 \in (j - 1)..Len(s) /\ Len(s) \in (k - 1)..Len(s)
          /\ (k - 1) + 1 = k /\ k \in 1..(Len(s) + 1) /\ Len(s) \in Nat
      BY <1>1, <3>1, <3>2
    <3>5. a \in Seq(S)
      BY <3>3, <3>4, Part
    <3>6. From(s, k) \in Seq(S)
      BY <3>4, Part DEF From
    <3>7. a \o From(s, k) = From(s, j)
      BY <3>3, <3>4, ConcatAdjacentSubSeq DEF From
    <3> QED BY <3>5, <3>6, <3>7
  <2> QED BY <2>1, <2>2
<1>4. IsPrefix((b \o t) \o a, s)
  <2>1. PICK c \in Seq(S) : a \in Seq(S) /\ a \o c = From(s, j)
    BY <1>3
  <2> HIDE DEF a, b, j, m
  <2> DEFINE u == (b \o t) \o a
  <2>2. u \in Seq(S)
    BY <1>2, <2>1
  <2>3. u \o c = Glued(b, t, a \o c)
    <3>1. Cat(Cat(Cat(b, t), a), c) = Cat(b, Cat(t, Cat(a, c)))
      BY <1>2, <2>1, RegroupedTwice
    <3> QED BY <3>1, Zenon DEF Cat, Glued
  <2>4. u \o c = s
    <3> HIDE DEF u
    <3> QED BY <1>2, <2>1, <2>3 DEF Glued
  <2> HIDE DEF u
  <2>5. IsPrefix(u, u \o c)
    BY <2>1, <2>2, StartsWith
  <2> QED BY <2>4, <2>5 DEF u
<1>5. ASSUME Len(Split(s, t)) = 2 PROVE (b \o t) \o a = s
  <2> DEFINE p == Pieces(s, t)[j]
  <2>1. p \in Seq(Seq(S)) /\ p # <<>> /\ Join(p, t) = From(s, j)
    BY <1>1, SplitRebuilds
  <2>2. Split(s, t) = <<b>> \o p
    BY <1>1
  <2> HIDE DEF p
  <2>3. Len(p) < 2
    <3> DEFINE x == Len(<<b>> \o p)
    <3>1. x = 1 + Len(p) /\ Len(p) \in Nat
      <4> HIDE DEF b
      <4> QED BY <1>2, <2>1
    <3>2. x = 2
      BY <1>5, <2>2, Zenon
    <3> HIDE DEF x
    <3> QED BY <3>1, <3>2
  <2>4. Ahead(s, t, j) = {}
    <3> SUFFICES ASSUME Ahead(s, t, j) # {} PROVE FALSE
      OBVIOUS
    <3> DEFINE k == IndexOf(s, t, j)
               d == SubSeq(s, j, k - 1)
               e == Pieces(s, t)[k + Len(t)]
    <3>1. k \in At(s, t) /\ j \in 1..k
      BY <1>1, NextOccurrence
    <3>2. d \in Seq(S)
      BY <3>1, PutBack
    <3>3. e \in Seq(Seq(S)) /\ e # <<>>
      <4>1. k + Len(t) \in (j + 1)..(Len(s) + 1)
        BY <1>1, CutGoesOn
      <4>2. k + Len(t) \in 1..(Len(s) + 1)
        BY <1>1, <4>1
      <4> QED BY <4>2, SplitRebuilds
    <3>4. p = <<d>> \o e
      <4>1. p = Cutting(s, t, Pieces(s, t), j)
        BY <1>1, PiecesEquation DEF p
      <4> QED BY <4>1 DEF Cutting
    <3> HIDE DEF d, e
    <3>5. Len(e) \in Nat /\ Len(e) > 0
      BY <3>3, EmptySeq
    <3>6. Len(<<d>> \o e) = 1 + Len(e)
      BY <3>2, <3>3
    <3> QED BY <2>3, <3>4, <3>5, <3>6
  <2>5. a = From(s, j)
    BY <1>1, <2>4
  <2> HIDE DEF a, b, j, m
  <2>6. (b \o t) \o a = Glued(b, t, a)
    <3>1. Cat(Cat(b, t), a) = Cat(b, Cat(t, a))
      BY <1>2, <2>5, Regrouped
    <3> QED BY <3>1, Zenon DEF Cat, Glued
  <2> QED BY <1>2, <2>5, <2>6 DEF Glued
<1> QED BY <1>4, <1>5

LEMMA LastRebuilds ==
  ASSUME NEW S, NEW s \in Seq(S), NEW t \in Seq(S), t # <<>>, Includes(s, t), ~Overlaps(t)
  PROVE  BeforeLast(s, t) \o t \o AfterLast(s, t) = s
<1> DEFINE L == LastIndexOf(s, t)
           b == SubSeq(s, 1, L - 1)
           a == From(s, L + Len(t))
<1>1. L \in At(s, t) /\ 1 \in 1..L
  <2>1. L \in At(s, t)
    BY LastOccurrence DEF Includes
  <2> QED BY <2>1 DEF At
<1>2. b \in Seq(S) /\ a \in Seq(S) /\ b \o (t \o a) = s
  <2>1. b \in Seq(S) /\ a \in Seq(S) /\ b \o (t \o a) = From(s, 1)
    BY <1>1, PutBack
  <2> QED BY <2>1, Whole
<1>3. BeforeLast(s, t) = b
  BY DEF BeforeLast
<1>4. AfterLast(s, t) = a
  <2>1. 1 \in 1..(Len(s) + 1)
    OBVIOUS
  <2>2. Ahead(s, t, 1) # {}
    BY <1>1 DEF Ahead
  <2>3. Last(Pieces(s, t)[1]) = a
    BY <2>1, <2>2, LastPiece
  <2> QED BY <2>3 DEF AfterLast, Split
<1> HIDE DEF a, b
<1>5. (b \o t) \o a = Glued(b, t, a)
  <2>1. Cat(Cat(b, t), a) = Cat(b, Cat(t, a))
    BY <1>2, Regrouped
  <2> QED BY <2>1, Zenon DEF Cat, Glued
<1> QED BY <1>2, <1>3, <1>4, <1>5 DEF Glued

(* Between two of t there is what a t at the end is before.                *)
LEMMA BetweenTwo ==
  ASSUME NEW S, NEW s \in Seq(S), NEW t \in Seq(S), t # <<>>
  PROVE  Between(Wrap(s, t), t, t) = Before(s \o t, t)
<1> DEFINE w == Wrap(s, t)
           y == s \o t
           N == Len(t)
           m == IndexOf(y, t, 1)
           n == IndexOf(w, t, 1 + N)
           v == SubSeq(w, 1 + N, n - 1)
           u == SubSeq(y, 1, m - 1)
<1>1. /\ w \in Seq(S) /\ w = t \o y /\ y \in Seq(S) /\ Len(y) = Len(s) + N
      /\ Len(s) \in Nat /\ N \in Nat /\ N > 0
  <2>1. w \in Seq(S) /\ w = t \o y
    BY Unwrapped
  <2>2. y \in Seq(S) /\ Len(y) = Len(s) + N
    BY Behind
  <2> QED BY <2>1, <2>2, EmptySeq
<1>2. \A k \in 1..N : y[Len(s) + k] = t[k]
  BY Behind
<1>3. Len(w) = N + Len(y)
  <2> HIDE DEF w, y
  <2> QED BY <1>1, Behind
<1>4. \A k \in 1..N : w[k] = t[k]
  <2> HIDE DEF w, y
  <2>1. \A k \in 1..N : (t \o y)[k] = t[k]
    BY <1>1, Behind
  <2> QED BY <1>1, <2>1
<1>5. \A k \in 1..Len(y) : w[N + k] = y[k]
  <2> HIDE DEF w, y
  <2>1. \A k \in 1..Len(y) : (t \o y)[N + k] = y[k]
    BY <1>1, Behind
  <2> QED BY <1>1, <2>1
<1> HIDE DEF w, y
<1>6. Len(s) + 1 \in At(y, t)
  <2>1. Len(s) + 1 \in 1..Len(y) /\ ((Len(s) + 1) + N) - 1 <= Len(y)
    BY <1>1
  <2>2. \A k \in 1..N : y[((Len(s) + 1) + k) - 1] = t[k]
    <3>1. \A k \in 1..N : ((Len(s) + 1) + k) - 1 = Len(s) + k
      BY <1>1
    <3> QED BY <1>2, <3>1
  <2> QED BY <1>1, <2>1, <2>2, Occurs
<1>7. 1 \in At(w, t)
  <2>1. 1 \in 1..Len(w) /\ (1 + N) - 1 <= Len(w)
    BY <1>1, <1>3
  <2>2. \A k \in 1..N : w[(1 + k) - 1] = t[k]
    <3>1. \A k \in 1..N : (1 + k) - 1 = k
      OBVIOUS
    <3> QED BY <1>4, <3>1
  <2> QED BY <1>1, <2>1, <2>2, Occurs
<1>8. ASSUME NEW i \in Nat, i > 0 PROVE i \in At(y, t) <=> i + N \in At(w, t)
  <2>1. /\ i \in 1..Len(y) <=> i + N \in 1..Len(w)
        /\ (i + N) - 1 <= Len(y) <=> ((i + N) + N) - 1 <= Len(w)
    BY <1>1, <1>3, <1>8
  <2>2. ASSUME (i + N) - 1 <= Len(y), NEW k \in 1..N
        PROVE  w[((i + N) + k) - 1] = y[(i + k) - 1]
    <3>1. (i + k) - 1 \in 1..Len(y) /\ N + ((i + k) - 1) = ((i + N) + k) - 1
      BY <1>1, <1>8, <2>2
    <3> QED BY <1>5, <3>1
  <2>6. y \in Seq(S) /\ w \in Seq(S)
    BY <1>1
  <2>3. i \in At(y, t) <=> Reads(y, t, i)
    BY <2>6, OccursWhereRead
  <2>4. i + N \in At(w, t) <=> Reads(w, t, i + N)
    BY <2>6, OccursWhereRead
  <2>5. Reads(y, t, i) <=> Reads(w, t, i + N)
    BY <2>1, <2>2 DEF Reads
  <2> QED BY <2>3, <2>4, <2>5
<1>9. /\ m \in At(y, t) /\ m \in Nat /\ m >= 1 /\ m \in 1..Len(y)
      /\ \A i \in At(y, t) : i >= m
  <2>1. \A i \in At(y, t) : i \in Nat /\ i >= 1
    BY DEF At
  <2>2. Ahead(y, t, 1) # {} /\ 1 \in 1..(Len(y) + 1)
    BY <1>1, <1>6, <2>1 DEF Ahead
  <2>3. /\ m \in At(y, t) /\ m \in Nat /\ m >= 1
        /\ \A i \in At(y, t) : i >= 1 => i >= m
    BY <1>1, <2>2, NextOccurrence
  <2>4. m \in 1..Len(y)
    BY <2>3 DEF At
  <2> QED BY <2>1, <2>3, <2>4
<1>10. Ahead(w, t, 1 + N) # {} /\ 1 + N \in 1..(Len(w) + 1)
  <2>1. (Len(s) + 1) + N \in At(w, t) /\ (Len(s) + 1) + N >= 1 + N
    BY <1>1, <1>6, <1>8
  <2> QED BY <1>1, <1>3, <2>1 DEF Ahead
<1>11. /\ n \in At(w, t) /\ n \in Nat /\ n >= 1 + N /\ n \in 1..Len(w)
      /\ \A i \in At(w, t) : i >= 1 + N => i >= n
  <2>1. /\ n \in At(w, t) /\ n \in Nat /\ n >= 1 + N
        /\ \A i \in At(w, t) : i >= 1 + N => i >= n
    BY <1>1, <1>10, NextOccurrence
  <2> QED BY <2>1 DEF At
<1> HIDE DEF m, n
<1>12. n = m + N
  <2>1. m + N \in At(w, t) /\ m + N >= 1 + N
    BY <1>1, <1>8, <1>9
  <2>2. n - N \in Nat /\ n - N > 0 /\ (n - N) + N = n
    BY <1>1, <1>11
  <2>3. n - N \in At(y, t)
    BY <1>8, <1>11, <2>2
  <2>4. n <= m + N
    BY <1>11, <2>1
  <2>5. m <= n - N
    BY <1>9, <2>3
  <2>6. m \in Nat /\ n \in Nat /\ N \in Nat
    BY <1>1, <1>9, <1>11
  <2> HIDE DEF N
  <2> QED BY <2>4, <2>5, <2>6
<1>13. /\ v \in Seq(S) /\ Len(v) = m - 1
       /\ \A k \in 1..(m - 1) : v[k] = w[((1 + N) + k) - 1]
  <2>1. n - 1 \in ((1 + N) - 1)..Len(w) /\ ((n - 1) - (1 + N)) + 1 = m - 1
    BY <1>1, <1>3, <1>9, <1>11, <1>12
  <2> QED BY <1>1, <1>10, <2>1, Part
<1>14. /\ u \in Seq(S) /\ Len(u) = m - 1
       /\ \A k \in 1..(m - 1) : u[k] = y[(1 + k) - 1]
  <2>1. 1 \in 1..(Len(y) + 1) /\ m - 1 \in (1 - 1)..Len(y) /\ ((m - 1) - 1) + 1 = m - 1
    BY <1>1, <1>9
  <2> QED BY <1>1, <2>1, Part
<1>15. v = u
  <2> HIDE DEF u, v
  <2>1. ASSUME NEW k \in 1..(m - 1) PROVE v[k] = u[k]
    <3>1. ((1 + N) + k) - 1 = N + k /\ (1 + k) - 1 = k /\ k \in 1..Len(y)
      BY <1>1, <1>9
    <3> QED BY <1>5, <1>13, <1>14, <3>1
  <2> QED BY <1>13, <1>14, <2>1, SeqEqual
<1>16. After(w, t) = v
  <2>1. IndexOf(w, t, 1) = 1
    <3>1. Ahead(w, t, 1) # {} /\ 1 \in 1..(Len(w) + 1)
      BY <1>1, <1>3, <1>7 DEF Ahead
    <3>2. /\ IndexOf(w, t, 1) \in Nat /\ IndexOf(w, t, 1) >= 1
          /\ \A i \in At(w, t) : i >= 1 => i >= IndexOf(w, t, 1)
      BY <1>1, <3>1, NextOccurrence
    <3> QED BY <1>7, <3>2
  <2>2. Includes(w, t)
    BY <1>7 DEF Includes
  <2>3. After(w, t) = IF Ahead(w, t, 1 + N) = {} THEN From(w, 1 + N)
                      ELSE SubSeq(w, 1 + N, IndexOf(w, t, 1 + N) - 1)
    BY <1>1, <2>1, <2>2, FirstPieces
  <2> QED BY <1>10, <2>3 DEF n
<1>17. ~Includes(v, t)
  <2> SUFFICES ASSUME NEW i \in At(v, t) PROVE FALSE
    BY DEF Includes
  <2> HIDE DEF v
  <2>1. /\ i \in 1..(m - 1) /\ (i + N) - 1 <= m - 1
        /\ \A k \in 1..N : v[(i + k) - 1] = t[k]
    BY <1>1, <1>13, Occurs
  <2>2. i \in Nat /\ i > 0 /\ i \in 1..Len(y) /\ (i + N) - 1 <= Len(y)
    BY <1>1, <1>9, <2>1
  <2>3. ASSUME NEW k \in 1..N PROVE y[(i + k) - 1] = t[k]
    <3>1. (i + k) - 1 \in 1..(m - 1) /\ (1 + ((i + k) - 1)) - 1 = (i + k) - 1
      BY <1>1, <1>9, <2>1
    <3>2. v[(i + k) - 1] = t[k]
      BY <2>1
    <3>3. u[(i + k) - 1] = y[(i + k) - 1]
      <4> HIDE DEF u
      <4> QED BY <1>14, <3>1
    <3> QED BY <1>15, <3>2, <3>3
  <2>4. i \in At(y, t)
    BY <1>1, <2>2, <2>3, Occurs
  <2> QED BY <1>9, <2>1, <2>4
<1>18. Between(w, t, t) = v
  BY <1>16, <1>17 DEF Between, Before
<1>19. Before(y, t) = u
  <2>1. Includes(y, t)
    BY <1>6 DEF Includes
  <2> QED BY <1>1, <2>1, FirstPieces DEF m
<1> QED BY <1>15, <1>18, <1>19 DEF w, y

-----------------------------------------------------------------------------
(* A text is one of the texts.                                             *)
CutsTexts == call.of = "text" => call.text \in Texts /\ call.at \in Texts \ {<<>>}

(* For texts of any length over any characters the pieces of a text make   *)
(* it up again, and each helper undoes the one it is the inverse of.       *)
THEOREM PiecesAlwaysRebuild == Spec => []PiecesRebuildTheText
<1>1. Init => CutsTexts
  BY DEF Init, CutsTexts
<1>2. CutsTexts /\ [Next]_call => CutsTexts'
  <2> SUFFICES ASSUME CutsTexts, [Next]_call PROVE CutsTexts'
    OBVIOUS
  <2>1. CASE Cut
    BY <2>1 DEF Cut, CutsTexts
  <2>2. CASE Random \/ Negotiate
    BY <2>2 DEF Random, Negotiate, CutsTexts
  <2>3. CASE UNCHANGED call
    BY <2>3 DEF CutsTexts
  <2> QED BY <2>1, <2>2, <2>3 DEF Next
<1>3. CutsTexts => PiecesRebuildTheText
  <2> SUFFICES ASSUME call.of = "text", call.text \in Texts, call.at \in Texts \ {<<>>}
               PROVE  PiecesRebuildTheText
    BY DEF CutsTexts, PiecesRebuildTheText
  <2> DEFINE s == call.text
             t == call.at
  <2>1. s \in Seq(STRING) /\ t \in Seq(STRING) /\ t # <<>>
    BY TextsAreSequences
  <2> HIDE DEF s, t
  <2>2. Join(Split(s, t), t) = s /\ Swap(s, t, t) = s
    BY <2>1, Rejoined
  <2>3. Includes(s, t) =>
          /\ IsPrefix(Before(s, t) \o t \o After(s, t), s)
          /\ Len(Split(s, t)) = 2 => Before(s, t) \o t \o After(s, t) = s
          /\ ~Overlaps(t) => BeforeLast(s, t) \o t \o AfterLast(s, t) = s
    BY <2>1, FirstRebuilds, LastRebuilds
  <2>4. ~Includes(s, t) =>
          {Before(s, t), After(s, t), BeforeLast(s, t), AfterLast(s, t)} = {s}
    BY NotCut
  <2>5. Between(Wrap(s, t), t, t) = Before(s \o t, t)
    BY <2>1, BetweenTwo
  <2>6. /\ ChopStart(t \o s, t) = s /\ ChopEnd(s \o t, t) = s /\ Unwrap(Wrap(s, t), t) = s
        /\ ChopEnd(Finish(s, t), t) = ChopEnd(s, t)
        /\ ChopStart(Start(s, t), t) = ChopStart(s, t)
    BY <2>1, Chopped, Unwrapped
  <2> QED BY <2>2, <2>3, <2>4, <2>5, <2>6 DEF PiecesRebuildTheText, s, t
<1> QED BY <1>1, <1>2, <1>3, PTL DEF Spec
=============================================================================
