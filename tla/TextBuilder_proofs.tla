------------------------ MODULE TextBuilder_proofs -------------------------
(***************************************************************************)
(* Proofs about TextBuilder, for any pieces of bytes, any bound and any    *)
(* separator of one byte: that a cat always reads as the text its client   *)
(* meant, that iterating, indexing, comparing and searching it give what   *)
(* they give on the text, and what the text is parsed, encoded and hashed  *)
(* to.                                                                     *)
(*                                                                         *)
(* The argument: a place p of a text is where p bytes are before it.  Each *)
(* place of a cat without an empty piece is one iterator (PlaceOf),        *)
(* operator++ goes from the one of p to the one of p + 1 (IncrementIs), so *)
(* a loop goes through all (WalkIs) and reads the text (BytesIs); substr() *)
(* between two of them is that part of the text (SubstrIs).  What else the *)
(* client does follows, and keeps the invariant BInv.  Numbers and         *)
(* addresses in the text are parsed to what they mean: static_split() cuts *)
(* at each separator (SplitInTwo, SplitInFour), and a printed endpoint has *)
(* its dots and its colon in the right places (JoinedIs).                  *)
(***************************************************************************)
EXTENDS TextBuilder, Text_proofs

-----------------------------------------------------------------------------
(* Places of a cat, and their iterators.                                   *)

\* The iterator that has p bytes before it.
PlaceOf(c, p) ==
  IF p = Size(c) THEN End(c)
  ELSE [it |-> PieceAt(c, p + 1), iit |-> p - Before(c, PieceAt(c, p + 1))]

\* PieceAt() is the piece whose bounds p lies between.
LEMMA PieceIs ==
  ASSUME NEW D, NEW c \in Seq(Seq(D)), NEW k \in 1 .. Len(c), NEW p \in Nat,
         Before(c, k) < p, p <= Before(c, k) + Len(c[k])
  PROVE  p \in 1 .. Size(c) /\ PieceAt(c, p) = k
<1>1. /\ Len(c) \in Nat /\ Size(c) \in Nat /\ Before(c, 1) = 0
      /\ Before(c, Len(c) + 1) = Size(c)
      /\ \A i \in 1 .. Len(c) : /\ Before(c, i) \in Nat /\ Len(c[i]) \in Nat
                                /\ Before(c, i + 1) = Before(c, i) + Len(c[i])
  BY BeforeFacts
<1>2. p \in 1 .. Size(c)
  <2>1. k + 1 \in 1 .. Len(c) + 1 /\ Len(c) + 1 \in k + 1 .. Len(c) + 1
    BY <1>1
  <2>2. Before(c, k + 1) <= Before(c, Len(c) + 1)
    BY <2>1, BeforeGrows
  <2> QED
    BY <1>1, <2>2
<1> DEFINE j == PieceAt(c, p)
<1>3. /\ j \in 1 .. Len(c) /\ p <= Before(c, j) + Len(c[j]) /\ Before(c, j) < p
  <2>1. c # <<>> /\ p \in 0 .. Size(c) /\ p # 0
    BY <1>1, <1>2
  <2> QED
    BY <2>1, PieceAtIs
<1> HIDE DEF j
<1>4. ~(j < k)
  <2>1. SUFFICES ASSUME j < k PROVE FALSE
    OBVIOUS
  <2>2. j + 1 \in 1 .. Len(c) + 1 /\ k \in j + 1 .. Len(c) + 1
    BY <1>1, <1>3, <2>1
  <2>3. Before(c, j + 1) <= Before(c, k)
    BY <2>2, BeforeGrows
  <2>4. /\ Before(c, j + 1) = Before(c, j) + Len(c[j]) /\ Before(c, j) \in Nat
        /\ Before(c, k) \in Nat /\ Len(c[j]) \in Nat /\ p <= Before(c, j) + Len(c[j])
    BY <1>1, <1>3
  <2> QED
    BY <2>3, <2>4
<1>5. ~(k < j)
  <2>1. SUFFICES ASSUME k < j PROVE FALSE
    OBVIOUS
  <2>2. k + 1 \in 1 .. Len(c) + 1 /\ j \in k + 1 .. Len(c) + 1
    BY <1>1, <1>3, <2>1
  <2>3. Before(c, k + 1) <= Before(c, j)
    BY <2>2, BeforeGrows
  <2>4. Before(c, k + 1) = Before(c, k) + Len(c[k]) /\ Before(c, j) \in Nat
        /\ Before(c, k) \in Nat /\ Len(c[k]) \in Nat /\ Before(c, j) < p
    BY <1>1, <1>3
  <2> QED
    BY <2>3, <2>4
<1> QED
  BY <1>2, <1>3, <1>4, <1>5 DEF j

\* The iterator of a byte is in a piece, at one of its bytes.
LEMMA PlaceIs ==
  ASSUME NEW D, NEW c \in Seq(Seq(D)), NEW p \in Nat, p < Size(c)
  PROVE  /\ PlaceOf(c, p).it \in 1 .. Len(c)
         /\ PlaceOf(c, p) = [it |-> PlaceOf(c, p).it, iit |-> p - Before(c, PlaceOf(c, p).it)]
         /\ PlaceOf(c, p).iit = p - Before(c, PlaceOf(c, p).it)
         /\ PlaceOf(c, p).iit \in 0 .. Len(c[PlaceOf(c, p).it]) - 1
         /\ PlaceOf(c, p).it = PieceAt(c, p + 1)
<1> DEFINE k == PieceAt(c, p + 1)
<1>1. /\ Len(c) \in Nat /\ Size(c) \in Nat /\ Before(c, Len(c) + 1) = Size(c) /\ Before(c, 1) = 0
      /\ \A i \in 1 .. Len(c) : Before(c, i) \in Nat /\ Len(c[i]) \in Nat
  BY BeforeFacts
<1>2. c # <<>>
  <2>1. c = <<>> => Len(c) + 1 = 1
    OBVIOUS
  <2> QED
    BY <1>1, <2>1
<1>3. p + 1 \in 0 .. Size(c) /\ p + 1 # 0
  BY <1>1
<1>4. k \in 1 .. Len(c) /\ p + 1 <= Before(c, k) + Len(c[k]) /\ Before(c, k) < p + 1
  BY <1>2, <1>3, PieceAtIs
<1>5. p # Size(c)
  BY <1>1
<1>6. PlaceOf(c, p) = [it |-> k, iit |-> p - Before(c, k)]
  BY <1>5 DEF PlaceOf
<1> HIDE DEF k
<1>7. p - Before(c, k) \in 0 .. Len(c[k]) - 1
  <2> DEFINE b == Before(c, k)
             l == Len(c[k])
  <2>1. b \in Nat /\ l \in Nat /\ p + 1 <= b + l /\ b < p + 1
    BY <1>1, <1>4
  <2> HIDE DEF b, l
  <2>2. p - b \in 0 .. l - 1
    BY <2>1
  <2> QED
    BY <2>2 DEF b, l
<1> QED
  BY <1>4, <1>6, <1>7 DEF k

\* The same iterator, from what is in it.
LEMMA PlaceAt ==
  ASSUME NEW D, NEW c \in Seq(Seq(D)), NEW k \in 1 .. Len(c), NEW n \in 0 .. Len(c[k]) - 1
  PROVE  /\ Before(c, k) + n \in Nat /\ Before(c, k) + n < Size(c)
         /\ PlaceOf(c, Before(c, k) + n) = [it |-> k, iit |-> n]
<1> DEFINE p == Before(c, k) + n
<1>1. Before(c, k) \in Nat /\ Len(c[k]) \in Nat /\ Size(c) \in Nat
  BY BeforeFacts
<1>2. /\ p \in Nat /\ p + 1 \in Nat /\ Before(c, k) < p + 1
      /\ p + 1 <= Before(c, k) + Len(c[k]) /\ p - Before(c, k) = n
  <2> DEFINE b == Before(c, k)
             l == Len(c[k])
  <2>1. b \in Nat /\ l \in Nat /\ n \in 0 .. l - 1
    BY <1>1
  <2> HIDE DEF b, l
  <2>2. p = b + n
    BY DEF b
  <2> HIDE DEF p
  <2>3. /\ p \in Nat /\ p + 1 \in Nat /\ b < p + 1
        /\ p + 1 <= b + l /\ p - b = n
    BY <2>1, <2>2
  <2> QED
    BY <2>3 DEF b, l
<1> HIDE DEF p
<1>3. p + 1 \in 1 .. Size(c) /\ PieceAt(c, p + 1) = k
  BY <1>2, PieceIs
<1>4. p < Size(c) /\ p # Size(c)
  BY <1>1, <1>2, <1>3
<1>5. PlaceOf(c, p) = [it |-> k, iit |-> n]
  BY <1>2, <1>3, <1>4 DEF PlaceOf
<1> QED
  BY <1>2, <1>4, <1>5 DEF p

\* A piece of a full cat has a byte.
LEMMA FullIs ==
  ASSUME NEW D, NEW c \in Seq(Seq(D)), Full(c), NEW k \in 1 .. Len(c)
  PROVE  Len(c[k]) \in Nat /\ Len(c[k]) >= 1
<1>1. c[k] \in Seq(D) /\ c[k] # <<>>
  BY DEF Full
<1> QED
  BY <1>1, EmptySeq

\* operator++ goes to the next byte.
LEMMA IncrementIs ==
  ASSUME NEW D, NEW c \in Seq(Seq(D)), Full(c), NEW p \in Nat, p < Size(c)
  PROVE  Increment(c, PlaceOf(c, p)) = PlaceOf(c, p + 1)
<1> DEFINE i == PlaceOf(c, p)
           k == i.it
           n == i.iit
<1>1. /\ k \in 1 .. Len(c) /\ i = [it |-> k, iit |-> n]
      /\ n = p - Before(c, k) /\ n \in 0 .. Len(c[k]) - 1
  BY PlaceIs
<1>2. /\ Len(c) \in Nat /\ Size(c) \in Nat /\ Before(c, Len(c) + 1) = Size(c)
      /\ \A j \in 1 .. Len(c) : /\ Before(c, j) \in Nat /\ Len(c[j]) \in Nat
                                /\ Before(c, j + 1) = Before(c, j) + Len(c[j])
  BY BeforeFacts
<1>3. n # Null
  BY <1>1, <1>2 DEF Null
<1> HIDE DEF i, k, n
<1>4. /\ Before(c, k) \in Nat /\ Len(c[k]) \in Nat /\ k \in Nat
      /\ Before(c, k + 1) = Before(c, k) + Len(c[k])
      /\ k = Len(c) => Before(c, k + 1) = Size(c)
  BY <1>1, <1>2
<1>5. n \in Nat /\ n <= Len(c[k]) - 1
  BY <1>1, <1>4
<1>6. p = Before(c, k) + n
  BY <1>1, <1>4, <1>5
<1>7. CASE n + 1 < Len(c[k])
  <2>1. Increment(c, i) = [it |-> k, iit |-> n + 1]
    BY <1>1, <1>3, <1>7 DEF Increment
  <2>2. n + 1 \in 0 .. Len(c[k]) - 1 /\ Before(c, k) + (n + 1) = p + 1
    <3> DEFINE b == Before(c, k)
               l == Len(c[k])
    <3>1. b \in Nat /\ l \in Nat /\ n \in Nat /\ n + 1 < l /\ p = b + n
      BY <1>4, <1>5, <1>6, <1>7
    <3> HIDE DEF b, l
    <3>2. n + 1 \in 0 .. l - 1 /\ b + (n + 1) = p + 1
      BY <3>1
    <3> QED
      BY <3>2 DEF b, l
  <2>3. PlaceOf(c, Before(c, k) + (n + 1)) = [it |-> k, iit |-> n + 1]
    BY <1>1, <2>2, PlaceAt
  <2> QED
    BY <2>1, <2>2, <2>3 DEF i
<1>8. CASE ~(n + 1 < Len(c[k])) /\ k = Len(c)
  <2> DEFINE next == {j \in (i.it + 1) .. Len(c) : c[j] # <<>>}
  <2>1. next = {}
    BY <1>1, <1>2, <1>8
  <2>2. Increment(c, i) = IF next = {} THEN End(c) ELSE [it |-> Min(next), iit |-> 0]
    <3>1. i.iit = n /\ i.it = k
      BY <1>1
    <3> QED
      BY <1>3, <1>8, <3>1, Zenon DEF Increment
  <2>3. p + 1 = Size(c)
    BY <1>6, <1>8, <1>4, <1>5
  <2> QED
    BY <2>1, <2>2, <2>3 DEF PlaceOf, i
<1>9. CASE ~(n + 1 < Len(c[k])) /\ k # Len(c)
  <2> DEFINE next == {j \in (i.it + 1) .. Len(c) : c[j] # <<>>}
  <2>0. i.iit = n /\ i.it = k
    BY <1>1
  <2>1. k + 1 \in 1 .. Len(c) /\ DOMAIN c = 1 .. Len(c)
    BY <1>1, <1>2, <1>9
  <2>2. Min(next) = k + 1 /\ next # {}
    <3>1. next \in SUBSET Nat /\ \A j \in next : k + 1 <= j
      BY <1>1, <1>2, <2>0
    <3>2. k + 1 \in next
      BY <1>2, <2>0, <2>1 DEF Full
    <3> HIDE DEF next
    <3>3. Min(next) \in next /\ \A j \in next : Min(next) <= j
      BY <3>1, <3>2, LeastIs
    <3>4. Min(next) \in Nat /\ Min(next) <= k + 1 /\ k + 1 <= Min(next)
      BY <3>1, <3>2, <3>3
    <3> QED
      BY <1>1, <3>2, <3>4
  <2>3. Increment(c, i) = IF next = {} THEN End(c) ELSE [it |-> Min(next), iit |-> 0]
    BY <1>3, <1>9, <2>0, Zenon DEF Increment
  <2> HIDE DEF next
  <2>4. 0 \in 0 .. Len(c[k + 1]) - 1
    <3>1. Len(c[k + 1]) \in Nat /\ Len(c[k + 1]) >= 1
      BY <2>1, FullIs
    <3> QED
      BY <3>1
  <2>5. Before(c, k + 1) + 0 = p + 1
    BY <1>6, <1>9, <1>4, <1>5
  <2>6. PlaceOf(c, Before(c, k + 1) + 0) = [it |-> k + 1, iit |-> 0]
    BY <2>1, <2>4, PlaceAt
  <2> QED
    BY <2>2, <2>3, <2>5, <2>6 DEF i
<1> QED
  BY <1>7, <1>8, <1>9


\* The iterators of a full cat are those of its places.
LEMMA IteratorsAre ==
  ASSUME NEW D, NEW c \in Seq(Seq(D)), Full(c), c # <<>>
  PROVE  /\ Iterators(c) = {PlaceOf(c, p) : p \in 0 .. Size(c)}
         /\ Begin(c) = PlaceOf(c, 0) /\ End(c) = PlaceOf(c, Size(c))
         /\ Size(c) \in Nat
<1>1. /\ Len(c) \in Nat /\ Size(c) \in Nat /\ Before(c, 1) = 0 /\ 1 \in 1 .. Len(c)
      /\ DOMAIN c = 1 .. Len(c)
  BY BeforeFacts, EmptySeq
<1>2. Begin(c) = PlaceOf(c, 0)
  <2>1. Len(c[1]) \in Nat /\ Len(c[1]) >= 1
    BY <1>1, FullIs
  <2>2. 0 \in 0 .. Len(c[1]) - 1
    BY <2>1
  <2>3. PlaceOf(c, Before(c, 1) + 0) = [it |-> 1, iit |-> 0]
    BY <1>1, <2>2, PlaceAt
  <2> QED
    BY <1>1, <2>3 DEF Begin
<1>3. End(c) = PlaceOf(c, Size(c))
  BY DEF PlaceOf
<1>4. ASSUME NEW i \in Iterators(c) PROVE i \in {PlaceOf(c, p) : p \in 0 .. Size(c)}
  <2>1. CASE i \in {Begin(c), End(c)}
    BY <1>1, <1>2, <1>3, <2>1
  <2>2. CASE i \notin {Begin(c), End(c)}
    <3>0. PICK k \in 1 .. Len(c) : i \in {[it |-> k, iit |-> n] : n \in 0 .. Len(c[k]) - 1}
      BY <1>1, <2>2 DEF Iterators
    <3>1. PICK n \in 0 .. Len(c[k]) - 1 : i = [it |-> k, iit |-> n]
      BY <3>0
    <3>2. /\ Before(c, k) + n \in Nat /\ Before(c, k) + n < Size(c)
          /\ PlaceOf(c, Before(c, k) + n) = i
      BY <3>1, PlaceAt
    <3>3. Before(c, k) + n \in 0 .. Size(c)
      BY <1>1, <3>2
    <3> QED
      BY <3>2, <3>3
  <2> QED
    BY <2>1, <2>2
<1>5. ASSUME NEW p \in 0 .. Size(c) PROVE PlaceOf(c, p) \in Iterators(c)
  <2>1. CASE p = Size(c)
    BY <1>3, <2>1 DEF Iterators
  <2>2. CASE p # Size(c)
    <3>1. p \in Nat /\ p < Size(c)
      BY <1>1, <2>2
    <3> DEFINE k == PlaceOf(c, p).it
               n == PlaceOf(c, p).iit
    <3>2. /\ k \in DOMAIN c /\ n \in 0 .. Len(c[k]) - 1
          /\ PlaceOf(c, p) = [it |-> k, iit |-> n]
      BY <1>1, <3>1, PlaceIs
    <3> HIDE DEF k, n
    <3>3. [it |-> k, iit |-> n] \in {[it |-> k, iit |-> m] : m \in 0 .. Len(c[k]) - 1}
      BY <3>2
    <3> QED
      BY <3>2, <3>3 DEF Iterators
  <2> QED
    BY <2>1, <2>2
<1> QED
  BY <1>1, <1>2, <1>3, <1>4, <1>5

\* How many bytes an iterator has before it.
Offset(c, i) == IF i.iit = Null THEN Size(c) ELSE Before(c, i.it) + i.iit

\* Iterators of different places differ.
LEMMA OffsetIs ==
  ASSUME NEW D, NEW c \in Seq(Seq(D)), NEW p \in 0 .. Size(c)
  PROVE  /\ Offset(c, PlaceOf(c, p)) = p
         /\ SameIterator(PlaceOf(c, p), End(c)) <=> p = Size(c)
<1>1. Size(c) \in Nat /\ p \in Nat /\ p <= Size(c)
  BY BeforeFacts
<1>2. CASE p = Size(c)
  BY <1>2 DEF Offset, PlaceOf, End, SameIterator
<1>3. CASE p # Size(c)
  <2> DEFINE i == PlaceOf(c, p)
  <2>1. /\ i.it \in 1 .. Len(c) /\ i.iit = p - Before(c, i.it)
        /\ i.iit \in 0 .. Len(c[i.it]) - 1
    BY <1>1, <1>3, PlaceIs
  <2> HIDE DEF i
  <2>2. Before(c, i.it) \in Nat /\ Len(c[i.it]) \in Nat
    BY <2>1, BeforeFacts
  <2>3. i.iit # Null /\ Before(c, i.it) + i.iit = p
    BY <1>1, <2>1, <2>2 DEF Null
  <2>4. Offset(c, i) = p
    BY <2>3 DEF Offset
  <2>5. ~SameIterator(i, End(c))
    <3>1. End(c).iit = Null
      BY DEF End
    <3>2. i # End(c)
      BY <2>3, <3>1
    <3> QED
      BY <2>3, <3>2 DEF SameIterator
  <2> QED
    BY <1>3, <2>4, <2>5 DEF i
<1> QED
  BY <1>2, <1>3

\* The iterators from one to the end.
PlacesFrom(c, p) == [q \in 1 .. Size(c) - p |-> PlaceOf(c, p + q - 1)]

\* The first of them and those that follow.
LEMMA PlacesFromIs ==
  ASSUME NEW D, NEW c \in Seq(Seq(D)), Full(c), c # <<>>, NEW p \in 0 .. Size(c)
  PROVE  /\ PlacesFrom(c, p) \in Seq(Iterators(c)) /\ Len(PlacesFrom(c, p)) = Size(c) - p
         /\ p = Size(c) => PlacesFrom(c, p) = <<>>
         /\ p < Size(c) => PlacesFrom(c, p) = <<PlaceOf(c, p)>> \o PlacesFrom(c, p + 1)
<1> DEFINE I == Iterators(c)
           n == Size(c)
<1>1. n \in Nat /\ I = {PlaceOf(c, r) : r \in 0 .. n}
  BY IteratorsAre
<1> HIDE DEF I, n
<1>2. \A r \in 0 .. n : /\ [q \in 1 .. n - r |-> PlaceOf(c, r + q - 1)] \in Seq(I)
                        /\ Len([q \in 1 .. n - r |-> PlaceOf(c, r + q - 1)]) = n - r
  <2> SUFFICES ASSUME NEW r \in 0 .. n
               PROVE  /\ [q \in 1 .. n - r |-> PlaceOf(c, r + q - 1)] \in Seq(I)
                      /\ Len([q \in 1 .. n - r |-> PlaceOf(c, r + q - 1)]) = n - r
    OBVIOUS
  <2>1. \A q \in 1 .. n - r : r + q - 1 \in 0 .. n
    BY <1>1
  <2>2. \A q \in 1 .. n - r : PlaceOf(c, r + q - 1) \in I
    BY <1>1, <2>1
  <2>3. n - r \in Nat
    BY <1>1
  <2> QED
    BY <2>2, <2>3
<1>3. \A r \in 0 .. n : /\ PlacesFrom(c, r) \in Seq(I) /\ Len(PlacesFrom(c, r)) = n - r
                        /\ \A q \in 1 .. n - r : PlacesFrom(c, r)[q] = PlaceOf(c, r + q - 1)
  BY <1>2 DEF PlacesFrom, n
<1>4. p \in 0 .. n /\ p \in Nat /\ p <= n
  BY <1>1 DEF n
<1>5. p = n => PlacesFrom(c, p) = <<>>
  <2>1. PlacesFrom(c, p) \in Seq(I) /\ Len(PlacesFrom(c, p)) = n - p
    BY <1>3, <1>4
  <2>2. p = n => n - p = 0
    BY <1>1
  <2> QED
    BY <2>1, <2>2, EmptySeq
<1>6. ASSUME p < n PROVE PlacesFrom(c, p) = <<PlaceOf(c, p)>> \o PlacesFrom(c, p + 1)
  <2> DEFINE a == <<PlaceOf(c, p)>>
             s == PlacesFrom(c, p)
             t == PlacesFrom(c, p + 1)
  <2>1. p + 1 \in 0 .. n
    BY <1>1, <1>4, <1>6
  <2>2. PlaceOf(c, p) \in I
    BY <1>1, <1>4
  <2>3. a \in Seq(I) /\ Len(a) = 1 /\ a[1] = PlaceOf(c, p)
    BY <2>2
  <2>4. /\ s \in Seq(I) /\ Len(s) = n - p
        /\ \A q \in 1 .. n - p : s[q] = PlaceOf(c, p + q - 1)
    BY <1>3, <1>4
  <2>5. /\ t \in Seq(I) /\ Len(t) = n - (p + 1)
        /\ \A q \in 1 .. n - (p + 1) : t[q] = PlaceOf(c, (p + 1) + q - 1)
    BY <1>3, <2>1
  <2> HIDE DEF a, s, t
  <2>6. /\ a \o t \in Seq(I) /\ Len(a \o t) = Len(a) + Len(t)
        /\ \A i \in 1 .. Len(a) + Len(t) :
             (a \o t)[i] = IF i <= Len(a) THEN a[i] ELSE t[i - Len(a)]
    BY <2>3, <2>5, ConcatProperties
  <2>7. Len(a \o t) = Len(s)
    BY <1>1, <1>4, <2>3, <2>4, <2>5, <2>6
  <2>8. ASSUME NEW i \in 1 .. Len(s) PROVE s[i] = (a \o t)[i]
    <3>1. i \in 1 .. n - p /\ i \in 1 .. Len(a) + Len(t) /\ i \in Nat /\ i >= 1 /\ i <= n - p
      BY <1>1, <1>4, <2>3, <2>4, <2>5
    <3>2. CASE i = 1
      <4>1. (a \o t)[i] = PlaceOf(c, p)
        BY <2>3, <2>6, <3>1, <3>2
      <4>2. p + i - 1 = p
        BY <1>4, <3>2
      <4> QED
        BY <2>4, <3>1, <4>1, <4>2
    <3>3. CASE i # 1
      <4>1. i - 1 \in 1 .. n - (p + 1) /\ ~(i <= Len(a)) /\ i - Len(a) = i - 1
        BY <1>1, <1>4, <2>3, <3>1, <3>3
      <4>2. (a \o t)[i] = t[i - 1]
        BY <2>6, <3>1, <4>1
      <4>3. t[i - 1] = PlaceOf(c, (p + 1) + (i - 1) - 1)
        BY <2>5, <4>1
      <4>4. (p + 1) + (i - 1) - 1 = p + i - 1
        BY <1>4, <3>1
      <4> QED
        BY <2>4, <3>1, <4>2, <4>3, <4>4
    <3> QED
      BY <3>2, <3>3
  <2>9. s = a \o t
    BY <2>4, <2>6, <2>7, <2>8, SeqEqual
  <2> QED
    BY <2>9 DEF a, s, t
<1> QED
  BY <1>3, <1>4, <1>5, <1>6 DEF I, n

\* A loop from begin() to end() comes to every byte, in order.
LEMMA WalkIs ==
  ASSUME NEW D, NEW c \in Seq(Seq(D)), Full(c), c # <<>>
  PROVE  Walk(c) = PlacesFrom(c, 0)
<1> DEFINE I == Iterators(c)
           n == Size(c)
           Is(f) == f = [i \in I |-> IF SameIterator(i, End(c)) THEN <<>>
                                     ELSE <<i>> \o f[Increment(c, i)]]
           from == CHOOSE f : Is(f)
<1>1. Walk(c) = from[Begin(c)]
  BY DEF Walk
<1>2. /\ n \in Nat /\ I = {PlaceOf(c, p) : p \in 0 .. n}
      /\ Begin(c) = PlaceOf(c, 0) /\ End(c) = PlaceOf(c, n)
  BY IteratorsAre
<1>3. \A p \in 0 .. n : /\ Offset(c, PlaceOf(c, p)) = p
                        /\ SameIterator(PlaceOf(c, p), End(c)) <=> p = n
  BY OffsetIs
<1>4. \A p \in 0 .. n : /\ p = n => PlacesFrom(c, p) = <<>>
                        /\ p < n => PlacesFrom(c, p) = <<PlaceOf(c, p)>> \o PlacesFrom(c, p + 1)
  BY PlacesFromIs
<1>5. \A p \in 0 .. n : p # n => /\ p < n /\ p + 1 \in 0 .. n
                                 /\ Increment(c, PlaceOf(c, p)) = PlaceOf(c, p + 1)
  <2> SUFFICES ASSUME NEW p \in 0 .. n, p # n
               PROVE  /\ p < n /\ p + 1 \in 0 .. n
                      /\ Increment(c, PlaceOf(c, p)) = PlaceOf(c, p + 1)
    OBVIOUS
  <2>1. p \in Nat /\ p < n /\ p + 1 \in 0 .. n
    BY <1>2
  <2> QED
    BY <2>1, IncrementIs
<1> HIDE DEF I, n
<1>6. \E f : Is(f)
  <2> DEFINE f == [i \in I |-> PlacesFrom(c, Offset(c, i))]
  <2>1. ASSUME NEW i \in I
        PROVE  f[i] = IF SameIterator(i, End(c)) THEN <<>> ELSE <<i>> \o f[Increment(c, i)]
    <3>1. PICK p \in 0 .. n : i = PlaceOf(c, p)
      BY <1>2
    <3>2. \A r \in 0 .. n : f[PlaceOf(c, r)] = PlacesFrom(c, r)
      <4>1. \A r \in 0 .. n : PlaceOf(c, r) \in I /\ Offset(c, PlaceOf(c, r)) = r
        BY <1>2, <1>3
      <4> QED
        BY <4>1
    <3> HIDE DEF f
    <3>3. CASE p = n
      BY <1>3, <1>4, <3>1, <3>2, <3>3
    <3>4. CASE p # n
      <4>1. p < n /\ p + 1 \in 0 .. n /\ Increment(c, i) = PlaceOf(c, p + 1)
        BY <1>5, <3>1, <3>4
      <4>2. ~SameIterator(i, End(c))
        BY <1>3, <3>1, <3>4
      <4>3. f[i] = PlacesFrom(c, p) /\ f[Increment(c, i)] = PlacesFrom(c, p + 1)
        BY <3>1, <3>2, <4>1
      <4>4. PlacesFrom(c, p) = <<i>> \o PlacesFrom(c, p + 1)
        BY <1>4, <3>1, <4>1
      <4> QED
        BY <4>2, <4>3, <4>4
    <3> QED
      BY <3>3, <3>4
  <2>2. f = [i \in I |-> IF SameIterator(i, End(c)) THEN <<>>
                         ELSE <<i>> \o f[Increment(c, i)]]
    <3>1. \A i \in I : PlacesFrom(c, Offset(c, i))
             = IF SameIterator(i, End(c)) THEN <<>> ELSE <<i>> \o f[Increment(c, i)]
      BY <2>1
    <3> QED
      BY <3>1, Zenon
  <2> HIDE DEF f
  <2> QED
    BY <2>2
<1>7. Is(from)
  BY <1>6, Zenon
<1> HIDE DEF from
<1> DEFINE S == {q \in 0 .. n : from[PlaceOf(c, n - q)] = PlacesFrom(c, n - q)}
<1>8. 0 \in S
  <2>1. n \in 0 .. n /\ n - 0 = n /\ 0 \in 0 .. n
    BY <1>2
  <2>2. PlaceOf(c, n) \in I /\ SameIterator(PlaceOf(c, n), End(c))
    BY <1>2, <1>3, <2>1
  <2>3. from[PlaceOf(c, n)] = <<>>
    BY <1>7, <2>2
  <2>4. PlacesFrom(c, n) = <<>>
    BY <1>4, <2>1
  <2> QED
    BY <2>1, <2>3, <2>4
<1>9. ASSUME NEW q \in 1 .. n, q - 1 \in S PROVE q \in S
  <2> DEFINE p == n - q
  <2>1. p \in 0 .. n /\ p # n /\ n - (q - 1) = p + 1 /\ q \in 0 .. n
    BY <1>2
  <2>2. from[PlaceOf(c, p + 1)] = PlacesFrom(c, p + 1)
    BY <1>9, <2>1
  <2> HIDE DEF p
  <2>3. PlaceOf(c, p) \in I /\ ~SameIterator(PlaceOf(c, p), End(c))
    BY <1>2, <1>3, <2>1
  <2>4. from[PlaceOf(c, p)] = <<PlaceOf(c, p)>> \o from[Increment(c, PlaceOf(c, p))]
    BY <1>7, <2>3
  <2>5. p < n /\ Increment(c, PlaceOf(c, p)) = PlaceOf(c, p + 1)
    BY <1>5, <2>1
  <2>6. from[PlaceOf(c, p)] = PlacesFrom(c, p)
    BY <1>4, <2>1, <2>2, <2>4, <2>5
  <2> QED
    BY <2>1, <2>6 DEF p
<1>10. n \in S
  <2>1. 0 .. n \subseteq S
    <3> HIDE DEF S
    <3> QED
      BY <1>2, <1>8, <1>9, Upwards
  <2>2. n \in 0 .. n
    BY <1>2
  <2> HIDE DEF S
  <2> QED
    BY <2>1, <2>2
<1>11. n - n = 0
  BY <1>2
<1> QED
  BY <1>1, <1>2, <1>10, <1>11


-----------------------------------------------------------------------------
(* What is cut out of a cat.                                               *)

\* The whole pieces between two places, with what is taken of the first.
Body(c, k, n, m) ==
  AddCat(AddMestring(<<>>, SubSeq(c[k], n + 1, Len(c[k]))), SubSeq(c, k + 1, m - 1))

\* With what is before, they are the text up to the second place.
LEMMA BodyIs ==
  ASSUME NEW D, NEW c \in Seq(Seq(D)), NEW k \in 1 .. Len(c), NEW n \in 0 .. Len(c[k]),
         NEW m \in k + 1 .. Len(c) + 1
  PROVE  /\ Body(c, k, n, m) \in Seq(Seq(D)) /\ Full(Body(c, k, n, m))
         /\ FlattenSeq(SubSeq(c, 1, m - 1))
              = (FlattenSeq(SubSeq(c, 1, k - 1)) \o SubSeq(c[k], 1, n))
                  \o FlattenSeq(Body(c, k, n, m))
<1> DEFINE E == Seq(D)
           a == FlattenSeq(SubSeq(c, 1, k - 1))
           x == c[k]
           s == SubSeq(x, 1, n)
           t == SubSeq(x, n + 1, Len(x))
           mid == SubSeq(c, k + 1, m - 1)
           head == AddMestring(<<>>, t)
           body == Body(c, k, n, m)
           b == FlattenSeq(mid)
<1>1. /\ a \in Seq(D) /\ x \in Seq(D) /\ FlattenSeq(SubSeq(c, 1, k)) = a \o x
  BY CutAt
<1>2. n \in 0 .. Len(x)
  OBVIOUS
<1>3. /\ mid \in Seq(E) /\ SubSeq(c, 1, k) \in Seq(E)
      /\ SubSeq(c, 1, m - 1) = SubSeq(c, 1, k) \o mid
  <2>1. c \in Seq(E) /\ Len(c) \in Nat
    OBVIOUS
  <2> HIDE DEF E
  <2>2. mid \in Seq(E) /\ SubSeq(c, 1, k) \in Seq(E)
    BY <2>1, PartIsSeq
  <2>3. 1 \in 1 .. Len(c) + 1 /\ k \in 1 - 1 .. Len(c) /\ m - 1 \in k .. Len(c)
    BY <2>1
  <2> QED
    BY <2>1, <2>2, <2>3, ConcatAdjacentSubSeq
<1>4. body = AddCat(head, mid)
  BY DEF Body
<1> HIDE DEF a, x, mid, body, b
<1>5. s \in Seq(D) /\ t \in Seq(D) /\ x = s \o t
  BY <1>1, <1>2, TwoParts
<1> HIDE DEF s, t
<1>6. head \in Seq(Seq(D)) /\ FlattenSeq(head) = t /\ Full(head)
  <2>1. <<>> \in Seq(Seq(D)) /\ <<>> \in Seq(D) /\ Full(<<>>)
    BY EmptySeq DEF Full
  <2>2. FlattenSeq(<<>>) = <<>> /\ <<>> \o t = t
    BY <1>5, <2>1, FlattenAppend, ConcatEmptySeq
  <2> QED
    BY <1>5, <2>1, <2>2, AddMestringIs
<1> HIDE DEF head
<1>7. body \in Seq(Seq(D)) /\ FlattenSeq(body) = t \o b /\ Full(body)
  BY <1>3, <1>4, <1>6, AddCatIs DEF Full, b
<1>8. b \in Seq(D)
  BY <1>3, FlattenIsSeq DEF b
<1>9. FlattenSeq(SubSeq(c, 1, m - 1)) = (a \o x) \o b
  BY <1>1, <1>3, FlattenConcat DEF b
<1>10. (a \o x) \o b = (a \o s) \o (t \o b)
  <2>1. Moved(a, s, t, b)
    BY <1>1, <1>5, <1>8, Between
  <2> QED
    BY <1>5, <2>1 DEF Moved
<1> QED
  BY <1>7, <1>9, <1>10 DEF a, s, x, body

\* substr() is what lies between the two iterators.
LEMMA SubstrIs ==
  ASSUME NEW D, NEW c \in Seq(Seq(D)), NEW q \in 0 .. Size(c), NEW p \in 0 .. q
  PROVE  /\ Substr(c, PlaceOf(c, p), PlaceOf(c, q)) \in Seq(Seq(D))
         /\ Full(Substr(c, PlaceOf(c, p), PlaceOf(c, q)))
         /\ FlattenSeq(Substr(c, PlaceOf(c, p), PlaceOf(c, q)))
              = SubSeq(FlattenSeq(c), p + 1, q)
<1> DEFINE f == FlattenSeq(c)
           r == Substr(c, PlaceOf(c, p), PlaceOf(c, q))
<1>1. f \in Seq(D) /\ Size(c) = Len(f) /\ Len(f) \in Nat
  BY FlattenIsSeq, SizeIs, LenProperties
<1>2. p \in Nat /\ q \in Nat /\ p <= q /\ q <= Size(c) /\ q \in 0 .. Len(f)
  BY <1>1
<1>3. /\ <<>> \in Seq(Seq(D)) /\ <<>> \in Seq(D) /\ Full(<<>>)
      /\ FlattenSeq(<<>>) = <<>>
  <2>1. <<>> \in Seq(Seq(D)) /\ <<>> \in Seq(D)
    BY EmptySeq
  <2>2. FlattenSeq(<<>>) = <<>>
    BY <2>1, FlattenAppend
  <2>3. Full(<<>>)
    BY DEF Full
  <2> QED
    BY <2>1, <2>2, <2>3
<1> SUFFICES r \in Seq(Seq(D)) /\ Full(r) /\ FlattenSeq(r) = SubSeq(f, p + 1, q)
  OBVIOUS
<1>4. CASE p = Size(c)
  <2>1. q = p
    BY <1>2, <1>4
  <2>2. r = <<>>
    BY <1>4, <2>1 DEF Substr, PlaceOf, End
  <2>3. SubSeq(f, p + 1, q) = <<>>
    BY <1>2, <2>1, SubSeqEmpty
  <2> QED
    BY <1>3, <2>2, <2>3
<1>5. CASE p # Size(c)
  <2> DEFINE i == PlaceOf(c, p)
             k == i.it
             n == i.iit
             a == FlattenSeq(SubSeq(c, 1, k - 1))
             x == c[k]
             u == a \o SubSeq(x, 1, n)
  <2>1. /\ k \in 1 .. Len(c) /\ n = p - Before(c, k) /\ n \in 0 .. Len(c[k]) - 1
        /\ i = [it |-> k, iit |-> n]
    BY <1>1, <1>2, <1>5, PlaceIs
  <2>2. /\ Before(c, k) \in Nat /\ Len(c[k]) \in Nat /\ Len(c) \in Nat
        /\ Before(c, k + 1) = Before(c, k) + Len(c[k])
    BY <2>1, BeforeFacts
  <2> HIDE DEF i, k, n
  <2>3. n \in 0 .. Len(c[k]) /\ n \in Nat /\ Before(c, k) + n = p /\ n # Null
    <3> DEFINE b == Before(c, k)
               l == Len(c[k])
    <3>1. b \in Nat /\ l \in Nat /\ n = p - b /\ n \in 0 .. l - 1 /\ p \in Nat
      BY <1>2, <2>1, <2>2
    <3> HIDE DEF b, l
    <3>2. n \in 0 .. l /\ n \in Nat /\ b + n = p /\ n # -1
      BY <3>1
    <3> QED
      BY <3>2 DEF b, l, Null
  <2>4. /\ a \in Seq(D) /\ SubSeq(x, 1, n) \in Seq(D) /\ Len(u) = p
    BY <2>1, <2>3, BeginningIs
  <2>5. u \in Seq(D) /\ x \in Seq(D)
    BY <2>1, <2>4, ConcatProperties
  <2>6. CASE q = Size(c)
    <3> DEFINE body == Body(c, k, n, Len(c) + 1)
    <3>1. r = body
      <4>1. PlaceOf(c, q) = [it |-> Len(c) + 1, iit |-> Null]
        BY <2>6 DEF PlaceOf, End
      <4>2. k # Len(c) + 1
        BY <2>1, <2>2
      <4> QED
        BY <2>1, <4>1, <4>2 DEF Substr, Body, i
    <3>2. Len(c) + 1 \in k + 1 .. Len(c) + 1 /\ (Len(c) + 1) - 1 = Len(c)
      BY <2>1, <2>2
    <3>3. /\ body \in Seq(Seq(D)) /\ Full(body)
          /\ FlattenSeq(SubSeq(c, 1, Len(c))) = u \o FlattenSeq(body)
      BY <2>1, <2>3, <3>2, BodyIs
    <3>4. SubSeq(c, 1, Len(c)) = c
      <4> DEFINE E == Seq(D)
      <4>1. c \in Seq(E)
        OBVIOUS
      <4> HIDE DEF E
      <4> QED
        BY <4>1, SubSeqFull
    <3>5. SubSeq(f, 1, q) = f
      BY <1>1, <2>6, SubSeqFull
    <3> HIDE DEF body, u
    <3>6. SubSeq(f, 1, q) = u \o FlattenSeq(body) /\ FlattenSeq(body) \in Seq(D)
      BY <3>3, <3>4, <3>5, FlattenIsSeq
    <3> HIDE DEF f
    <3>7. SubSeq(f, p + 1, q) = FlattenSeq(body)
      <4>1. Splits(f, q, u, FlattenSeq(body), p)
        BY <2>4, <3>6 DEF Splits
      <4> QED
        BY <1>1, <1>2, <2>5, <3>6, <4>1, RestOf
    <3> QED
      BY <3>1, <3>3, <3>7
  <2>7. CASE q # Size(c)
    <3> DEFINE j == PlaceOf(c, q)
               l == j.it
               w == j.iit
    <3>1. /\ l \in 1 .. Len(c) /\ w = q - Before(c, l) /\ w \in 0 .. Len(c[l]) - 1
          /\ j = [it |-> l, iit |-> w]
      BY <1>1, <1>2, <2>7, PlaceIs
    <3>2. /\ Before(c, l) \in Nat /\ Len(c[l]) \in Nat
          /\ Before(c, l + 1) = Before(c, l) + Len(c[l])
      BY <3>1, BeforeFacts
    <3> HIDE DEF j, l, w
    <3>3. w \in 0 .. Len(c[l]) /\ w \in Nat /\ Before(c, l) + w = q /\ w # Null
      <4> DEFINE b == Before(c, l)
                 m == Len(c[l])
      <4>1. b \in Nat /\ m \in Nat /\ w = q - b /\ w \in 0 .. m - 1 /\ q \in Nat
        BY <1>2, <3>1, <3>2
      <4> HIDE DEF b, m
      <4>2. w \in 0 .. m /\ w \in Nat /\ b + w = q /\ w # -1
        BY <4>1
      <4> QED
        BY <4>2 DEF b, m, Null
    <3>4. ~(l < k)
      <4>1. SUFFICES ASSUME l < k PROVE FALSE
        OBVIOUS
      <4>2. l + 1 \in 1 .. Len(c) + 1 /\ k \in l + 1 .. Len(c) + 1
        BY <2>1, <2>2, <3>1, <4>1
      <4>3. Before(c, l + 1) <= Before(c, k)
        BY <4>2, BeforeGrows
      <4> QED
        <5>1. w <= Len(c[l]) - 1
          BY <3>1, <3>2
        <5>2. q < Before(c, l + 1)
          BY <3>2, <3>3, <5>1
        <5> QED
          BY <1>2, <2>2, <2>3, <3>2, <4>3, <5>2
    <3>5. /\ FlattenSeq(SubSeq(c, 1, l - 1)) \o SubSeq(c[l], 1, w) = SubSeq(f, 1, q)
          /\ FlattenSeq(SubSeq(c, 1, l - 1)) \in Seq(D) /\ SubSeq(c[l], 1, w) \in Seq(D)
      BY <3>1, <3>3, BeginningIs
    <3>6. CASE k = l
      <4> DEFINE part == SubSeq(x, n + 1, w)
      <4>1. r = AddMestring(<<>>, part)
        BY <2>1, <2>3, <3>1, <3>6 DEF Substr, i, j
      <4>2. n <= w /\ w <= Len(x) /\ Len(x) \in Nat
        BY <1>2, <2>2, <2>3, <3>3, <3>6
      <4>3. SubSeq(x, 1, w) = SubSeq(x, 1, n) \o part /\ part \in Seq(D)
        <5>1. 1 \in 1 .. Len(x) + 1 /\ n \in 1 - 1 .. Len(x) /\ w \in n .. Len(x)
          BY <2>3, <3>3, <4>2
        <5> HIDE DEF x
        <5> QED
          <6>1. part \in Seq(D)
            <7>1. n + 1 \in Int /\ w \in Int /\ n + 1 >= 1
              BY <2>3, <3>3
            <7> QED
              BY <2>5, <4>2, <7>1, PartIsSeq
          <6>2. SubSeq(x, 1, w) = SubSeq(x, 1, n) \o SubSeq(x, n + 1, w)
            BY <2>5, <5>1, ConcatAdjacentSubSeq
          <6> QED
            BY <6>1, <6>2
      <4> HIDE DEF part
      <4>4. SubSeq(f, 1, q) = u \o part
        <5> DEFINE s == SubSeq(x, 1, n)
        <5>1. a \in Seq(D) /\ s \in Seq(D) /\ part \in Seq(D)
          BY <2>4, <4>3
        <5>2. SubSeq(f, 1, q) = a \o (s \o part)
          BY <3>5, <3>6, <4>3
        <5> HIDE DEF a, s
        <5>3. (a \o s) \o part = a \o (s \o part)
          BY <5>1, ConcatAssociative
        <5> QED
          BY <5>2, <5>3 DEF a, s
      <4> HIDE DEF u, f
      <4>5. SubSeq(f, p + 1, q) = part
        <5>1. Splits(f, q, u, part, p)
          BY <2>4, <4>4 DEF Splits
        <5> QED
          BY <1>1, <1>2, <2>5, <4>3, <5>1, RestOf
      <4>6. r \in Seq(Seq(D)) /\ FlattenSeq(r) = <<>> \o part /\ Full(r)
        BY <1>3, <4>1, <4>3, AddMestringIs
      <4> QED
        BY <4>3, <4>5, <4>6, ConcatEmptySeq
    <3>7. CASE k # l
      <4> DEFINE body == Body(c, k, n, l)
                 z == SubSeq(c[l], 1, w)
                 y == FlattenSeq(body)
      <4>1. r = AddMestring(body, z)
        <5>1. SubSeq(c[l], 0 + 1, w) = z
          OBVIOUS
        <5> QED
          BY <2>1, <2>3, <3>1, <3>3, <3>7, <5>1 DEF Substr, Body, i, j
      <4>2. l \in k + 1 .. Len(c) + 1
        BY <2>1, <2>2, <3>1, <3>4, <3>7
      <4>3. /\ body \in Seq(Seq(D)) /\ Full(body)
            /\ FlattenSeq(SubSeq(c, 1, l - 1)) = u \o y
        BY <2>1, <2>3, <4>2, BodyIs
      <4> HIDE DEF body
      <4>4. y \in Seq(D)
        BY <4>3, FlattenIsSeq
      <4> HIDE DEF u, f, z, y
      <4>5. SubSeq(f, 1, q) = (u \o y) \o z /\ z \in Seq(D)
        BY <3>5, <4>3 DEF z
      <4>6. (u \o y) \o z = u \o (y \o z) /\ y \o z \in Seq(D)
        <5>1. y \o z \in Seq(D)
          BY <4>4, <4>5, ConcatProperties
        <5>2. (u \o y) \o z = u \o (y \o z)
          <6>1. Associates(u, y, z)
            BY <2>5, <4>4, <4>5, AnyThree
          <6> QED
            BY <6>1 DEF Associates
        <5> QED
          BY <5>1, <5>2
      <4>7. SubSeq(f, p + 1, q) = y \o z
        <5> DEFINE v == y \o z
        <5>1. SubSeq(f, 1, q) = u \o v /\ v \in Seq(D)
          BY <4>5, <4>6
        <5> HIDE DEF v
        <5>2. SubSeq(f, p + 1, q) = v
          <6>1. Splits(f, q, u, v, p)
            BY <2>4, <5>1 DEF Splits
          <6> QED
            BY <1>1, <1>2, <2>5, <5>1, <6>1, RestOf
        <5> QED
          BY <5>2 DEF v
      <4>8. r \in Seq(Seq(D)) /\ FlattenSeq(r) = y \o z /\ Full(r)
        BY <4>1, <4>3, <4>5, AddMestringIs DEF y
      <4> QED
        BY <4>7, <4>8
    <3> QED
      BY <3>6, <3>7
  <2> QED
    BY <2>6, <2>7
<1> QED
  BY <1>4, <1>5


-----------------------------------------------------------------------------
(* Looking into a cat.                                                     *)

\* A byte of a piece is that byte of the text.
LEMMA ByteIs ==
  ASSUME NEW D, NEW c \in Seq(Seq(D)), NEW p \in Nat, p < Size(c)
  PROVE  /\ Star(c, PlaceOf(c, p)) = FlattenSeq(c)[p + 1]
         /\ At(c, p) = FlattenSeq(c)[p + 1]
<1> DEFINE i == PlaceOf(c, p)
           k == i.it
           n == i.iit
           x == c[k]
           f == FlattenSeq(c)
           a == FlattenSeq(SubSeq(c, 1, k - 1))
           s == SubSeq(x, 1, n + 1)
<1>1. /\ k \in 1 .. Len(c) /\ n = p - Before(c, k) /\ n \in 0 .. Len(c[k]) - 1
      /\ k = PieceAt(c, p + 1)
  BY PlaceIs
<1> HIDE DEF i, k, n
<1>2. Before(c, k) \in Nat /\ Len(x) \in Nat /\ Size(c) \in Nat
  BY <1>1, BeforeFacts
<1>3. /\ n \in Nat /\ n + 1 \in 0 .. Len(c[k]) /\ n + 1 \in 1 .. Len(x)
      /\ Before(c, k) + (n + 1) = p + 1 /\ p - Before(c, k) + 1 = n + 1
  <2> DEFINE b == Before(c, k)
             l == Len(c[k])
  <2>1. b \in Nat /\ l \in Nat /\ n = p - b /\ n \in 0 .. l - 1
    BY <1>1, <1>2
  <2> HIDE DEF b, l
  <2>2. n \in Nat /\ n + 1 \in 0 .. l /\ n + 1 \in 1 .. l /\ b + (n + 1) = p + 1
        /\ p - b + 1 = n + 1
    BY <2>1
  <2> QED
    BY <2>2 DEF b, l
<1>4. /\ a \o s = SubSeq(f, 1, p + 1) /\ a \in Seq(D) /\ s \in Seq(D) /\ Len(a \o s) = p + 1
  <2> DEFINE m == n + 1
             q == p + 1
             v == SubSeq(c[k], 1, m)
  <2>1. m \in 0 .. Len(c[k]) /\ Before(c, k) + m = q
    BY <1>3
  <2> HIDE DEF m
  <2>2. /\ a \o v = SubSeq(f, 1, Before(c, k) + m) /\ a \in Seq(D) /\ v \in Seq(D)
        /\ Len(a \o v) = Before(c, k) + m
    <3>1. k \in 1 .. Len(c) /\ m \in 0 .. Len(c[k])
      BY <1>1, <2>1
    <3> QED
      BY <3>1, BeginningIs, ZenonT(30)
  <2> QED
    BY <2>1, <2>2 DEF m
<1>5. f \in Seq(D) /\ Len(f) = Size(c) /\ x \in Seq(D)
  BY <1>1, FlattenIsSeq, SizeIs
<1> HIDE DEF a, f, x
<1>6. Len(s) = n + 1 /\ s[n + 1] = x[n + 1]
  BY <1>2, <1>3, <1>5
<1> HIDE DEF s
<1>7. (a \o s)[p + 1] = s[n + 1]
  <2>1. Len(a \o s) = Len(a) + Len(s) /\ Len(a) \in Nat
    BY <1>4, ConcatProperties, LenProperties
  <2>2. p + 1 \in 1 .. Len(a) + Len(s) /\ ~(p + 1 <= Len(a)) /\ (p + 1) - Len(a) = n + 1
    BY <1>3, <1>4, <1>6, <2>1
  <2> QED
    BY <1>4, <2>2, ConcatProperties
<1>8. SubSeq(f, 1, p + 1)[p + 1] = f[p + 1]
  BY <1>2, <1>5
<1>9. x[n + 1] = f[p + 1]
  BY <1>4, <1>6, <1>7, <1>8
<1>10. Star(c, i) = x[n + 1]
  BY DEF Star, k, n, x
<1>11. At(c, p) = x[n + 1]
  <2> DEFINE A == {j \in DOMAIN c : p < Before(c, j) + Len(c[j])}
             B == {j \in DOMAIN c : Before(c, j) + Len(c[j]) >= p + 1}
  <2>1. A = B
    <3>1. \A j \in DOMAIN c : Before(c, j) \in Nat /\ Len(c[j]) \in Nat
      BY BeforeFacts
    <3> QED
      BY <3>1
  <2>2. At(c, p) = c[Min(A)][p - Before(c, Min(A)) + 1]
    BY Zenon DEF At
  <2>3. Min(B) = k
    BY <1>1 DEF PieceAt
  <2> HIDE DEF A, B
  <2> QED
    BY <1>3, <2>1, <2>2, <2>3 DEF x
<1> QED
  BY <1>9, <1>10, <1>11 DEF i, f

\* The loop, by its steps.
LEMMA WalkAt ==
  ASSUME NEW D, NEW c \in Seq(Seq(D)), Full(c), c # <<>>
  PROVE  /\ Walk(c) \in Seq(Iterators(c)) /\ Len(Walk(c)) = Size(c)
         /\ DOMAIN Walk(c) = 1 .. Size(c)
         /\ \A k \in 1 .. Size(c) : Walk(c)[k] = PlaceOf(c, k - 1)
<1>1. Size(c) \in Nat
  BY BeforeFacts
<1>2. 0 \in 0 .. Size(c) /\ Size(c) - 0 = Size(c)
  BY <1>1
<1>3. Walk(c) = PlacesFrom(c, 0)
  BY WalkIs
<1>4. Walk(c) \in Seq(Iterators(c)) /\ Len(Walk(c)) = Size(c)
  BY <1>2, <1>3, PlacesFromIs
<1>5. DOMAIN Walk(c) = 1 .. Size(c)
  BY <1>4, LenProperties
<1>6. ASSUME NEW k \in 1 .. Size(c) PROVE Walk(c)[k] = PlaceOf(c, k - 1)
  <2>1. k \in 1 .. Size(c) - 0 /\ 0 + k - 1 = k - 1
    BY <1>1
  <2>2. PlacesFrom(c, 0)[k] = PlaceOf(c, 0 + k - 1)
    BY <2>1 DEF PlacesFrom
  <2> QED
    BY <1>3, <2>1, <2>2
<1> QED
  BY <1>4, <1>5, <1>6

\* Iterating a cat reads its text.
LEMMA BytesIs ==
  ASSUME NEW D, NEW c \in Seq(Seq(D)), Full(c), c # <<>>
  PROVE  Bytes(c) = FlattenSeq(c)
<1> DEFINE w == Walk(c)
           f == FlattenSeq(c)
<1>1. /\ Size(c) \in Nat /\ DOMAIN w = 1 .. Size(c)
      /\ \A k \in 1 .. Size(c) : w[k] = PlaceOf(c, k - 1)
  BY BeforeFacts, WalkAt
<1>2. f \in Seq(D) /\ Len(f) = Size(c)
  BY FlattenIsSeq, SizeIs
<1> HIDE DEF w, f
<1>3. ASSUME NEW k \in 1 .. Size(c) PROVE Star(c, w[k]) = f[k]
  <2>1. k - 1 \in Nat /\ k - 1 < Size(c) /\ (k - 1) + 1 = k
    BY <1>1
  <2>2. Star(c, PlaceOf(c, k - 1)) = f[(k - 1) + 1]
    BY <2>1, ByteIs DEF f
  <2> QED
    BY <1>1, <2>1, <2>2
<1>4. Bytes(c) = [k \in 1 .. Size(c) |-> Star(c, w[k])]
  BY <1>1 DEF Bytes, w
<1>5. f = [k \in 1 .. Size(c) |-> f[k]]
  BY <1>2
<1>6. [k \in 1 .. Size(c) |-> Star(c, w[k])] = [k \in 1 .. Size(c) |-> f[k]]
  BY <1>3
<1> QED
  BY <1>4, <1>5, <1>6 DEF f

\* find_it() stops where find_index() of the text says.
LEMMA FindItIs ==
  ASSUME NEW c \in Seq(Seq(Int)), Full(c), c # <<>>, NEW m \in Seq(Int)
  PROVE  /\ FindIndex(FlattenSeq(c), m) \in -1 .. Size(c)
         /\ FindIndex(FlattenSeq(c), m) = -1 => FindIt(c, m) = PlaceOf(c, Size(c))
         /\ FindIndex(FlattenSeq(c), m) # -1 =>
              FindIt(c, m) = PlaceOf(c, FindIndex(FlattenSeq(c), m))
         /\ m # <<>> /\ FindIndex(FlattenSeq(c), m) # -1 =>
              FindIndex(FlattenSeq(c), m) < Size(c)
<1> DEFINE f == FlattenSeq(c)
           h == FindIndex(f, m)
<1>1. f \in Seq(Int) /\ Len(f) = Size(c) /\ Size(c) \in Nat
  BY FlattenIsSeq, SizeIs, BeforeFacts
<1>2. Begin(c) = PlaceOf(c, 0) /\ End(c) = PlaceOf(c, Size(c))
  BY IteratorsAre
<1>3. Bytes(c) = f
  BY BytesIs
<1> HIDE DEF f
<1>4. h \in -1 .. Size(c) /\ (m # <<>> => h < Size(c) \/ f = <<>>)
  BY <1>1, FindIndexIn
<1>5. CASE m = <<>>
  <2>1. h = 0 /\ FindIt(c, m) = Begin(c)
    BY <1>5 DEF FindIndex, FindIt
  <2> QED
    BY <1>2, <1>4, <1>5, <2>1 DEF f
<1>6. CASE m # <<>>
  <2>1. FindIt(c, m) = IF h = -1 THEN End(c) ELSE Walk(c)[h + 1]
    BY <1>3, <1>6, Zenon DEF FindIt
  <2>2. h # -1 => h < Size(c)
    <3>1. f = <<>> => h = -1
      <4>1. SUFFICES ASSUME f = <<>> PROVE h = -1
        OBVIOUS
      <4>2. Len(f) = 0 /\ Hits(f, m) = {}
        BY <4>1, EmptySeq DEF Hits
      <4> QED
        BY <1>6, <4>2 DEF FindIndex
    <3> QED
      BY <1>4, <1>6, <3>1
  <2>3. h # -1 => Walk(c)[h + 1] = PlaceOf(c, h)
    <3>1. SUFFICES ASSUME h # -1 PROVE Walk(c)[h + 1] = PlaceOf(c, h)
      OBVIOUS
    <3> HIDE DEF h
    <3>2. h + 1 \in 1 .. Size(c) /\ (h + 1) - 1 = h
      BY <1>1, <1>4, <2>2, <3>1
    <3>3. Walk(c)[h + 1] = PlaceOf(c, (h + 1) - 1)
      BY <3>2, WalkAt
    <3> QED
      BY <3>2, <3>3
  <2> QED
    BY <1>2, <1>4, <1>6, <2>1, <2>2, <2>3 DEF f
<1> QED
  BY <1>5, <1>6

\* Going on once for each byte of a needle of one byte.
LEMMA IncrementOnce ==
  ASSUME NEW c, NEW i, NEW sep \in Seq(Int), Len(sep) = 1
  PROVE  FoldLeft(LAMBDA j, b : Increment(c, j), i, sep) = Increment(c, i)
<1> DEFINE Is(iter) == iter = [s \in SUBSET DOMAIN sep |->
                                 IF s = {} THEN i ELSE Increment(c, iter[s \ {Max(s)}])]
           it == CHOOSE iter : Is(iter)
           f == [s \in SUBSET DOMAIN sep |-> IF s = {} THEN i ELSE Increment(c, i)]
<1>1. FoldLeft(LAMBDA j, b : Increment(c, j), i, sep) = it[DOMAIN sep]
  BY DEF FoldLeft, MapThenFoldSet
<1>2. DOMAIN sep = 1 .. 1 /\ DOMAIN sep # {}
  OBVIOUS
<1>3. \A s \in SUBSET DOMAIN sep : s # {} => s = 1 .. 1
  BY <1>2
<1>4. (1 .. 1) \ {Max(1 .. 1)} = {}
  <2>1. 1 \in Nat /\ 1 > 0
    OBVIOUS
  <2>2. Max(1 .. 1) = 1
    BY <2>1, LargestOfInterval
  <2> QED
    BY <2>2
<1>5. \A s \in SUBSET DOMAIN sep : s # {} => s \ {Max(s)} = {}
  BY <1>3, <1>4
<1>6. Is(f)
  <2>1. f[{}] = i
    OBVIOUS
  <2> DEFINE g == [s \in SUBSET DOMAIN sep |->
                     IF s = {} THEN i ELSE Increment(c, f[s \ {Max(s)}])]
  <2>2. \A s \in SUBSET DOMAIN sep : f[s] = g[s]
    BY <1>5, <2>1
  <2>3. f = g
    BY <2>2
  <2> QED
    BY <2>3
<1> HIDE DEF f
<1>7. Is(it)
  BY <1>6, Zenon
<1> HIDE DEF it
<1>8. it[{}] = i
  BY <1>7
<1>9. it[DOMAIN sep] = Increment(c, it[DOMAIN sep \ {Max(DOMAIN sep)}])
  BY <1>2, <1>7
<1> QED
  BY <1>1, <1>2, <1>5, <1>8, <1>9

\* static_split_first<2>() at a separator of one byte with something behind it.
LEMMA SplitFirstIs ==
  ASSUME NEW c \in Seq(Seq(Int)), Full(c), c # <<>>, NEW sep \in Seq(Int), Len(sep) = 1,
         FindIndex(FlattenSeq(c), sep) # -1,
         FindIndex(FlattenSeq(c), sep) + 1 < Len(FlattenSeq(c)), NEW k \in {1, 2}
  PROVE  /\ SplitFirst(c, sep)[k] \in Seq(Seq(Int)) /\ Full(SplitFirst(c, sep)[k])
         /\ FlattenSeq(SplitFirst(c, sep)[k])
              = IF k = 1 THEN SubSeq(FlattenSeq(c), 1, FindIndex(FlattenSeq(c), sep))
                ELSE SubSeq(FlattenSeq(c), FindIndex(FlattenSeq(c), sep) + 2,
                            Len(FlattenSeq(c)))
<1> DEFINE f == FlattenSeq(c)
           h == FindIndex(f, sep)
<1>1. sep # <<>>
  <2>1. Len(<<>>) = 0 /\ 0 # 1
    OBVIOUS
  <2> QED
    BY <2>1, Zenon
<1>2. h \in Nat /\ h < Size(c) /\ FindIt(c, sep) = PlaceOf(c, h)
  BY <1>1, FindItIs
<1>3. Size(c) \in Nat /\ Size(c) = Len(f)
  BY BeforeFacts, SizeIs
<1>4. Begin(c) = PlaceOf(c, 0) /\ End(c) = PlaceOf(c, Size(c))
  BY IteratorsAre
<1> HIDE DEF h
<1>0. h + 1 < Size(c)
  BY <1>3 DEF h
<1>5. h \in 0 .. Size(c) /\ h # Size(c) /\ h + 1 \in 0 .. Size(c) /\ 0 \in 0 .. h /\ 0 + 1 = 1
      /\ Size(c) \in 0 .. Size(c) /\ (h + 1) + 1 = h + 2 /\ h + 1 \in 0 .. Size(c)
  BY <1>2, <1>3
<1>6. ~SameIterator(FindIt(c, sep), End(c))
  BY <1>2, <1>5, OffsetIs
<1>7. FoldLeft(LAMBDA j, b : Increment(c, j), FindIt(c, sep), sep) = PlaceOf(c, h + 1)
  <2>1. Increment(c, PlaceOf(c, h)) = PlaceOf(c, h + 1)
    BY <1>2, IncrementIs
  <2>2. FoldLeft(LAMBDA j, b : Increment(c, j), FindIt(c, sep), sep)
          = Increment(c, FindIt(c, sep))
    BY IncrementOnce
  <2> QED
    BY <1>2, <2>1, <2>2
<1> DEFINE second == Substr(c, PlaceOf(c, h + 1), PlaceOf(c, Size(c)))
<1>11. second # <<>>
  <2>1. FlattenSeq(second) = SubSeq(FlattenSeq(c), (h + 1) + 1, Size(c))
    BY <1>5, SubstrIs
  <2>2. FlattenSeq(c) \in Seq(Int) /\ Size(c) = Len(FlattenSeq(c))
    BY <1>3, FlattenIsSeq DEF f
  <2>3. (h + 1) + 1 \in 1 .. Size(c)
    BY <1>0, <1>2, <1>3
  <2>4. ASSUME NEW q \in Seq(Int), NEW m \in 1 .. Len(q)
        PROVE  SubSeq(q, m, Len(q)) # <<>>
    <3>1. m \in Int /\ Len(q) \in Nat /\ m <= Len(q)
      OBVIOUS
    <3>2. Len(SubSeq(q, m, Len(q))) = Len(q) - m + 1
      BY <3>1
    <3>3. Len(SubSeq(q, m, Len(q))) # 0
      BY <3>1, <3>2
    <3>4. Len(<<>>) = 0
      OBVIOUS
    <3> QED
      BY <3>3, <3>4, Zenon
  <2>5. FlattenSeq(second) # <<>>
    BY <2>1, <2>2, <2>3, <2>4, Zenon
  <2>6. FlattenSeq(<<>>) = <<>>
    <3>1. <<>> \in Seq(Seq(Int)) /\ <<>> \in Seq(Int)
      BY EmptySeq
    <3> QED
      BY <3>1, FlattenAppend
  <2> QED
    BY <2>5, <2>6
<1>8. SplitFirst(c, sep) = <<Substr(c, PlaceOf(c, 0), PlaceOf(c, h)), second>>
  BY <1>2, <1>4, <1>6, <1>7, <1>11, Zenon DEF SplitFirst
<1> HIDE DEF f
<1>9. CASE k = 1
  <2>1. SplitFirst(c, sep)[k] = Substr(c, PlaceOf(c, 0), PlaceOf(c, h))
    BY <1>8, <1>9
  <2> QED
    BY <1>5, <1>9, <2>1, SubstrIs DEF f, h
<1>10. CASE k = 2
  <2>1. SplitFirst(c, sep)[k] = Substr(c, PlaceOf(c, h + 1), PlaceOf(c, Size(c)))
    BY <1>8, <1>10 DEF second
  <2>2. /\ SplitFirst(c, sep)[k] \in Seq(Seq(Int)) /\ Full(SplitFirst(c, sep)[k])
        /\ FlattenSeq(SplitFirst(c, sep)[k]) = SubSeq(FlattenSeq(c), (h + 1) + 1, Size(c))
    BY <1>5, <2>1, SubstrIs
  <2>3. /\ SplitFirst(c, sep)[k] \in Seq(Seq(Int)) /\ Full(SplitFirst(c, sep)[k])
        /\ FlattenSeq(SplitFirst(c, sep)[k]) = SubSeq(FlattenSeq(c), h + 2, Len(FlattenSeq(c)))
    BY <1>3, <1>5, <2>2 DEF f
  <2>4. k # 1
    BY <1>10
  <2> QED
    BY <2>3, <2>4 DEF f, h
<1> QED
  BY <1>9, <1>10

\* lstrip() takes the blanks off that a text begins with.
LEMMA LStripIs ==
  ASSUME NEW D, NEW c \in Seq(Seq(D)), Full(c), c # <<>>,
         NEW k \in 1 .. Len(FlattenSeq(c)), FlattenSeq(c)[k] \notin Blank,
         \A j \in 1 .. k - 1 : FlattenSeq(c)[j] \in Blank
  PROVE  /\ LStrip(c) \in Seq(Seq(D)) /\ Full(LStrip(c))
         /\ FlattenSeq(LStrip(c)) = SubSeq(FlattenSeq(c), k, Len(FlattenSeq(c)))
<1> DEFINE f == FlattenSeq(c)
           w == Walk(c)
           H == {j \in DOMAIN w : Star(c, w[j]) \notin Blank}
<1>1. Size(c) \in Nat /\ Size(c) = Len(f) /\ End(c) = PlaceOf(c, Size(c))
  BY BeforeFacts, SizeIs, IteratorsAre
<1>2. DOMAIN w = 1 .. Size(c) /\ \A j \in 1 .. Size(c) : w[j] = PlaceOf(c, j - 1)
  BY WalkAt
<1> HIDE DEF w
<1>3. ASSUME NEW j \in 1 .. Size(c) PROVE Star(c, w[j]) = f[j]
  <2>1. j - 1 \in Nat /\ j - 1 < Size(c) /\ (j - 1) + 1 = j
    BY <1>1
  <2>2. Star(c, PlaceOf(c, j - 1)) = f[(j - 1) + 1]
    BY <2>1, ByteIs
  <2> QED
    BY <1>2, <2>1, <2>2
<1> HIDE DEF f
<1>4. k \in 1 .. Size(c) /\ f[k] \notin Blank /\ \A j \in 1 .. k - 1 : f[j] \in Blank
  BY <1>1 DEF f
<1>5. Min(H) = k
  <2>1. k \in H
    BY <1>2, <1>3, <1>4
  <2>2. \A j \in H : j \in 1 .. Size(c) /\ f[j] \notin Blank
    BY <1>2, <1>3
  <2>3. \A j \in H : k <= j
    <3>1. SUFFICES ASSUME NEW j \in H, ~(k <= j) PROVE FALSE
      OBVIOUS
    <3>2. j \in 1 .. Size(c) /\ f[j] \notin Blank
      BY <2>2
    <3>3. j \in 1 .. k - 1
      BY <1>1, <1>4, <3>1, <3>2
    <3> QED
      BY <1>4, <3>2, <3>3
  <2>4. H \in SUBSET Nat
    BY <1>1, <2>2
  <2> HIDE DEF H
  <2>5. Min(H) \in H /\ Min(H) <= k /\ k <= Min(H)
    BY <2>1, <2>3, <2>4, LeastIs
  <2>6. Min(H) \in Nat
    BY <2>4, <2>5
  <2> QED
    BY <1>1, <1>4, <2>5, <2>6
<1>6. LStrip(c) = Substr(c, PlaceOf(c, k - 1), PlaceOf(c, Size(c)))
  <2>1. LStrip(c) = Substr(c, w[Min(H)], End(c))
    BY Zenon DEF LStrip, w
  <2> HIDE DEF H
  <2> QED
    BY <1>1, <1>2, <1>4, <1>5, <2>1
<1>7. k - 1 \in 0 .. Size(c) /\ Size(c) \in 0 .. Size(c) /\ (k - 1) + 1 = k
  BY <1>1, <1>4
<1>8. /\ LStrip(c) \in Seq(Seq(D)) /\ Full(LStrip(c))
      /\ FlattenSeq(LStrip(c)) = SubSeq(FlattenSeq(c), (k - 1) + 1, Size(c))
  BY <1>6, <1>7, SubstrIs
<1> QED
  BY <1>1, <1>7, <1>8 DEF f

-----------------------------------------------------------------------------
(* The client.                                                             *)

\* What the client has: a cat without an empty piece that reads as its text.
Reads(c, t) == c \in Seq(Seq(Int)) /\ Full(c) /\ t \in Seq(Int) /\ FlattenSeq(c) = t

BInv == Reads(cat, text)

\* What the client appends and splits at.
LEMMA ClientTexts ==
  /\ \A p \in Pieces : p \in Seq(Int) /\ p \in Seq(Octets)
  /\ MaxLen \in Nat /\ Separator \in Seq(Int) /\ Len(Separator) = 1
<1>1. \A s \in Seq(0 .. 255) : s \in Seq(Int)
  <2>1. 0 .. 255 \subseteq Int
    OBVIOUS
  <2> QED
    BY <2>1, SeqMonotonic
<1> QED
  BY <1>1, BuilderAssumption DEF Octets

\* Each action keeps it.
LEMMA PieceReads ==
  ASSUME BInv, AppendPiece
  PROVE  BInv'
<1>1. PICK p \in Pieces : cat' = AddMestring(cat, p) /\ text' = text \o p
  BY DEF AppendPiece
<1>2. p \in Seq(Int) /\ cat \in Seq(Seq(Int)) /\ Full(cat) /\ text \in Seq(Int)
      /\ FlattenSeq(cat) = text
  BY ClientTexts DEF BInv, Reads
<1>3. /\ AddMestring(cat, p) \in Seq(Seq(Int)) /\ Full(AddMestring(cat, p))
      /\ FlattenSeq(AddMestring(cat, p)) = text \o p
  BY <1>2, AddMestringIs
<1>4. text \o p \in Seq(Int)
  BY <1>2
<1>5. Reads(AddMestring(cat, p), text \o p)
  BY <1>3, <1>4 DEF Reads
<1> QED
  BY <1>1, <1>5 DEF BInv

\* Two members, one after the other.
LEMMA PairOf ==
  ASSUME NEW E, NEW p \in E, NEW q \in E
  PROVE  <<p, q>> = <<p>> \o <<q>>
<1> DEFINE r == <<p>> \o <<q>>
           s == <<p, q>>
<1>1. <<p>> \in Seq(E) /\ <<q>> \in Seq(E) /\ s \in Seq(E)
  OBVIOUS
<1>2. r \in Seq(E) /\ Len(r) = 2 /\ r[1] = p /\ r[2] = q
  BY <1>1
<1>3. Len(s) = 2 /\ s[1] = p /\ s[2] = q
  OBVIOUS
<1> HIDE DEF r, s
<1>4. \A k \in 1 .. 2 : k = 1 \/ k = 2
  OBVIOUS
<1>5. \A k \in 1 .. Len(r) : r[k] = s[k]
  BY <1>2, <1>3, <1>4
<1>6. r = s
  BY <1>1, <1>2, <1>3, <1>5, SeqEqual
<1> QED
  BY <1>6 DEF r, s

\* A cat of two mestrings.
LEMMA TwoPieces ==
  ASSUME NEW p \in Seq(Int), NEW q \in Seq(Int)
  PROVE  <<p, q>> \in Seq(Seq(Int)) /\ FlattenSeq(<<p, q>>) = p \o q
<1> DEFINE E == Seq(Int)
<1>1. <<p, q>> = <<p>> \o <<q>> /\ <<p>> \in Seq(E) /\ <<q>> \in Seq(E) /\ <<p, q>> \in Seq(E)
  <2> HIDE DEF E
  <2>1. p \in E /\ q \in E
    BY DEF E
  <2>2. <<p>> \in Seq(E) /\ <<q>> \in Seq(E) /\ <<p, q>> \in Seq(E)
    BY <2>1
  <2>3. <<p, q>> = <<p>> \o <<q>>
    BY <2>1, PairOf
  <2> QED
    BY <2>2, <2>3
<1>2. FlattenSeq(<<p>> \o <<q>>) = FlattenSeq(<<p>>) \o FlattenSeq(<<q>>)
  BY <1>1, FlattenConcat
<1>3. FlattenSeq(<<p>>) = p /\ FlattenSeq(<<q>>) = q
  BY FlattenOne
<1> QED
  BY <1>1, <1>2, <1>3

LEMMA TextReads ==
  ASSUME BInv, AppendText
  PROVE  BInv'
<1>1. PICK p \in Pieces, q \in Pieces :
        cat' = AddCat(cat, <<p, q>>) /\ text' = text \o p \o q
  BY DEF AppendText
<1>2. p \in Seq(Int) /\ q \in Seq(Int) /\ cat \in Seq(Seq(Int)) /\ Full(cat)
      /\ text \in Seq(Int) /\ FlattenSeq(cat) = text
  BY ClientTexts DEF BInv, Reads
<1>3. <<p, q>> \in Seq(Seq(Int)) /\ FlattenSeq(<<p, q>>) = p \o q
  BY <1>2, TwoPieces
<1> DEFINE r == AddCat(cat, <<p, q>>)
<1>4. /\ r \in Seq(Seq(Int)) /\ FlattenSeq(r) = text \o (p \o q)
      /\ \A k \in DOMAIN r : r[k] # <<>>
  <2>1. \A k \in DOMAIN cat : cat[k] # <<>>
    BY <1>2 DEF Full
  <2> HIDE DEF r
  <2> QED
    BY <1>2, <1>3, <2>1, AddCatIs DEF r
<1>5. text \o (p \o q) = (text \o p) \o q /\ (text \o p) \o q \in Seq(Int)
  <2>1. Associates(text, p, q)
    BY <1>2, AnyThree
  <2>2. text \o p \in Seq(Int)
    BY <1>2
  <2>3. (text \o p) \o q \in Seq(Int)
    BY <1>2, <2>2
  <2> QED
    BY <2>1, <2>3 DEF Associates
<1>6. Reads(r, text \o p \o q)
  BY <1>4, <1>5 DEF Reads, Full
<1> QED
  BY <1>1, <1>6 DEF BInv

LEMMA TruncateReads ==
  ASSUME BInv, Truncate
  PROVE  BInv'
<1>1. PICK n \in -MaxLen .. MaxLen :
        /\ cat # <<>> /\ CanTruncate(cat, n) /\ cat' = Truncated(cat, n)
        /\ text' = SubSeq(text, 1, IF n < 0 THEN Len(text) + n ELSE n)
  BY DEF Truncate
<1>2. n \in Int /\ cat \in Seq(Seq(Int)) /\ Full(cat) /\ text \in Seq(Int)
      /\ FlattenSeq(cat) = text
  BY <1>1, ClientTexts DEF BInv, Reads
<1>3. Size(cat) = Len(text)
  BY <1>2, SizeIs
<1>4. TruncatedSize(cat, n) = (IF n < 0 THEN Len(text) + n ELSE n)
      /\ TruncatedSize(cat, n) \in 0 .. Len(text)
  BY <1>1, <1>3 DEF CanTruncate, TruncatedSize
<1>5. /\ cat' \in Seq(Seq(Int)) /\ Full(cat')
      /\ FlattenSeq(cat') = SubSeq(text, 1, TruncatedSize(cat, n))
  BY <1>1, <1>2, TruncatedIs
<1>6. text' = SubSeq(text, 1, TruncatedSize(cat, n))
  BY <1>1, <1>4
<1>7. text' \in Seq(Int)
  BY <1>2, <1>4, <1>6, PartIsSeq
<1> QED
  BY <1>5, <1>6, <1>7 DEF BInv, Reads

\* The places before which a part of a cat may begin or end.
LEMMA StopIs ==
  ASSUME NEW c \in Seq(Seq(Int)), Full(c), c # <<>>, NEW i \in 1 .. Size(c) + 1
  PROVE  (Walk(c) \o <<End(c)>>)[i] = PlaceOf(c, i - 1)
<1> DEFINE w == Walk(c)
           e == End(c)
<1>1. /\ Len(w) = Size(c) /\ Size(c) \in Nat /\ w \in Seq(Iterators(c))
      /\ \A k \in 1 .. Size(c) : w[k] = PlaceOf(c, k - 1)
  BY WalkAt, IteratorsAre
<1>2. e = PlaceOf(c, Size(c))
  BY IteratorsAre
<1> HIDE DEF w, e
<1>3. CASE i \in 1 .. Size(c)
  <2>1. (w \o <<e>>)[i] = w[i]
    BY <1>1, <1>3
  <2> QED
    BY <1>1, <1>3, <2>1 DEF w, e
<1>4. CASE i = Size(c) + 1
  <2>1. (w \o <<e>>)[i] = e /\ i - 1 = Size(c)
    BY <1>1, <1>4
  <2> QED
    BY <1>2, <2>1 DEF w, e
<1>5. i \in 1 .. Size(c) \/ i = Size(c) + 1
  BY <1>1
<1> QED
  BY <1>3, <1>4, <1>5

LEMMA SubstrReads ==
  ASSUME BInv, TakeSubstr
  PROVE  BInv'
<1>1. PICK i \in 1 .. Len(text), j \in 1 .. Len(text) + 1 :
        /\ cat # <<>> /\ i <= j
        /\ cat' = Substr(cat, (Walk(cat) \o <<End(cat)>>)[i], (Walk(cat) \o <<End(cat)>>)[j])
        /\ text' = SubSeq(text, i, j - 1)
  BY DEF TakeSubstr
<1>2. cat \in Seq(Seq(Int)) /\ Full(cat) /\ text \in Seq(Int) /\ FlattenSeq(cat) = text
  BY DEF BInv, Reads
<1>3. Size(cat) = Len(text) /\ Len(text) \in Nat
  BY <1>2, SizeIs
<1>4. i \in 1 .. Size(cat) + 1 /\ j \in 1 .. Size(cat) + 1
      /\ j - 1 \in 0 .. Size(cat) /\ i - 1 \in 0 .. j - 1 /\ (i - 1) + 1 = i
  BY <1>1, <1>3
<1>5. cat' = Substr(cat, PlaceOf(cat, i - 1), PlaceOf(cat, j - 1))
  BY <1>1, <1>2, <1>4, StopIs
<1>6. /\ cat' \in Seq(Seq(Int)) /\ Full(cat')
      /\ FlattenSeq(cat') = SubSeq(FlattenSeq(cat), (i - 1) + 1, j - 1)
  BY <1>2, <1>4, <1>5, SubstrIs
<1>7. text' \in Seq(Int)
  <2>1. i \in 1 .. Len(text) + 1 /\ j - 1 \in 0 .. Len(text)
    BY <1>3, <1>4
  <2> QED
    BY <1>1, <1>2, <2>1
<1>8. FlattenSeq(cat') = text'
  BY <1>1, <1>2, <1>4, <1>6
<1> QED
  BY <1>6, <1>7, <1>8 DEF BInv, Reads

LEMMA SplitReads ==
  ASSUME BInv, NEW k \in {1, 2}, TakeSplit(k)
  PROVE  BInv'
<1> DEFINE at == FindIndex(text, Separator)
<1>1. /\ cat # <<>> /\ at # -1 /\ at + 1 < Len(text)
      /\ cat' = SplitFirst(cat, Separator)[k]
      /\ text' = IF k = 1 THEN SubSeq(text, 1, at) ELSE SubSeq(text, at + 2, Len(text))
  BY DEF TakeSplit
<1>2. cat \in Seq(Seq(Int)) /\ Full(cat) /\ text \in Seq(Int) /\ FlattenSeq(cat) = text
  BY DEF BInv, Reads
<1>3. Separator \in Seq(Int) /\ Len(Separator) = 1
  BY ClientTexts
<1>4. /\ cat' \in Seq(Seq(Int)) /\ Full(cat')
      /\ FlattenSeq(cat') = IF k = 1 THEN SubSeq(text, 1, at)
                            ELSE SubSeq(text, at + 2, Len(text))
  BY <1>1, <1>2, <1>3, SplitFirstIs
<1>5. FlattenSeq(cat') = text'
  BY <1>1, <1>4
<1>6. FlattenSeq(cat') \in Seq(Int)
  BY <1>4, FlattenIsSeq
<1> QED
  BY <1>4, <1>5, <1>6 DEF BInv, Reads

LEMMA StripReads ==
  ASSUME BInv, Strip
  PROVE  BInv'
<1>1. PICK k \in DOMAIN text :
        /\ cat' = LStrip(cat) /\ text' = SubSeq(text, k, Len(text))
        /\ text[k] \notin Blank /\ \A j \in 1 .. k - 1 : text[j] \in Blank
  BY DEF Strip
<1>2. cat \in Seq(Seq(Int)) /\ Full(cat) /\ text \in Seq(Int) /\ FlattenSeq(cat) = text
      /\ k \in 1 .. Len(FlattenSeq(cat))
  BY <1>1 DEF BInv, Reads
<1>3. cat # <<>>
  <2>1. ASSUME cat = <<>> PROVE FALSE
    <3>1. Len(cat) + 1 = 1
      BY <2>1
    <3>2. Size(cat) = 0
      BY <1>2, <3>1, BeforeFacts
    <3> QED
      BY <1>2, <3>2, SizeIs
  <2> QED
    BY <2>1
<1>4. /\ cat' \in Seq(Seq(Int)) /\ Full(cat')
      /\ FlattenSeq(cat') = SubSeq(text, k, Len(text))
  BY <1>1, <1>2, <1>3, LStripIs
<1>5. FlattenSeq(cat') \in Seq(Int)
  BY <1>4, FlattenIsSeq
<1> QED
  BY <1>1, <1>4, <1>5 DEF BInv, Reads

LEMMA StepReads ==
  ASSUME BInv, [Next]_vars
  PROVE  BInv'
<1>1. CASE AppendPiece
  BY <1>1, PieceReads
<1>2. CASE AppendText
  BY <1>2, TextReads
<1>3. CASE Truncate
  BY <1>3, TruncateReads
<1>4. CASE TakeSubstr
  BY <1>4, SubstrReads
<1>5. CASE TakeSplit(1)
  <2>1. 1 \in {1, 2}
    OBVIOUS
  <2> QED
    BY <1>5, <2>1, SplitReads
<1>6. CASE TakeSplit(2)
  <2>1. 2 \in {1, 2}
    OBVIOUS
  <2> QED
    BY <1>6, <2>1, SplitReads
<1>7. CASE Strip
  BY <1>7, StripReads
<1>8. CASE UNCHANGED vars
  BY <1>8 DEF BInv, vars
<1> QED
  BY <1>1, <1>2, <1>3, <1>4, <1>5, <1>6, <1>7, <1>8 DEF Next

\* The invariant of the client.
LEMMA AlwaysReads == Spec => []BInv
<1>1. Init => BInv
  <2> SUFFICES ASSUME Init PROVE BInv
    OBVIOUS
  <2>1. cat = <<>> /\ text = <<>>
    BY DEF Init
  <2>2. <<>> \in Seq(Seq(Int)) /\ <<>> \in Seq(Int) /\ Full(<<>>)
    BY DEF Full
  <2>3. Len(FlattenSeq(<<>>)) = 0
    <3> DEFINE E == Seq(Int)
               c == <<>>
    <3>1. c \in Seq(Seq(Int)) /\ Len(c) + 1 = 1
      OBVIOUS
    <3> HIDE DEF c
    <3>2. Size(c) = 0 /\ Size(c) = Len(FlattenSeq(c))
      BY <3>1, BeforeFacts, SizeIs
    <3> QED
      BY <3>2 DEF c
  <2>4. FlattenSeq(<<>>) = <<>>
    <3>1. FlattenSeq(<<>>) \in Seq(Int)
      BY <2>2, FlattenIsSeq
    <3> QED
      BY <2>3, <3>1, EmptySeq
  <2> QED
    BY <2>1, <2>2, <2>4 DEF BInv, Reads
<1> QED
  BY <1>1, StepReads, PTL DEF Spec

(* However it was built, cut, split and stripped, from whatever pieces, a  *)
(* cat reads as the text its client meant and has no empty piece.          *)
THEOREM CatAlwaysReads == Spec => []CatIsText
<1>1. BInv => CatIsText
  BY DEF BInv, Reads, CatIsText, Full
<1> QED
  BY <1>1, AlwaysReads, PTL

\* What SearchIsExact says of a needle.
LEMMA SearchReads ==
  ASSUME BInv, cat # <<>>, NEW p \in Pieces
  PROVE  /\ Equals(cat, p) <=> text = p
         /\ IF FindIndex(text, p) = -1 THEN FindIt(cat, p) = End(cat)
            ELSE FlattenSeq(Substr(cat, Begin(cat), FindIt(cat, p)))
                   = SubSeq(text, 1, FindIndex(text, p))
<1> DEFINE h == FindIndex(text, p)
<1>1. cat \in Seq(Seq(Int)) /\ Full(cat) /\ text \in Seq(Int) /\ FlattenSeq(cat) = text
      /\ p \in Seq(Int)
  BY ClientTexts DEF BInv, Reads
<1>2. Size(cat) = Len(text) /\ Bytes(cat) = text
  BY <1>1, SizeIs, BytesIs
<1>3. Equals(cat, p) <=> text = p
  BY <1>2 DEF Equals
<1>4. Begin(cat) = PlaceOf(cat, 0) /\ End(cat) = PlaceOf(cat, Size(cat)) /\ Size(cat) \in Nat
  BY <1>1, IteratorsAre
<1>5. /\ h \in -1 .. Size(cat)
      /\ h = -1 => FindIt(cat, p) = PlaceOf(cat, Size(cat))
      /\ h # -1 => FindIt(cat, p) = PlaceOf(cat, h)
  BY <1>1, FindItIs
<1> HIDE DEF h
<1>6. ASSUME h # -1
      PROVE  FlattenSeq(Substr(cat, Begin(cat), FindIt(cat, p))) = SubSeq(text, 1, h)
  <2>1. h \in 0 .. Size(cat) /\ 0 \in 0 .. h /\ 0 + 1 = 1
    BY <1>4, <1>5, <1>6
  <2>2. FlattenSeq(Substr(cat, PlaceOf(cat, 0), PlaceOf(cat, h)))
          = SubSeq(FlattenSeq(cat), 0 + 1, h)
    BY <1>1, <2>1, SubstrIs
  <2> QED
    BY <1>1, <1>4, <1>5, <1>6, <2>1, <2>2
<1> QED
  BY <1>3, <1>4, <1>5, <1>6 DEF h

(* Looking into a cat, in every state the client reaches, gives what       *)
(* looking into its text gives: iterating, indexing, comparing, searching. *)
THEOREM SearchAlwaysExact == Spec => []SearchIsExact
<1>1. ASSUME BInv PROVE SearchIsExact
  <2> SUFFICES ASSUME cat # <<>>
               PROVE  /\ Bytes(cat) = text
                      /\ \A n \in 0 .. Len(text) - 1 : At(cat, n) = text[n + 1]
                      /\ Size(cat) = Len(text)
    BY <1>1, SearchReads DEF SearchIsExact
  <2>1. cat \in Seq(Seq(Int)) /\ Full(cat) /\ text \in Seq(Int) /\ FlattenSeq(cat) = text
    BY <1>1 DEF BInv, Reads
  <2>2. Size(cat) = Len(text) /\ Bytes(cat) = text
    BY <2>1, SizeIs, BytesIs
  <2>3. ASSUME NEW n \in 0 .. Len(text) - 1 PROVE At(cat, n) = text[n + 1]
    <3>1. n \in Nat /\ n < Size(cat)
      BY <2>1, <2>2
    <3> QED
      BY <2>1, <3>1, ByteIs
  <2> QED
    BY <2>2, <2>3
<1>2. BInv => SearchIsExact
  BY <1>1
<1> QED
  BY <1>2, AlwaysReads, PTL

-----------------------------------------------------------------------------
(* Combining in any order.                                                 *)

\* What the members at some places combine to, whichever comes last.
OverSets(W, op, base, n, h) ==
  {F \in [SUBSET (1 .. n) -> W] :
     /\ F[{}] = base
     /\ \A T \in SUBSET (1 .. n) : \A x \in T : F[T] = op[F[T \ {x}]][h[x]]}

\* An operation in which neighbours may change places defines it.
LEMMA AnyOrder ==
  ASSUME NEW W, NEW op \in [W -> [W -> W]], NEW base \in W, NEW n \in Nat,
         NEW h \in [1 .. n -> W],
         \A r, a, b \in W : op[op[r][a]][b] = op[op[r][b]][a]
  PROVE  OverSets(W, op, base, n, h) # {}
<1> DEFINE G == [i \in 1 .. n |-> [x \in W |-> op[x][h[i]]]]
<1>1. G \in [1 .. n -> [W -> W]] /\ \A i \in 1 .. n : \A x \in W : G[i][x] = op[x][h[i]]
  OBVIOUS
<1> HIDE DEF G
<1>2. PICK F \in [SUBSET (1 .. n) -> W] :
        \A s \in SUBSET (1 .. n) :
          F[s] = IF s = {} THEN base ELSE G[Max(s)][F[s \ {Max(s)}]]
  <2>1. Iterations(W, base, n, G) # {}
    BY <1>1, Iterates
  <2> QED
    BY <2>1, Zenon DEF Iterations
<1>3. F[{}] = base
  BY <1>2
<1>4. ASSUME NEW T \in SUBSET (1 .. n), T # {}
      PROVE  /\ Max(T) \in 1 .. n /\ F[T \ {Max(T)}] \in W
             /\ F[T] = op[F[T \ {Max(T)}]][h[Max(T)]]
  <2>1. Max(T) \in 1 .. n /\ T \ {Max(T)} \in SUBSET (1 .. n)
    BY <1>4, LargestMember
  <2>2. F[T \ {Max(T)}] \in W
    BY <2>1
  <2>3. F[T] = G[Max(T)][F[T \ {Max(T)}]]
    BY <1>2, <1>4
  <2> QED
    BY <1>1, <2>1, <2>2, <2>3
<1> DEFINE S == {k \in 0 .. n : \A T \in SUBSET (1 .. k) : \A x \in T :
                                  F[T] = op[F[T \ {x}]][h[x]]}
<1>5. 0 \in S
  <2>1. \A T \in SUBSET (1 .. 0) : T = {}
    OBVIOUS
  <2> QED
    BY <2>1
<1>6. ASSUME NEW k \in 1 .. n, k - 1 \in S PROVE k \in S
  <2>1. k \in Nat /\ k > 0 /\ k <= n /\ k \in 0 .. n /\ 1 .. k \subseteq 1 .. n
    OBVIOUS
  <2>2. SUFFICES ASSUME NEW T \in SUBSET (1 .. k), NEW x \in T
                 PROVE  F[T] = op[F[T \ {x}]][h[x]]
    BY <2>1
  <2>3. CASE k \notin T
    <3>1. ASSUME NEW y \in T PROVE y \in 1 .. k - 1
      <4>1. y \in 1 .. k /\ y # k
        BY <2>3
      <4> QED
        BY <4>1
    <3>2. T \in SUBSET (1 .. k - 1)
      BY <3>1
    <3> QED
      BY <1>6, <3>2
  <2>4. CASE k \in T
    <3> DEFINE U == T \ {k}
               V == U \ {x}
    <3>1. ASSUME NEW R \in SUBSET (1 .. k), k \in R
          PROVE  R \in SUBSET (1 .. n) /\ F[R] = op[F[R \ {k}]][h[k]]
      <4>1. Max(R) = k
        <5>1. PICK m \in Nat : k = m + 1
          BY <2>1
        <5> QED
          BY <3>1, <5>1, LargestIndex
      <4> QED
        BY <1>4, <2>1, <3>1, <4>1
    <3>2. CASE x = k
      BY <2>4, <3>1, <3>2
    <3>3. CASE x # k
      <4>1. /\ U \in SUBSET (1 .. k - 1) /\ x \in U
            /\ T \ {x} \in SUBSET (1 .. k) /\ k \in T \ {x} /\ (T \ {x}) \ {k} = V
            /\ V \in SUBSET (1 .. n)
        <5>1. ASSUME NEW y \in U PROVE y \in 1 .. k - 1
          <6>1. y \in 1 .. k /\ y # k
            OBVIOUS
          <6> QED
            BY <6>1
        <5>2. U \in SUBSET (1 .. k - 1)
          BY <5>1
        <5>3. /\ x \in U /\ T \ {x} \in SUBSET (1 .. k) /\ k \in T \ {x}
              /\ (T \ {x}) \ {k} = V
          BY <2>4, <3>3
        <5>4. V \subseteq 1 .. k
          OBVIOUS
        <5>5. V \in SUBSET (1 .. n)
          BY <2>1, <5>4, Zenon
        <5> QED
          BY <5>2, <5>3, <5>5
      <4>2. F[T] = op[F[U]][h[k]]
        BY <2>4, <3>1
      <4>3. F[U] = op[F[V]][h[x]]
        BY <1>6, <4>1
      <4>4. F[T \ {x}] = op[F[V]][h[k]]
        BY <3>1, <4>1
      <4>5. F[V] \in W /\ h[x] \in W /\ h[k] \in W
        BY <2>1, <4>1
      <4>6. op[op[F[V]][h[x]]][h[k]] = op[op[F[V]][h[k]]][h[x]]
        BY <4>5, ZenonT(30)
      <4> QED
        BY <4>2, <4>3, <4>4, <4>6, Zenon
    <3> QED
      BY <3>2, <3>3
  <2> QED
    BY <2>3, <2>4
<1>7. n \in S
  <2>1. 0 .. n \subseteq S
    <3> HIDE DEF S
    <3> QED
      BY <1>5, <1>6, Upwards
  <2>2. n \in 0 .. n
    OBVIOUS
  <2> QED
    BY <2>1, <2>2, Zenon
<1>8. \A T \in SUBSET (1 .. n) : \A x \in T : F[T] = op[F[T \ {x}]][h[x]]
  BY <1>7
<1>9. F \in OverSets(W, op, base, n, h)
  BY <1>2, <1>3, <1>8, Zenon DEF OverSets
<1> QED
  BY <1>9

\* The values a loop in some order goes through.
InOrder(op, base, n, h, order, v) ==
  v[0] = base /\ \A k \in 1 .. n : v[k] = op[v[k - 1]][h[order[k]]]

\* A loop in any order comes to what all of them combine to.
LEMMA LoopInOrder ==
  ASSUME NEW W, NEW op, NEW base, NEW n \in Nat, NEW h,
         NEW F \in OverSets(W, op, base, n, h),
         NEW order \in Bijection(1 .. n, 1 .. n), NEW v, InOrder(op, base, n, h, order, v)
  PROVE  v[n] = F[1 .. n]
<1> DEFINE Im(k) == {order[j] : j \in 1 .. k}
           S == {k \in 0 .. n : v[k] = F[Im(k)]}
<1>1. /\ order \in [1 .. n -> 1 .. n]
      /\ \A a, b \in 1 .. n : order[a] = order[b] => a = b
      /\ \A y \in 1 .. n : \E x \in 1 .. n : order[x] = y
  BY DEF Bijection, Injection, Surjection, IsInjective
<1>2. 0 \in S
  <2>1. Im(0) = {}
    <3>1. 1 .. 0 = {}
      OBVIOUS
    <3> QED
      BY <3>1
  <2>2. F[{}] = base /\ 0 \in 0 .. n /\ v[0] = base
    BY DEF OverSets, InOrder
  <2> HIDE DEF Im
  <2>3. v[0] = F[Im(0)]
    BY <2>1, <2>2
  <2> QED
    BY <2>2, <2>3
<1>3. ASSUME NEW k \in 1 .. n, k - 1 \in S PROVE k \in S
  <2>1. /\ Im(k) \in SUBSET (1 .. n) /\ order[k] \in Im(k)
        /\ Im(k) \ {order[k]} = Im(k - 1)
    <3>1. /\ 1 .. k \subseteq 1 .. n /\ 1 .. k - 1 \subseteq 1 .. n /\ k \in 1 .. k
          /\ \A j \in 1 .. k : j = k \/ j \in 1 .. k - 1
          /\ \A j \in 1 .. k - 1 : j \in 1 .. k /\ j # k
      OBVIOUS
    <3>2. Im(k) \in SUBSET (1 .. n)
      BY <1>1, <3>1
    <3>3. order[k] \in Im(k)
      BY <3>1
    <3>4. order[k] \notin Im(k - 1)
      BY <1>1, <3>1
    <3>5. Im(k - 1) \subseteq Im(k)
      BY <3>1
    <3>6. Im(k) \subseteq Im(k - 1) \cup {order[k]}
      BY <3>1
    <3> HIDE DEF Im
    <3> QED
      BY <3>2, <3>3, <3>4, <3>5, <3>6, Zenon
  <2>2. v[k - 1] = F[Im(k - 1)] /\ k \in 0 .. n
    BY <1>3
  <2> HIDE DEF Im
  <2>3. F[Im(k)] = op[F[Im(k) \ {order[k]}]][h[order[k]]]
    BY <2>1 DEF OverSets
  <2>4. v[k] = op[v[k - 1]][h[order[k]]]
    BY DEF InOrder
  <2> QED
    BY <2>1, <2>2, <2>3, <2>4
<1>4. n \in S
  <2>1. 0 .. n \subseteq S
    <3> HIDE DEF S
    <3> QED
      BY <1>2, <1>3, Upwards
  <2> QED
    BY <2>1
<1>5. Im(n) = 1 .. n
  BY <1>1
<1> QED
  BY <1>4, <1>5

\* Two words, and combining them with two others.
Pairs == [1 .. 2 -> Words]
Combining == [r \in Pairs |-> [g \in Pairs |-> UnorderedCombineWith(r, g)]]

LEMMA CombiningIs ==
  /\ Combining \in [Pairs -> [Pairs -> Pairs]] /\ <<0, 0>> \in Pairs
  /\ \A r, g \in Pairs : Combining[r][g] = UnorderedCombineWith(r, g)
  /\ \A r, g, h \in Pairs : Combining[Combining[r][g]][h] = Combining[Combining[r][h]][g]
<1>1. \A a, b \in Words : CombineWord(a, b) \in Words
  BY CombineWordIs
<1>2. \A r, g \in Pairs : UnorderedCombineWith(r, g) \in Pairs
  BY <1>1 DEF Pairs, UnorderedCombineWith
<1>3. \A r, g \in Pairs : Combining[r][g] = UnorderedCombineWith(r, g)
  BY DEF Combining
<1>4. Combining \in [Pairs -> [Pairs -> Pairs]]
  BY <1>2 DEF Combining
<1>5. <<0, 0>> \in Pairs
  BY WordAssumption DEF Pairs, Words
<1>6. ASSUME NEW r \in Pairs, NEW g \in Pairs, NEW h \in Pairs
      PROVE  Combining[Combining[r][g]][h] = Combining[Combining[r][h]][g]
  <2>1. \A i \in 1 .. 2 : r[i] \in Words /\ g[i] \in Words /\ h[i] \in Words
    BY DEF Pairs
  <2>2. \A i \in 1 .. 2 : CombineWord(CombineWord(r[i], g[i]), h[i])
                            = CombineWord(CombineWord(r[i], h[i]), g[i])
    BY <2>1, CombineIsUnordered
  <2>3. UnorderedCombineWith(UnorderedCombineWith(r, g), h)
          = UnorderedCombineWith(UnorderedCombineWith(r, h), g)
    BY <2>2 DEF UnorderedCombineWith
  <2> QED
    BY <1>2, <1>3, <2>3
<1> QED
  BY <1>3, <1>4, <1>5, <1>6

\* unordered_combine goes through the combinations of the first hashes.
LEMMA CombineTrace ==
  ASSUME NEW n \in Nat, NEW h \in [1 .. n -> Pairs]
  PROVE  \E v : /\ v[0] = <<0, 0>>
                /\ \A k \in 1 .. n : v[k - 1] \in Pairs /\ v[k] = Combining[v[k - 1]][h[k]]
                /\ UnorderedCombine(h) = v[n]
<1> DEFINE Is(iter) == iter = [s \in SUBSET DOMAIN h |->
                                 IF s = {} THEN <<0, 0>>
                                 ELSE UnorderedCombineWith(iter[s \ {Max(s)}], h[Max(s)])]
           it == CHOOSE iter : Is(iter)
           G == [i \in 1 .. n |-> [x \in Pairs |-> UnorderedCombineWith(x, h[i])]]
<1>1. DOMAIN h = 1 .. n /\ <<0, 0>> \in Pairs /\ \A i \in 1 .. n : h[i] \in Pairs
  BY CombiningIs
<1>2. \A i \in 1 .. n, x \in Pairs : UnorderedCombineWith(x, h[i]) \in Pairs
  <2>1. \A r, g \in Pairs : UnorderedCombineWith(r, g) \in Pairs
    BY CombiningIs
  <2> QED
    BY <1>1, <2>1
<1>3. UnorderedCombine(h) = it[DOMAIN h]
  BY DEF UnorderedCombine, FoldLeft, MapThenFoldSet
<1>4. /\ G \in [1 .. n -> [Pairs -> Pairs]]
      /\ \A i \in 1 .. n : \A x \in Pairs : G[i][x] = UnorderedCombineWith(x, h[i])
  BY <1>2
<1> HIDE DEF G
<1>5. \A s \in SUBSET (1 .. n) : s # {} => Max(s) \in 1 .. n /\ s \ {Max(s)} \in SUBSET (1 .. n)
  BY LargestMember
<1>6. PICK fold \in [SUBSET (1 .. n) -> Pairs] :
        \A s \in SUBSET (1 .. n) :
          fold[s] = IF s = {} THEN <<0, 0>> ELSE G[Max(s)][fold[s \ {Max(s)}]]
  <2>1. Iterations(Pairs, <<0, 0>>, n, G) # {}
    BY <1>1, <1>4, Iterates
  <2> QED
    BY <2>1, Zenon DEF Iterations
<1>7. Is(fold)
  <2>1. \A s \in SUBSET (1 .. n) :
          fold[s] = IF s = {} THEN <<0, 0>>
                    ELSE UnorderedCombineWith(fold[s \ {Max(s)}], h[Max(s)])
    BY <1>4, <1>5, <1>6
  <2>2. fold = [s \in SUBSET (1 .. n) |->
                  IF s = {} THEN <<0, 0>>
                  ELSE UnorderedCombineWith(fold[s \ {Max(s)}], h[Max(s)])]
    BY <1>6, <2>1
  <2> QED
    BY <1>1, <2>2
<1>8. it = [s \in SUBSET (1 .. n) |->
              IF s = {} THEN <<0, 0>>
              ELSE UnorderedCombineWith(it[s \ {Max(s)}], h[Max(s)])]
  BY <1>1, <1>7, Zenon
<1> HIDE DEF it
<1>9. PICK v \in [0 .. n -> Pairs] :
        /\ v[0] = <<0, 0>> /\ it[1 .. n] = v[n]
        /\ \A k \in 1 .. n : v[k] = G[k][v[k - 1]]
  <2>1. Recurs(it, Pairs, <<0, 0>>, n, G)
    <3>1. ASSUME NEW s \in SUBSET (1 .. n)
          PROVE  it[s] = IF s = {} THEN <<0, 0>>
                         ELSE UnorderedCombineWith(it[s \ {Max(s)}], h[Max(s)])
      BY <1>8
    <3>2. ASSUME NEW s \in SUBSET (1 .. n), s # {}, it[s \ {Max(s)}] \in Pairs
          PROVE  it[s] = G[Max(s)][it[s \ {Max(s)}]]
      BY <1>4, <1>5, <3>1, <3>2
    <3> QED
      BY <3>1, <3>2 DEF Recurs
  <2>2. GoesThrough(it, Pairs, <<0, 0>>, n, G) # {}
    BY <1>1, <1>4, <2>1, FoldGoes
  <2> QED
    BY <2>2 DEF GoesThrough
<1>10. \A k \in 1 .. n : v[k - 1] \in Pairs /\ v[k] = Combining[v[k - 1]][h[k]]
  <2>1. \A k \in 1 .. n : v[k - 1] \in Pairs
    <3>1. \A k \in 1 .. n : k - 1 \in 0 .. n
      OBVIOUS
    <3> QED
      BY <1>9, <3>1
  <2>2. ASSUME NEW k \in 1 .. n PROVE v[k] = Combining[v[k - 1]][h[k]]
    <3>1. v[k - 1] \in Pairs /\ h[k] \in Pairs
      BY <1>1, <2>1
    <3>2. v[k] = UnorderedCombineWith(v[k - 1], h[k])
      BY <1>4, <1>9, <3>1
    <3> QED
      BY <3>1, <3>2, CombiningIs
  <2> QED
    BY <2>1, <2>2
<1> QED
  BY <1>1, <1>3, <1>9, <1>10

\* What is combined does not depend on the order, and no hash is lost in it.
LEMMA CombineAnyOrder ==
  ASSUME NEW n \in Nat, NEW h \in [1 .. n -> Pairs]
  PROVE  /\ \A order \in Bijection(1 .. n, 1 .. n) :
              UnorderedCombine([k \in 1 .. n |-> h[order[k]]]) = UnorderedCombine(h)
         /\ \A i \in 1 .. 2 : UnorderedCombine(h)[i] = 0 <=> \A k \in 1 .. n : h[k][i] = 0
<1>1. PICK F : F \in OverSets(Pairs, Combining, <<0, 0>>, n, h)
  <2>1. OverSets(Pairs, Combining, <<0, 0>>, n, h) # {}
    BY CombiningIs, AnyOrder
  <2> QED
    BY <2>1
<1>2. ASSUME NEW order \in Bijection(1 .. n, 1 .. n)
      PROVE  UnorderedCombine([k \in 1 .. n |-> h[order[k]]]) = F[1 .. n]
  <2> DEFINE g == [k \in 1 .. n |-> h[order[k]]]
  <2>1. g \in [1 .. n -> Pairs]
    BY DEF Bijection, Injection
  <2>2. PICK v : /\ v[0] = <<0, 0>>
                 /\ \A k \in 1 .. n : v[k - 1] \in Pairs /\ v[k] = Combining[v[k - 1]][g[k]]
                 /\ UnorderedCombine(g) = v[n]
    <3> HIDE DEF g
    <3> QED
      BY <2>1, CombineTrace
  <2>3. \A k \in 1 .. n : v[k] = Combining[v[k - 1]][h[order[k]]]
    BY <2>2
  <2>4. v[n] = F[1 .. n]
    <3>1. InOrder(Combining, <<0, 0>>, n, h, order, v)
      BY <2>2, <2>3 DEF InOrder
    <3> QED
      BY <1>1, <3>1, LoopInOrder
  <2> QED
    BY <2>2, <2>4
<1>3. UnorderedCombine(h) = F[1 .. n]
  <2> DEFINE same == [k \in 1 .. n |-> k]
  <2>1. same \in Bijection(1 .. n, 1 .. n)
    BY DEF Bijection, Injection, Surjection, IsInjective
  <2>2. [k \in 1 .. n |-> h[same[k]]] = h
    OBVIOUS
  <2> HIDE DEF same
  <2>3. UnorderedCombine([k \in 1 .. n |-> h[same[k]]]) = F[1 .. n]
    BY <1>2, <2>1
  <2> QED
    BY <2>2, <2>3
<1>4. ASSUME NEW i \in 1 .. 2
      PROVE  UnorderedCombine(h)[i] = 0 <=> \A k \in 1 .. n : h[k][i] = 0
  <2>1. PICK v : /\ v[0] = <<0, 0>>
                 /\ \A k \in 1 .. n : v[k - 1] \in Pairs /\ v[k] = Combining[v[k - 1]][h[k]]
                 /\ UnorderedCombine(h) = v[n]
    BY CombineTrace
  <2> DEFINE S == {k \in 0 .. n : v[k][i] = 0 <=> \A j \in 1 .. k : h[j][i] = 0}
  <2>2. 0 \in S
    <3>1. <<0, 0>>[i] = 0 /\ 1 .. 0 = {}
      OBVIOUS
    <3> QED
      BY <2>1, <3>1
  <2>3. ASSUME NEW k \in 1 .. n, k - 1 \in S PROVE k \in S
    <3> DEFINE a == v[k - 1][i]
               b == h[k][i]
    <3>1. a \in Words /\ b \in Words
      BY <2>1 DEF Pairs
    <3>2. v[k][i] = CombineWord(a, b)
      <4>1. v[k] = UnorderedCombineWith(v[k - 1], h[k])
        <5>1. v[k - 1] \in Pairs /\ h[k] \in Pairs /\ v[k] = Combining[v[k - 1]][h[k]]
          BY <2>1
        <5> QED
          BY <5>1, CombiningIs
      <4> QED
        BY <4>1 DEF UnorderedCombineWith
    <3> HIDE DEF a, b
    <3>3. CombineWord(a, b) = 0 <=> (a = 0 /\ b = 0)
      <4>1. 0 \in Words
        BY WordAssumption DEF Words
      <4> QED
        BY <3>1, <4>1, CombineIsUnordered
    <3>4. a = 0 <=> \A j \in 1 .. k - 1 : h[j][i] = 0
      BY <2>3 DEF a
    <3>5. /\ k \in 0 .. n /\ k \in 1 .. k /\ 1 .. k - 1 \subseteq 1 .. k
          /\ \A j \in 1 .. k : j = k \/ j \in 1 .. k - 1
      OBVIOUS
    <3> QED
      BY <3>2, <3>3, <3>4, <3>5 DEF b
  <2>4. n \in S
    <3>1. 0 .. n \subseteq S
      <4> HIDE DEF S
      <4> QED
        BY <2>2, <2>3, Upwards
    <3> QED
      BY <3>1
  <2> QED
    BY <2>1, <2>4
<1> QED
  BY <1>2, <1>3, <1>4

(* Whatever text is hashed, and however long a word is, the hashes of its  *)
(* bytes combine to the same in any order, and to zero only if all are.    *)
THEOREM CombinesAlwaysUnordered == Spec => []CombinesUnordered
<1>1. ASSUME BInv PROVE CombinesUnordered
  <2> DEFINE n == Len(text)
             h == [k \in DOMAIN text |-> <<text[k] % Word, (text[k] \div 3) % Word>>]
  <2>1. n \in Nat /\ DOMAIN text = 1 .. n /\ \A k \in 1 .. n : text[k] \in Int
    BY <1>1 DEF BInv, Reads
  <2>2. h \in [1 .. n -> Pairs]
    <3>1. \A a, b \in Words : <<a, b>> \in Pairs
      BY DEF Pairs
    <3>2. \A a \in Int : a % Word \in Words /\ (a \div 3) % Word \in Words
      BY WordAssumption DEF Words
    <3> HIDE DEF n
    <3>3. \A k \in 1 .. n : <<text[k] % Word, (text[k] \div 3) % Word>> \in Pairs
      BY <2>1, <3>1, <3>2
    <3> QED
      BY <2>1, <3>3
  <2> HIDE DEF n, h
  <2>3. /\ \A order \in Bijection(1 .. n, 1 .. n) :
             UnorderedCombine([k \in 1 .. n |-> h[order[k]]]) = UnorderedCombine(h)
        /\ \A i \in 1 .. 2 : UnorderedCombine(h)[i] = 0 <=> \A k \in 1 .. n : h[k][i] = 0
    BY <2>1, <2>2, CombineAnyOrder
  <2>4. /\ \A order \in Bijection(DOMAIN text, DOMAIN text) :
             UnorderedCombine([k \in DOMAIN text |-> h[order[k]]]) = UnorderedCombine(h)
        /\ \A i \in 1 .. 2 :
             UnorderedCombine(h)[i] = 0 <=> \A k \in DOMAIN text : h[k][i] = 0
    <3>1. ASSUME NEW order \in Bijection(DOMAIN text, DOMAIN text)
          PROVE  UnorderedCombine([k \in DOMAIN text |-> h[order[k]]]) = UnorderedCombine(h)
      <4>1. order \in Bijection(1 .. n, 1 .. n)
        BY <2>1, Zenon
      <4>2. [k \in DOMAIN text |-> h[order[k]]] = [k \in 1 .. n |-> h[order[k]]]
        BY <2>1
      <4> QED
        BY <2>3, <4>1, <4>2
    <3> QED
      BY <2>1, <2>3, <3>1
  <2> QED
    BY <2>4 DEF CombinesUnordered, h
<1>2. BInv => CombinesUnordered
  BY <1>1
<1> QED
  BY <1>2, AlwaysReads, PTL

-----------------------------------------------------------------------------
(* Numbers of four octets.                                                 *)

\* Division with a remainder, from its parts.
LEMMA FromParts ==
  ASSUME NEW m \in Nat, m > 0, NEW q \in Nat, NEW r \in 0 .. m - 1
  PROVE  /\ q * m + r \in Nat
         /\ (q * m + r) \div m = q /\ (q * m + r) % m = r
<1>1. q * m \in Nat
  OBVIOUS
<1> QED
  BY <1>1

\* A digit less than o behind a number less than m.
LEMMA DigitBehind ==
  ASSUME NEW m \in Nat, NEW o \in Nat, NEW x \in 0 .. m - 1, NEW d \in 0 .. o - 1
  PROVE  x * o + d \in 0 .. m * o - 1
<1>1. x \in Nat /\ d \in Nat /\ x + 1 <= m /\ d + 1 <= o
  OBVIOUS
<1>2. x * o \in Nat /\ m * o \in Nat /\ (x + 1) * o = x * o + o
  BY <1>1
<1>3. (x + 1) * o <= m * o
  BY <1>1
<1> QED
  BY <1>1, <1>2, <1>3

\* Dividing twice.
LEMMA DivTwice ==
  ASSUME NEW x \in Nat, NEW m \in Nat, m > 0, NEW k \in Nat, k > 0
  PROVE  x \div (k * m) = (x \div m) \div k
<1> DEFINE q == x \div m
           r == x % m
           p == q \div k
           s == q % k
<1>1. q \in Nat /\ r \in 0 .. m - 1 /\ x = q * m + r
  OBVIOUS
<1>2. p \in Nat /\ s \in 0 .. k - 1 /\ q = p * k + s
  <2> HIDE DEF q
  <2> QED
    BY <1>1
<1> HIDE DEF q, r, p, s
<1>3. s * m + r \in 0 .. k * m - 1
  BY <1>1, <1>2, DigitBehind
<1>4. x = p * (k * m) + (s * m + r)
  <2>1. q * m = p * k * m + s * m /\ p * k * m = p * (k * m)
    BY <1>1, <1>2
  <2> QED
    BY <1>1, <1>2, <2>1
<1>5. k * m \in Nat /\ k * m > 0
  OBVIOUS
<1> DEFINE w == k * m
           t == s * m + r
<1> HIDE DEF w, t
<1>6. (p * w + t) \div w = p
  BY <1>2, <1>3, <1>5, FromParts DEF w, t
<1> QED
  BY <1>4, <1>6 DEF w, t, p, q

\* The octets of a word of four of them.
LEMMA OctetsBack ==
  ASSUME NEW o \in [1 .. 4 -> 0 .. Octet - 1], NEW e, e.address = AddressOf(o)
  PROVE  /\ Part(e, 0) = o[1] /\ Part(e, 1) = o[2] /\ Part(e, 2) = o[3] /\ Part(e, 3) = o[4]
         /\ AddressOf(o) \in Nat
<1> DEFINE x2 == o[1] * Octet + o[2]
           x3 == x2 * Octet + o[3]
           x4 == x3 * Octet + o[4]
           O2 == Octet * Octet
           O3 == Octet * Octet * Octet
           O4 == Octet * Octet * Octet * Octet
<1>1. Octet \in Nat /\ Octet > 0 /\ \A i \in 1 .. 4 : o[i] \in 0 .. Octet - 1 /\ o[i] \in Nat
  BY AddressAssumption
<1>2. O2 = Octet * Octet /\ O3 = O2 * Octet /\ O4 = O3 * Octet
      /\ O2 \in Nat /\ O3 \in Nat /\ O4 \in Nat
  BY <1>1
<1>3. x2 \in 0 .. O2 - 1 /\ x2 \in Nat
  BY <1>1, DigitBehind
<1> HIDE DEF O2
<1>4. x3 \in 0 .. O3 - 1 /\ x3 \in Nat
  <2> HIDE DEF x2, O3
  <2>1. x2 * Octet + o[3] \in 0 .. O2 * Octet - 1
    BY <1>1, <1>2, <1>3, DigitBehind
  <2> QED
    BY <1>2, <2>1
<1> HIDE DEF O3
<1>5. x4 \in 0 .. O4 - 1 /\ x4 \in Nat
  <2> HIDE DEF x3, O4
  <2>1. x3 * Octet + o[4] \in 0 .. O3 * Octet - 1
    BY <1>1, <1>2, <1>4, DigitBehind
  <2> QED
    BY <1>2, <2>1
<1>6. x2 \div Octet = o[1] /\ x2 % Octet = o[2]
  <2> DEFINE a == o[1]
             b == o[2]
  <2>1. a \in Nat /\ b \in 0 .. Octet - 1
    BY <1>1
  <2> HIDE DEF a, b
  <2>2. (a * Octet + b) \div Octet = a /\ (a * Octet + b) % Octet = b
    BY <1>1, <2>1, FromParts
  <2> QED
    BY <2>2 DEF a, b
<1>7. x3 \div Octet = x2 /\ x3 % Octet = o[3]
  <2> DEFINE b == o[3]
  <2>1. x2 \in Nat /\ b \in 0 .. Octet - 1
    BY <1>1, <1>3
  <2> HIDE DEF x2, b
  <2>2. (x2 * Octet + b) \div Octet = x2 /\ (x2 * Octet + b) % Octet = b
    BY <1>1, <2>1, FromParts
  <2> QED
    BY <2>2 DEF b
<1>8. x4 \div Octet = x3 /\ x4 % Octet = o[4]
  <2> HIDE DEF x3
  <2>1. (x3 * Octet + o[4]) \div Octet = x3 /\ (x3 * Octet + o[4]) % Octet = o[4]
    <3>1. o[4] \in 0 .. Octet - 1 /\ x3 \in Nat
      BY <1>1, <1>4
    <3> QED
      BY <1>1, <3>1, FromParts
  <2> QED
    BY <2>1
<1>9. AddressOf(o) = x4
  <2>1. AddressOf(o) = x4 % O4
    BY DEF AddressOf
  <2> HIDE DEF x4, O4
  <2> QED
    BY <1>2, <1>5, <2>1
<1>10. o[1] % Octet = o[1]
  BY <1>1
<1> HIDE DEF x2, x3, x4, O4
<1>11. x4 \div 1 = x4
  BY <1>5
<1>12. x4 \div (Octet * Octet) = x2
  BY <1>1, <1>5, <1>7, <1>8, DivTwice
<1>13. x4 \div (Octet * Octet * Octet) = o[1]
  <2>1. Octet * Octet * Octet = O2 * Octet /\ O2 > 0
    BY <1>1 DEF O2
  <2>2. x4 \div (O2 * Octet) = (x4 \div Octet) \div O2
    BY <1>1, <1>2, <1>5, <2>1, DivTwice
  <2>3. x3 \div (Octet * Octet) = (x3 \div Octet) \div Octet
    BY <1>1, <1>4, DivTwice
  <2> QED
    BY <1>2, <1>6, <1>7, <1>8, <2>1, <2>2, <2>3
<1>14. /\ Part(e, 0) = (x4 \div (Octet * Octet * Octet)) % Octet
       /\ Part(e, 1) = (x4 \div (Octet * Octet)) % Octet
       /\ Part(e, 2) = (x4 \div Octet) % Octet
       /\ Part(e, 3) = (x4 \div 1) % Octet
  BY <1>9 DEF Part
<1> QED
  BY <1>5, <1>6, <1>7, <1>8, <1>9, <1>10, <1>11, <1>12, <1>13, <1>14

-----------------------------------------------------------------------------
(* static_split() at a byte.                                               *)

\* The places of a byte in a text.
LEMMA HitsOfByte ==
  ASSUME NEW t \in Seq(Int), NEW c \in Int
  PROVE  Hits(t, <<c>>) = {k \in 1 .. Len(t) : t[k] = c}
<1>1. ASSUME NEW k \in 1 .. Len(t)
      PROVE  IsPrefix(<<c>>, SubSeq(t, k, Len(t))) <=> t[k] = c
  <2> DEFINE u == SubSeq(t, k, Len(t))
             m == <<c>>
  <2>1. u \in Seq(Int) /\ Len(u) = Len(t) - k + 1 /\ u[1] = t[k]
    OBVIOUS
  <2>2. m \in Seq(Int) /\ Len(m) = 1 /\ m[1] = c
    OBVIOUS
  <2>3. Len(u) >= 1
    BY <2>1
  <2> HIDE DEF u, m
  <2>4. SubSeq(m, 1, 1) = m
    BY <2>2
  <2>5. SubSeq(u, 1, 1) \in Seq(Int) /\ Len(SubSeq(u, 1, 1)) = 1 /\ SubSeq(u, 1, 1)[1] = u[1]
    BY <2>1, <2>3
  <2>6. SubSeq(u, 1, 1) = m <=> u[1] = c
    <3> DEFINE x == SubSeq(u, 1, 1)
    <3> HIDE DEF x
    <3>1. x \in Seq(Int) /\ Len(x) = 1 /\ x[1] = u[1]
      BY <2>5 DEF x
    <3>2. x[1] = c => \A i \in 1 .. Len(x) : x[i] = m[i]
      BY <2>2, <3>1
    <3>3. x[1] = c => x = m
      BY <2>2, <3>1, <3>2, SeqEqual
    <3>4. x = m => x[1] = c
      BY <2>2
    <3> QED
      BY <3>1, <3>3, <3>4 DEF x
  <2>7. IsPrefix(m, u) <=> SubSeq(m, 1, 1) = SubSeq(u, 1, 1)
    BY <2>2, <2>3 DEF IsPrefix
  <2> QED
    BY <2>1, <2>4, <2>6, <2>7 DEF u, m
<1> QED
  BY <1>1 DEF Hits

\* static_split() of a text, from the last part to the first.
SplitBy(sep, t, k, before) ==
  LET i == FindIndex(t, sep) IN
  IF k = 1 THEN IF i # -1 THEN Throw ELSE <<t>>
  ELSE IF i = -1 THEN Throw
  ELSE LET rest == before[SubSeq(t, i + Len(sep) + 1, Len(t))]
       IN IF rest = Throw THEN Throw ELSE <<SubSeq(t, 1, i)>> \o rest

\* It is a list of texts, empty for an exception.
LEMMA SplitByIs ==
  ASSUME NEW sep \in Seq(Int), NEW t \in Seq(Int), NEW k \in Nat,
         NEW before \in [Seq(Int) -> Seq(Seq(Int))]
  PROVE  SplitBy(sep, t, k, before) \in Seq(Seq(Int))
<1> DEFINE E == Seq(Int)
           i == FindIndex(t, sep)
           rest == before[SubSeq(t, i + Len(sep) + 1, Len(t))]
<1>1. i \in -1 .. Len(t) /\ Len(t) \in Nat /\ Len(sep) \in Nat /\ t \in E
  BY FindIndexIn
<1>2. <<>> \in Seq(E) /\ <<t>> \in Seq(E)
  <2> HIDE DEF E
  <2> QED
    BY <1>1
<1>3. ASSUME i # -1
      PROVE  <<SubSeq(t, 1, i)>> \o rest \in Seq(E)
  <2> HIDE DEF i
  <2>1. i \in Int /\ 1 >= 1 /\ i <= Len(t) /\ i + Len(sep) + 1 >= 1
        /\ i + Len(sep) + 1 \in Int /\ Len(t) <= Len(t)
    BY <1>1, <1>3
  <2>2. SubSeq(t, 1, i) \in E /\ SubSeq(t, i + Len(sep) + 1, Len(t)) \in E
    BY <1>1, <2>1, PartIsSeq
  <2>3. rest \in Seq(E)
    BY <2>2
  <2> HIDE DEF E, rest
  <2>4. <<SubSeq(t, 1, i)>> \in Seq(E)
    BY <2>2
  <2> QED
    BY <2>3, <2>4
<1> HIDE DEF i, rest
<1> QED
  BY <1>2, <1>3, Zenon DEF SplitBy, Throw, E, i, rest

\* v goes through the parts, and gives what static_split() gives.
Traced(v, text0, sep, n) ==
  /\ \A k \in 1 .. n : \A t \in Seq(Int) : v[k][t] = SplitBy(sep, t, k, v[k - 1])
  /\ StaticSplit(text0, sep, n) = v[n][text0]

\* The recursion of static_split() has such a trace.
LEMMA SplitTrace ==
  ASSUME NEW text0 \in Seq(Int), NEW sep \in Seq(Int), NEW n \in Nat, n > 0
  PROVE  \E v : Traced(v, text0, sep, n)
<1> DEFINE D == [Seq(Int) -> Seq(Seq(Int))]
           base == [t \in Seq(Int) |-> <<>>]
           G == [k \in 1 .. n |-> [f \in D |-> [t \in Seq(Int) |-> SplitBy(sep, t, k, f)]]]
           Is(split) == split = [k \in 1 .. n |->
                                   [t \in Seq(Int) |-> SplitBy(sep, t, k, split[k - 1])]]
           it == CHOOSE split : Is(split)
<1>1. StaticSplit(text0, sep, n) = it[n][text0]
  BY DEF StaticSplit, SplitBy
<1>2. G \in [1 .. n -> [D -> D]] /\ base \in D
      /\ \A k \in 1 .. n : \A f \in D : G[k][f] = [t \in Seq(Int) |-> SplitBy(sep, t, k, f)]
  <2>1. ASSUME NEW k \in 1 .. n, NEW f \in D
        PROVE  [t \in Seq(Int) |-> SplitBy(sep, t, k, f)] \in D
    <3>1. k \in Nat
      OBVIOUS
    <3>2. \A t \in Seq(Int) : SplitBy(sep, t, k, f) \in Seq(Seq(Int))
      BY <3>1, SplitByIs
    <3> QED
      BY <3>2
  <2>2. base \in D
    <3>1. <<>> \in Seq(Seq(Int))
      <4> DEFINE E == Seq(Int)
      <4>1. <<>> \in Seq(E)
        <5> HIDE DEF E
        <5> QED
          OBVIOUS
      <4> QED
        BY <4>1
    <3> QED
      BY <3>1
  <2> HIDE DEF D
  <2> QED
    BY <2>1, <2>2
<1> HIDE DEF G, D, base
<1>3. PICK fold : fold \in Iterations(D, base, n, G)
  <2>1. Iterations(D, base, n, G) # {}
    BY <1>2, Iterates
  <2> QED
    BY <2>1
<1>4. PICK v : v \in GoesThrough(fold, D, base, n, G)
  <2>1. Recurs(fold, D, base, n, G)
    BY <1>3 DEF Recurs, Iterations
  <2>2. GoesThrough(fold, D, base, n, G) # {}
    BY <1>2, <2>1, FoldGoes
  <2> QED
    BY <2>2
<1>5. v \in [0 .. n -> D] /\ \A k \in 1 .. n : v[k] = G[k][v[k - 1]]
  BY <1>4 DEF GoesThrough
<1> DEFINE w == [k \in 1 .. n |-> v[k]]
<1>6. Is(w)
  <2>1. ASSUME NEW k \in 1 .. n
        PROVE  w[k] = [t \in Seq(Int) |-> SplitBy(sep, t, k, w[k - 1])]
    <3>1. v[k - 1] \in D
      <4>1. k - 1 \in 0 .. n
        OBVIOUS
      <4> QED
        BY <1>5, <4>1
    <3>2. w[k] = [t \in Seq(Int) |-> SplitBy(sep, t, k, v[k - 1])]
      BY <1>2, <1>5, <3>1
    <3>3. CASE k = 1
      <4>1. \A t, f, g : SplitBy(sep, t, k, f) = SplitBy(sep, t, k, g)
        BY <3>3, Zenon DEF SplitBy
      <4> HIDE DEF w
      <4>2. \A t \in Seq(Int) : SplitBy(sep, t, k, v[k - 1]) = SplitBy(sep, t, k, w[k - 1])
        BY <4>1
      <4> QED
        BY <3>2, <4>2
    <3>4. CASE k # 1
      <4>1. w[k - 1] = v[k - 1]
        <5>1. k - 1 \in 1 .. n
          BY <3>4
        <5> QED
          BY <5>1
      <4> HIDE DEF w
      <4> QED
        BY <3>2, <4>1
    <3> QED
      BY <3>3, <3>4
  <2>2. w = [k \in 1 .. n |-> w[k]]
    OBVIOUS
  <2> HIDE DEF w
  <2> QED
    BY <2>1, <2>2
<1>7. Is(it)
  <2> HIDE DEF w
  <2>1. \E split : Is(split)
    BY <1>6
  <2> HIDE DEF Is
  <2> QED
    BY <2>1, Zenon
<1> HIDE DEF it
<1>8. \A k \in 1 .. n : \A t \in Seq(Int) : it[k][t] = SplitBy(sep, t, k, it[k - 1])
  <2>1. ASSUME NEW k \in 1 .. n
        PROVE  it[k] = [t \in Seq(Int) |-> SplitBy(sep, t, k, it[k - 1])]
    BY <1>7
  <2> QED
    BY <2>1
<1> QED
  BY <1>1, <1>8 DEF Traced

\* A text in which a byte does not occur.
Without(s, c) == \A i \in DOMAIN s : s[i] # c

\* A text and another one behind a separator.
Behind(d, c, r) == d \o (<<c>> \o r)

\* The first part of a text is what is before the first separator.
LEMMA FirstPart ==
  ASSUME NEW d \in Seq(Int), NEW c \in Int, NEW r \in Seq(Int), Without(d, c)
  PROVE  /\ Behind(d, c, r) \in Seq(Int)
         /\ FindIndex(Behind(d, c, r), <<c>>) = Len(d)
         /\ SubSeq(Behind(d, c, r), 1, Len(d)) = d
         /\ SubSeq(Behind(d, c, r), Len(d) + Len(<<c>>) + 1, Len(Behind(d, c, r))) = r
<1> DEFINE b == <<c>>
           t == Behind(d, c, r)
           u == d \o b
           H == {k \in 1 .. Len(t) : t[k] = c}
<1>1. b \in Seq(Int) /\ Len(b) = 1 /\ b[1] = c /\ b # <<>>
  OBVIOUS
<1>2. Len(d) \in Nat /\ Len(r) \in Nat
  OBVIOUS
<1> HIDE DEF b
<1>3. b \o r \in Seq(Int) /\ Len(b \o r) = 1 + Len(r) /\ (b \o r)[1] = c
  <2>1. b \o r \in Seq(Int) /\ Len(b \o r) = Len(b) + Len(r)
    BY <1>1, ConcatProperties
  <2>2. 1 \in 1 .. Len(b) + Len(r) /\ 1 <= Len(b)
    BY <1>1, <1>2
  <2>3. (b \o r)[1] = b[1]
    BY <1>1, <2>2, ConcatProperties
  <2> QED
    BY <1>1, <2>1, <2>3
<1>4. t \in Seq(Int) /\ Len(t) = Len(d) + 1 + Len(r)
  BY <1>2, <1>3 DEF Behind, b
<1>5. /\ \A i \in 1 .. Len(d) : t[i] = d[i]
      /\ t[Len(d) + 1] = c
  <2> DEFINE y == b \o r
  <2> HIDE DEF y
  <2>1. y \in Seq(Int) /\ Len(y) = 1 + Len(r) /\ y[1] = c
    BY <1>3 DEF y
  <2>2. /\ \A i \in 1 .. Len(d) : (d \o y)[i] = d[i]
        /\ (d \o y)[Len(d) + 1] = y[1]
    BY <1>2, <2>1
  <2> QED
    BY <2>1, <2>2 DEF y, Behind, b
<1>6. SubSeq(t, 1, Len(d)) = d
  BY <1>3, PrefixOf DEF Behind, b
<1>7. SubSeq(t, (Len(d) + 1) + 1, Len(t)) = r
  <2>1. Associates(d, b, r)
    BY <1>1, AnyThree
  <2>2. t = u \o r
    BY <2>1 DEF Associates, Behind, b
  <2>6. u \in Seq(Int) /\ Len(u) = Len(d) + 1
    <3>1. u \in Seq(Int) /\ Len(u) = Len(d) + Len(b)
      BY <1>1, ConcatProperties
    <3> QED
      BY <1>1, <3>1
  <2> HIDE DEF t, u
  <2>3. SubSeq(t, 1, Len(t)) = t
    BY <1>4
  <2>4. Splits(t, Len(t), u, r, Len(d) + 1)
    BY <2>2, <2>3, <2>6 DEF Splits
  <2>5. Len(t) \in 0 .. Len(t) /\ Len(d) + 1 \in 0 .. Len(t)
    BY <1>2, <1>4
  <2> QED
    BY <1>4, <2>2, <2>4, <2>5, <2>6, RestOf
<1> HIDE DEF t
<1>8. Hits(t, b) = H
  BY <1>4, HitsOfByte DEF b
<1>9. Len(d) + 1 \in H /\ \A k \in H : Len(d) + 1 <= k /\ H \in SUBSET Nat
  <2>1. ASSUME NEW k \in 1 .. Len(t), k < Len(d) + 1 PROVE t[k] # c
    <3>1. k \in 1 .. Len(d)
      BY <1>2, <2>1
    <3> QED
      BY <1>5, <3>1 DEF Without
  <2> QED
    BY <1>2, <1>4, <1>5, <2>1
<1> HIDE DEF H
<1>10. Min(H) = Len(d) + 1
  <2>1. H \in SUBSET Nat /\ H # {}
    BY <1>9
  <2>2. Min(H) \in H /\ \A k \in H : Min(H) <= k
    BY <2>1, LeastIs
  <2>3. Min(H) \in Nat /\ Min(H) <= Len(d) + 1 /\ Len(d) + 1 <= Min(H)
    BY <1>9, <2>1, <2>2
  <2> QED
    BY <1>2, <2>3
<1>11. FindIndex(t, b) = Len(d)
  <2>1. Hits(t, b) # {}
    BY <1>8, <1>9
  <2> QED
    BY <1>1, <1>2, <1>8, <1>10, <2>1 DEF FindIndex
<1> QED
  BY <1>1, <1>4, <1>6, <1>7, <1>11 DEF t, b

\* A text without a separator has none.
LEMMA LastPart ==
  ASSUME NEW d \in Seq(Int), NEW c \in Int, Without(d, c)
  PROVE  FindIndex(d, <<c>>) = -1
<1>1. Hits(d, <<c>>) = {}
  BY HitsOfByte DEF Without
<1>2. <<c>> # <<>>
  OBVIOUS
<1> QED
  BY <1>1, <1>2 DEF FindIndex

\* One step of static_split() at a byte.
Stepped(d, c, r, k, before) ==
  SplitBy(<<c>>, Behind(d, c, r), k, before) = <<d>> \o before[r]

\* It cuts off what is before the byte.
LEMMA SplitStep ==
  ASSUME NEW d \in Seq(Int), NEW c \in Int, NEW r \in Seq(Int), Without(d, c),
         NEW k \in Nat, k > 1, NEW before, before[r] # <<>>
  PROVE  Stepped(d, c, r, k, before)
<1> DEFINE t == Behind(d, c, r)
           b == <<c>>
<1>1. /\ FindIndex(t, b) = Len(d) /\ SubSeq(t, 1, Len(d)) = d
      /\ SubSeq(t, Len(d) + Len(b) + 1, Len(t)) = r
  BY FirstPart
<1>2. Len(d) # -1 /\ k # 1
  OBVIOUS
<1> HIDE DEF t, b
<1>3. SplitBy(b, t, k, before) = <<d>> \o before[r]
  BY <1>1, <1>2, Zenon DEF SplitBy, Throw
<1> QED
  BY <1>3 DEF t, b, Stepped

\* static_split<2>() gives what is before the separator and what is behind it.
SplitsInTwo(d, c, r) ==
  LET parts == StaticSplit(Behind(d, c, r), <<c>>, 2) IN
  parts # Throw /\ parts[1] = d /\ parts[2] = r

\* That holds where the byte occurs once.
LEMMA SplitInTwo ==
  ASSUME NEW d \in Seq(Int), NEW c \in Int, NEW r \in Seq(Int), Without(d, c), Without(r, c)
  PROVE  SplitsInTwo(d, c, r)
<1> DEFINE t == Behind(d, c, r)
           b == <<c>>
<1>1. t \in Seq(Int) /\ b \in Seq(Int)
  <2>1. b \in Seq(Int)
    OBVIOUS
  <2> HIDE DEF b
  <2>2. t \in Seq(Int)
    BY FirstPart
  <2> QED
    BY <2>1, <2>2
<1>2. PICK v : Traced(v, t, b, 2)
  <2> HIDE DEF t, b
  <2> QED
    <3>1. 2 \in Nat /\ 2 > 0
      OBVIOUS
    <3> QED
      BY <1>1, <3>1, SplitTrace
<1>3. v[1][r] = <<r>>
  <2>1. FindIndex(r, b) = -1
    BY LastPart
  <2>2. v[1][r] = SplitBy(b, r, 1, v[1 - 1])
    BY <1>2 DEF Traced
  <2> QED
    BY <2>1, <2>2, Zenon DEF SplitBy
<1>4. v[2][t] = <<d>> \o <<r>>
  <2>1. v[2][t] = SplitBy(b, t, 2, v[1])
    <3>1. 2 \in 1 .. 2 /\ 2 - 1 = 1
      OBVIOUS
    <3> HIDE DEF t, b
    <3> QED
      BY <1>1, <1>2, <3>1 DEF Traced
  <2>2. <<r>> # <<>> /\ 2 \in Nat /\ 2 > 1
    OBVIOUS
  <2>3. SplitBy(b, t, 2, v[1]) = <<d>> \o v[1][r]
    BY <1>3, <2>2, SplitStep DEF Stepped
  <2> QED
    BY <1>3, <2>1, <2>3
<1>5. <<d, r>> = <<d>> \o <<r>> /\ <<d, r>> # <<>> /\ <<d, r>>[1] = d /\ <<d, r>>[2] = r
  BY PairOf
<1> QED
  BY <1>2, <1>4, <1>5 DEF Throw, Traced, SplitsInTwo

\* One more element in front of a sequence.
LEMMA InFront ==
  ASSUME NEW E, NEW d \in E, NEW s \in Seq(E)
  PROVE  /\ <<d>> \o s \in Seq(E) /\ <<d>> \o s # <<>>
         /\ (<<d>> \o s)[1] = d
         /\ \A i \in 1 .. Len(s) : (<<d>> \o s)[i + 1] = s[i]
         /\ Len(<<d>> \o s) = Len(s) + 1
<1> DEFINE b == <<d>>
           u == b \o s
<1>1. b \in Seq(E) /\ Len(b) = 1 /\ b[1] = d
  OBVIOUS
<1> HIDE DEF b
<1>2. /\ u \in Seq(E) /\ Len(u) = Len(b) + Len(s)
      /\ \A i \in 1 .. Len(b) + Len(s) : u[i] = IF i <= Len(b) THEN b[i] ELSE s[i - Len(b)]
  BY <1>1, ConcatProperties
<1> HIDE DEF u
<1>3. Len(s) \in Nat
  OBVIOUS
<1>4. u[1] = d /\ Len(u) = Len(s) + 1
  BY <1>1, <1>2, <1>3
<1>5. ASSUME NEW i \in 1 .. Len(s)
      PROVE  u[i + 1] = s[i]
  BY <1>1, <1>2, <1>3
<1>6. u # <<>>
  <2>1. Len(u) # 0
    BY <1>3, <1>4
  <2> QED
    BY <2>1
<1> QED
  BY <1>2, <1>4, <1>5, <1>6 DEF u, b

\* The elements of a sequence of four.
LEMMA FourOf ==
  ASSUME NEW E, NEW a \in E, NEW b \in E, NEW d \in E, NEW e \in E
  PROVE  LET s == <<a>> \o (<<b>> \o (<<d>> \o <<e>>)) IN
         s # <<>> /\ s[1] = a /\ s[2] = b /\ s[3] = d /\ s[4] = e
<1> DEFINE s1 == <<e>>
           s2 == <<d>> \o s1
           s3 == <<b>> \o s2
           s4 == <<a>> \o s3
<1>1. s1 \in Seq(E) /\ Len(s1) = 1 /\ s1[1] = e
  OBVIOUS
<1>0. s1 \in Seq(E)
  OBVIOUS
<1> HIDE DEF s1
<1>2. /\ s2 \in Seq(E) /\ Len(s2) = Len(s1) + 1 /\ s2[1] = d
      /\ \A i \in 1 .. Len(s1) : s2[i + 1] = s1[i]
  BY <1>0, InFront
<1> HIDE DEF s2
<1>3. /\ s3 \in Seq(E) /\ Len(s3) = Len(s2) + 1 /\ s3[1] = b
      /\ \A i \in 1 .. Len(s2) : s3[i + 1] = s2[i]
  BY <1>2, InFront
<1> HIDE DEF s3
<1>4. /\ s4 \in Seq(E) /\ s4 # <<>> /\ s4[1] = a
      /\ \A i \in 1 .. Len(s3) : s4[i + 1] = s3[i]
  BY <1>3, InFront
<1> HIDE DEF s4
<1>5. Len(s2) = 2 /\ Len(s3) = 3
  BY <1>1, <1>2, <1>3
<1>6. /\ s2[1 + 1] = s1[1]
      /\ s3[1 + 1] = s2[1] /\ s3[2 + 1] = s2[2]
      /\ s4[1 + 1] = s3[1] /\ s4[2 + 1] = s3[2] /\ s4[3 + 1] = s3[3]
  BY <1>1, <1>2, <1>3, <1>4, <1>5
<1>7. s4[2] = b /\ s4[3] = d /\ s4[4] = e
  BY <1>1, <1>2, <1>3, <1>6
<1> QED
  BY <1>4, <1>7 DEF s1, s2, s3, s4

\* static_split<4>() gives the four parts.
SplitsInFour(d, c, e, f, g) ==
  LET parts == StaticSplit(Behind(d, c, Behind(e, c, Behind(f, c, g))), <<c>>, 4) IN
  parts # Throw /\ parts[1] = d /\ parts[2] = e /\ parts[3] = f /\ parts[4] = g

\* That holds where the byte occurs three times.
LEMMA SplitInFour ==
  ASSUME NEW c \in Int, NEW d \in Seq(Int), NEW e \in Seq(Int), NEW f \in Seq(Int),
         NEW g \in Seq(Int), Without(d, c), Without(e, c), Without(f, c), Without(g, c)
  PROVE  SplitsInFour(d, c, e, f, g)
<1> DEFINE t2 == Behind(f, c, g)
           t3 == Behind(e, c, t2)
           t4 == Behind(d, c, t3)
           b == <<c>>
<1>1. t2 \in Seq(Int) /\ t3 \in Seq(Int) /\ t4 \in Seq(Int) /\ b \in Seq(Int)
  <2>1. b \in Seq(Int)
    OBVIOUS
  <2> HIDE DEF b
  <2>2. t2 \in Seq(Int)
    BY FirstPart
  <2> HIDE DEF t2
  <2>3. t3 \in Seq(Int)
    BY <2>2, FirstPart
  <2> HIDE DEF t3
  <2>4. t4 \in Seq(Int)
    BY <2>3, FirstPart
  <2> QED
    BY <2>1, <2>2, <2>3, <2>4
<1>2. PICK v : Traced(v, t4, b, 4)
  <2> HIDE DEF t2, t3, t4, b
  <2> QED
    <3>1. 4 \in Nat /\ 4 > 0
      OBVIOUS
    <3> QED
      BY <1>1, <3>1, SplitTrace
<1> DEFINE s1 == <<g>>
           s2 == <<f>> \o s1
           s3 == <<e>> \o s2
           s4 == <<d>> \o s3
<1>3. v[1][g] = s1
  <2>1. FindIndex(g, b) = -1
    BY LastPart
  <2>2. v[1][g] = SplitBy(b, g, 1, v[1 - 1])
    <3>1. g \in Seq(Int) /\ 1 \in 1 .. 4
      OBVIOUS
    <3> HIDE DEF b
    <3> QED
      BY <1>2, <3>1 DEF Traced
  <2> QED
    BY <2>1, <2>2, Zenon DEF SplitBy
<1>4. s1 # <<>> /\ s2 # <<>> /\ s3 # <<>>
  <2> DEFINE E == Seq(Int)
  <2>1. d \in E /\ e \in E /\ f \in E /\ g \in E
    OBVIOUS
  <2> HIDE DEF E
  <2>2. s1 \in Seq(E) /\ s1 # <<>>
    BY <2>1
  <2> HIDE DEF s1
  <2>3. s2 \in Seq(E) /\ s2 # <<>>
    BY <2>1, <2>2, InFront
  <2> HIDE DEF s2
  <2>4. s3 # <<>>
    BY <2>1, <2>3, InFront
  <2> QED
    BY <2>2, <2>3, <2>4
<1>5. /\ v[2][t2] = SplitBy(b, t2, 2, v[1])
      /\ v[3][t3] = SplitBy(b, t3, 3, v[2])
      /\ v[4][t4] = SplitBy(b, t4, 4, v[3])
  <2>1. /\ 2 \in 1 .. 4 /\ 2 - 1 = 1 /\ 3 \in 1 .. 4 /\ 3 - 1 = 2
        /\ 4 \in 1 .. 4 /\ 4 - 1 = 3
    OBVIOUS
  <2> HIDE DEF t2, t3, t4, b
  <2> QED
    BY <1>1, <1>2, <2>1 DEF Traced
<1>6. /\ 2 \in Nat /\ 2 > 1 /\ 3 \in Nat /\ 3 > 1 /\ 4 \in Nat /\ 4 > 1
  OBVIOUS
<1> HIDE DEF s1
<1>7. v[2][t2] = s2
  <2>0. v[1][g] # <<>> /\ g \in Seq(Int) /\ Without(f, c)
    BY <1>1, <1>3, <1>4
  <2>1. 2 \in Nat /\ 2 > 1
    OBVIOUS
  <2>2. Stepped(f, c, g, 2, v[1])
    BY <2>0, <2>1, SplitStep
  <2>3. SplitBy(b, t2, 2, v[1]) = <<f>> \o v[1][g]
    BY <2>2 DEF Stepped
  <2> QED
    BY <1>3, <1>5, <2>3
<1> HIDE DEF s2, t2
<1>8. v[3][t3] = s3
  <2>0. v[2][t2] # <<>> /\ t2 \in Seq(Int) /\ Without(e, c)
    BY <1>1, <1>4, <1>7
  <2>1. 3 \in Nat /\ 3 > 1
    OBVIOUS
  <2>2. Stepped(e, c, t2, 3, v[2])
    BY <2>0, <2>1, SplitStep
  <2>3. SplitBy(b, t3, 3, v[2]) = <<e>> \o v[2][t2]
    BY <2>2 DEF Stepped
  <2> QED
    BY <1>5, <1>7, <2>3
<1> HIDE DEF s3, t3
<1>9. v[4][t4] = s4
  <2>0. v[3][t3] # <<>> /\ t3 \in Seq(Int) /\ Without(d, c)
    BY <1>1, <1>4, <1>8
  <2>1. 4 \in Nat /\ 4 > 1
    OBVIOUS
  <2>2. Stepped(d, c, t3, 4, v[3])
    BY <2>0, <2>1, SplitStep
  <2>3. SplitBy(b, t4, 4, v[3]) = <<d>> \o v[3][t3]
    BY <2>2 DEF Stepped
  <2> QED
    BY <1>5, <1>8, <2>3
<1>10. s4 # <<>> /\ s4[1] = d /\ s4[2] = e /\ s4[3] = f /\ s4[4] = g
  BY FourOf DEF s1, s2, s3
<1> HIDE DEF s4
<1>11. StaticSplit(t4, b, 4) = s4
  BY <1>2, <1>9 DEF Traced
<1> QED
  BY <1>10, <1>11 DEF t2, t3, Throw, SplitsInFour

\* Concatenation, from the left and from the right.
Chained(s, d, c, r) == ((s \o d) \o <<c>>) \o r = s \o Behind(d, c, r)
PutBetween(d, c, r) == (d \o <<c>>) \o r = Behind(d, c, r) /\ Behind(d, c, r) \in Seq(Int)

\* Both are the same text.
LEMMA ChainedIs ==
  ASSUME NEW s \in Seq(Int), NEW d \in Seq(Int), NEW c \in Int, NEW r \in Seq(Int)
  PROVE  Chained(s, d, c, r) /\ PutBetween(d, c, r)
<1> DEFINE b == <<c>>
<1>1. b \in Seq(Int)
  OBVIOUS
<1> HIDE DEF b
<1> DEFINE x == s \o d
           y == b \o r
<1>2. x \in Seq(Int) /\ y \in Seq(Int) /\ d \o y \in Seq(Int)
  BY <1>1, ConcatProperties
<1> HIDE DEF x, y
<1>3. Associates(x, b, r) /\ Associates(s, d, y) /\ Associates(d, b, r)
  BY <1>1, <1>2, AnyThree
<1> QED
  BY <1>2, <1>3 DEF Associates, Chained, PutBetween, Behind, x, y, b

\* Two texts without a byte, one behind the other.
LEMMA WithoutConcat ==
  ASSUME NEW s \in Seq(Int), NEW t \in Seq(Int), NEW c, Without(s, c), Without(t, c)
  PROVE  Without(s \o t, c)
<1> DEFINE u == s \o t
<1>1. u \in Seq(Int) /\ Len(u) = Len(s) + Len(t)
      /\ \A i \in 1 .. Len(s) + Len(t) :
           u[i] = IF i <= Len(s) THEN s[i] ELSE t[i - Len(s)]
  BY ConcatProperties
<1> HIDE DEF u
<1>2. ASSUME NEW i \in 1 .. Len(s) + Len(t) PROVE u[i] # c
  <2>1. CASE i <= Len(s)
    <3>1. i \in DOMAIN s
      BY <2>1
    <3> QED
      BY <1>1, <2>1, <3>1 DEF Without
  <2>2. CASE ~(i <= Len(s))
    <3>1. i - Len(s) \in DOMAIN t
      BY <2>2
    <3> QED
      BY <1>1, <2>2, <3>1 DEF Without
  <2> QED
    BY <2>1, <2>2
<1>3. DOMAIN u = 1 .. Len(s) + Len(t)
  BY <1>1
<1> QED
  BY <1>2, <1>3 DEF Without, u

-----------------------------------------------------------------------------
(* Endpoints, printed and parsed.                                          *)

\* A byte in front of the rest, again.
JoinsOn(d, c, r, e) == (Behind(d, c, r) \o <<c>>) \o e = Behind(d, c, Behind(r, c, e))

\* The rest may have a rest.
LEMMA BehindJoins ==
  ASSUME NEW d \in Seq(Int), NEW c \in Int, NEW r \in Seq(Int), NEW e \in Seq(Int)
  PROVE  JoinsOn(d, c, r, e)
<1> DEFINE b == <<c>>
           s == d \o b
<1>1. b \in Seq(Int)
  OBVIOUS
<1> HIDE DEF b
<1>2. s \in Seq(Int)
  BY <1>1
<1>3. s \o r = Behind(d, c, r)
  <2>1. PutBetween(d, c, r)
    BY ChainedIs
  <2> QED
    BY <2>1 DEF PutBetween, b
<1> HIDE DEF s
<1>4. ((s \o r) \o b) \o e = s \o Behind(r, c, e)
  <2>1. Chained(s, r, c, e)
    BY <1>2, ChainedIs
  <2> QED
    BY <2>1 DEF Chained, b
<1> DEFINE w == Behind(r, c, e)
<1>5. w \in Seq(Int)
  <2>1. PutBetween(r, c, e)
    BY ChainedIs
  <2> QED
    BY <2>1 DEF PutBetween
<1> HIDE DEF w
<1>6. s \o w = Behind(d, c, w)
  <2>1. PutBetween(d, c, w)
    BY <1>5, ChainedIs
  <2> QED
    BY <2>1 DEF PutBetween, s, b
<1> QED
  BY <1>3, <1>4, <1>6 DEF JoinsOn, w, b

\* What operator<< puts between its five numbers.
Joined(a, b, d, e, f) ==
  a \o Dot \o b \o Dot \o d \o Dot \o e \o Colon \o f
    = Behind(Behind(a, 46, Behind(b, 46, Behind(d, 46, e))), 58, f)

\* It is the address, a colon and the port, however it is put together.
LEMMA JoinedIs ==
  ASSUME NEW a \in Seq(Int), NEW b \in Seq(Int), NEW d \in Seq(Int), NEW e \in Seq(Int),
         NEW f \in Seq(Int)
  PROVE  Joined(a, b, d, e, f)
<1>1. 46 \in Int /\ 58 \in Int
  OBVIOUS
<1> DEFINE t1 == (a \o Dot) \o b
           t2 == (t1 \o Dot) \o d
           t3 == (t2 \o Dot) \o e
           t4 == (t3 \o Colon) \o f
           bd == Behind(b, 46, d)
           de == Behind(d, 46, e)
<1>2. t1 = Behind(a, 46, b) /\ t1 \in Seq(Int) /\ bd \in Seq(Int) /\ de \in Seq(Int)
  <2>1. PutBetween(a, 46, b) /\ PutBetween(b, 46, d) /\ PutBetween(d, 46, e)
    BY <1>1, ChainedIs
  <2> QED
    BY <2>1 DEF PutBetween, Dot
<1> HIDE DEF t1
<1>3. t2 = Behind(a, 46, bd) /\ t2 \in Seq(Int)
  <2>1. JoinsOn(a, 46, b, d)
    BY <1>1, BehindJoins
  <2>2. PutBetween(a, 46, bd)
    <3> HIDE DEF bd
    <3> QED
      BY <1>1, <1>2, ChainedIs
  <2> QED
    BY <1>2, <2>1, <2>2 DEF PutBetween, JoinsOn, Dot
<1> HIDE DEF t2
<1>4. t3 = Behind(a, 46, Behind(bd, 46, e))
  <2>1. JoinsOn(a, 46, bd, e)
    <3> HIDE DEF bd
    <3> QED
      BY <1>1, <1>2, BehindJoins
  <2> QED
    BY <1>3, <2>1 DEF JoinsOn, Dot
<1>5. Behind(bd, 46, e) = Behind(b, 46, de) /\ Behind(bd, 46, e) \in Seq(Int)
  <2>1. PutBetween(bd, 46, e)
    <3> HIDE DEF bd
    <3> QED
      BY <1>1, <1>2, ChainedIs
  <2>2. JoinsOn(b, 46, d, e)
    BY <1>1, BehindJoins
  <2> QED
    BY <2>1, <2>2 DEF PutBetween, JoinsOn
<1> HIDE DEF t3, bd, de
<1>6. t3 \in Seq(Int)
  <2> DEFINE w == Behind(bd, 46, e)
  <2>1. w \in Seq(Int)
    BY <1>5
  <2> HIDE DEF w
  <2>2. PutBetween(a, 46, w)
    BY <1>1, <2>1, ChainedIs
  <2> QED
    BY <1>4, <2>2 DEF PutBetween, w
<1>7. t4 = Behind(t3, 58, f)
  <2>1. PutBetween(t3, 58, f)
    BY <1>1, <1>6, ChainedIs
  <2> QED
    BY <2>1 DEF PutBetween, Colon
<1>8. t4 = Behind(Behind(a, 46, Behind(b, 46, de)), 58, f)
  BY <1>4, <1>5, <1>7
<1> QED
  BY <1>8 DEF Joined, t1, t2, t3, de

\* A printed number has neither a dot nor a colon in it.
LEMMA DecimalIsClear ==
  ASSUME NEW n \in Nat
  PROVE  /\ Decimal(n) \in Seq(Int)
         /\ Without(Decimal(n), 46) /\ Without(Decimal(n), 58)
<1> DEFINE s == Decimal(n)
<1>1. s \in Seq(Int) /\ \A i \in DOMAIN s : IsDigit(s[i], 10)
  BY DecimalIs
<1> HIDE DEF s
<1>2. ASSUME NEW i \in DOMAIN s
      PROVE  s[i] # 46 /\ s[i] # 58
  <2>1. IsDigit(s[i], 10) /\ s[i] \in Int
    BY <1>1
  <2> QED
    BY <2>1 DEF IsDigit
<1> QED
  BY <1>1, <1>2 DEF Without, s

\* A dot between texts without a colon.
LEMMA BehindIsClear ==
  ASSUME NEW d \in Seq(Int), NEW r \in Seq(Int), Without(d, 58), Without(r, 58)
  PROVE  Behind(d, 46, r) \in Seq(Int) /\ Without(Behind(d, 46, r), 58)
<1> DEFINE b == <<46>>
           u == b \o r
<1>1. b \in Seq(Int) /\ Without(b, 58)
  BY DEF Without
<1> HIDE DEF b
<1>2. u \in Seq(Int) /\ Without(u, 58)
  BY <1>1, WithoutConcat
<1> HIDE DEF u
<1>3. d \o u \in Seq(Int) /\ Without(d \o u, 58)
  BY <1>2, WithoutConcat
<1> QED
  BY <1>3 DEF Behind, u, b

\* The words of four numbers, each from a set.
Addresses(A, B, C, D) == {AddressOf(<<a, b, c, d>>) : a \in A, b \in B, c \in C, d \in D}

\* parse_addr() of four printed octets gives their word.
LEMMA AddressParsed ==
  ASSUME NEW o \in [1 .. 4 -> 0 .. Octet - 1]
  PROVE  ParseAddr(Behind(Decimal(o[1]), 46, Behind(Decimal(o[2]), 46,
                     Behind(Decimal(o[3]), 46, Decimal(o[4])))))
           = {AddressOf(o)}
<1> DEFINE d == Decimal(o[1])
           e == Decimal(o[2])
           f == Decimal(o[3])
           g == Decimal(o[4])
           A == Behind(d, 46, Behind(e, 46, Behind(f, 46, g)))
           parts == StaticSplit(A, <<46>>, 4)
<1>1. /\ o[1] \in 0 .. Octet - 1 /\ o[2] \in 0 .. Octet - 1
      /\ o[3] \in 0 .. Octet - 1 /\ o[4] \in 0 .. Octet - 1
  OBVIOUS
<1>2. \A n \in 0 .. Octet - 1 : n \in Nat /\ n <= IntMax
  BY AddressAssumption, IntAssumption
<1>3. /\ d \in Seq(Int) /\ Without(d, 46) /\ e \in Seq(Int) /\ Without(e, 46)
      /\ f \in Seq(Int) /\ Without(f, 46) /\ g \in Seq(Int) /\ Without(g, 46)
  BY <1>1, <1>2, DecimalIsClear
<1>4. /\ ParseIntIn(d, 10) = {o[1]} /\ ParseIntIn(e, 10) = {o[2]}
      /\ ParseIntIn(f, 10) = {o[3]} /\ ParseIntIn(g, 10) = {o[4]}
  BY <1>1, <1>2, PrintedIsParsed
<1> HIDE DEF d, e, f, g
<1>5. parts # Throw /\ parts[1] = d /\ parts[2] = e /\ parts[3] = f /\ parts[4] = g
  <2>1. 46 \in Int
    OBVIOUS
  <2>2. SplitsInFour(d, 46, e, f, g)
    BY <1>3, <2>1, SplitInFour
  <2> QED
    BY <2>2 DEF SplitsInFour
<1> HIDE DEF parts
<1>6. Addresses({o[1]}, {o[2]}, {o[3]}, {o[4]}) = {AddressOf(<<o[1], o[2], o[3], o[4]>>)}
  BY DEF Addresses
<1>7. AddressOf(<<o[1], o[2], o[3], o[4]>>) = AddressOf(o)
  BY DEF AddressOf
<1>8. ParseAddr(A) = Addresses(ParseIntIn(parts[1], 10), ParseIntIn(parts[2], 10),
                               ParseIntIn(parts[3], 10), ParseIntIn(parts[4], 10))
  <2> DEFINE Q(ps) == IF ps = Throw THEN {}
                      ELSE Addresses(ParseIntIn(ps[1], 10), ParseIntIn(ps[2], 10),
                                     ParseIntIn(ps[3], 10), ParseIntIn(ps[4], 10))
  <2> HIDE DEF A
  <2>1. ParseAddr(A) = Q(StaticSplit(A, Dot, 4))
    BY DEF ParseAddr, Addresses
  <2>2. StaticSplit(A, Dot, 4) = parts /\ parts # Throw
    BY <1>5 DEF parts, Dot
  <2> QED
    BY <2>1, <2>2
<1>9. /\ ParseIntIn(parts[1], 10) = {o[1]} /\ ParseIntIn(parts[2], 10) = {o[2]}
      /\ ParseIntIn(parts[3], 10) = {o[3]} /\ ParseIntIn(parts[4], 10) = {o[4]}
  BY <1>4, <1>5
<1>10. ParseAddr(A) = {AddressOf(o)}
  <2> HIDE DEF A
  <2> QED
    BY <1>6, <1>7, <1>8, <1>9
<1> QED
  BY <1>10 DEF d, e, f, g

\* The endpoint of four octets and a port.
Endpoint(o, port) == [address |-> AddressOf(o), port |-> port]

\* What operator<< prints of an endpoint, parse_ipv4() reads back, whatever the
\* octets and the port are.
THEOREM EndpointComesBack ==
  ASSUME NEW o \in [1 .. 4 -> 0 .. Octet - 1], NEW port \in 0 .. PortWord - 1
  PROVE  ParseIPv4(Printed(Endpoint(o, port))) = {Endpoint(o, port)}
<1> DEFINE E == Endpoint(o, port)
           d == Decimal(o[1])
           e == Decimal(o[2])
           f == Decimal(o[3])
           g == Decimal(o[4])
           h == Decimal(port)
           A == Behind(d, 46, Behind(e, 46, Behind(f, 46, g)))
           parts == StaticSplit(Behind(A, 58, h), <<58>>, 2)
<1>1. /\ o[1] \in Nat /\ o[2] \in Nat /\ o[3] \in Nat /\ o[4] \in Nat /\ port \in Nat
      /\ port <= IntMax /\ port % PortWord = port
  <2>1. /\ o[1] \in 0 .. Octet - 1 /\ o[2] \in 0 .. Octet - 1
        /\ o[3] \in 0 .. Octet - 1 /\ o[4] \in 0 .. Octet - 1
    OBVIOUS
  <2>2. port % PortWord = port
    BY AddressAssumption
  <2> QED
    BY <2>1, <2>2, AddressAssumption, IntAssumption
<1>2. /\ d \in Seq(Int) /\ Without(d, 58) /\ e \in Seq(Int) /\ Without(e, 58)
      /\ f \in Seq(Int) /\ Without(f, 58) /\ g \in Seq(Int) /\ Without(g, 58)
      /\ h \in Seq(Int) /\ Without(h, 58)
  BY <1>1, DecimalIsClear
<1>3. /\ Part(E, 0) = o[1] /\ Part(E, 1) = o[2] /\ Part(E, 2) = o[3] /\ Part(E, 3) = o[4]
      /\ E.port = port
  BY OctetsBack DEF Endpoint
<1>4. ParseAddr(A) = {AddressOf(o)}
  BY AddressParsed
<1>5. ParseIntIn(h, 10) = {port}
  BY <1>1, PrintedIsParsed
<1>6. Printed(E) = d \o Dot \o e \o Dot \o f \o Dot \o g \o Colon \o h
  BY <1>3 DEF Printed
<1> HIDE DEF d, e, f, g, h, E
<1>7. Printed(E) = Behind(A, 58, h)
  <2>1. Joined(d, e, f, g, h)
    BY <1>2, JoinedIs
  <2> QED
    BY <1>6, <2>1 DEF Joined
<1>8. A \in Seq(Int) /\ Without(A, 58)
  <2> DEFINE r == Behind(f, 46, g)
             s == Behind(e, 46, r)
  <2>1. r \in Seq(Int) /\ Without(r, 58)
    BY <1>2, BehindIsClear
  <2> HIDE DEF r
  <2>2. s \in Seq(Int) /\ Without(s, 58)
    BY <1>2, <2>1, BehindIsClear
  <2> HIDE DEF s
  <2>3. Behind(d, 46, s) \in Seq(Int) /\ Without(Behind(d, 46, s), 58)
    BY <1>2, <2>2, BehindIsClear
  <2> QED
    BY <2>3 DEF s, r
<1> HIDE DEF A
<1>9. parts # Throw /\ parts[1] = A /\ parts[2] = h
  <2>1. 58 \in Int
    OBVIOUS
  <2>2. SplitsInTwo(A, 58, h)
    BY <1>2, <1>8, <2>1, SplitInTwo
  <2> QED
    BY <2>2 DEF SplitsInTwo
<1> HIDE DEF parts
<1>10. ParseIPv4(Printed(E)) = {[address |-> a, port |-> p % PortWord] :
          a \in ParseAddr(parts[1]), p \in ParseIntIn(parts[2], 10)}
  <2>1. StaticSplit(Behind(A, 58, h), Colon, 2) = parts
    BY DEF parts, Colon
  <2> QED
    BY <1>7, <1>9, <2>1 DEF ParseIPv4
<1>11. {[address |-> a, port |-> p % PortWord] : a \in {AddressOf(o)}, p \in {port}}
         = {[address |-> AddressOf(o), port |-> port % PortWord]}
  OBVIOUS
<1>12. [address |-> AddressOf(o), port |-> port % PortWord] = E
  BY <1>1 DEF E, Endpoint
<1>13. ParseAddr(parts[1]) = {AddressOf(o)} /\ ParseIntIn(parts[2], 10) = {port}
  BY <1>4, <1>5, <1>9
<1>14. ParseIPv4(Printed(E)) = {E}
  BY <1>10, <1>11, <1>12, <1>13
<1> QED
  BY <1>14 DEF E

\* Every text the builder reaches is parsed to what it means as a numeral, in
\* both bases and at the ends of int; four bytes as an endpoint come back.
THEOREM ParsesAlwaysExactly == Spec => []ParsesExactly
<1>1. ASSUME BInv PROVE ParsesExactly
  <2>1. text \in Seq(Int)
    BY <1>1 DEF BInv, Reads
  <2>2. ASSUME NEW base \in {10, 16}
        PROVE  ParseIntIn(text, base) = Meaning(text, base)
    BY <2>1, ParseIntExact
  <2>3. ASSUME Len(text) = 4
        PROVE  LET e == [address |-> AddressOf([k \in 1 .. 4 |-> text[k] % Octet]),
                         port |-> text[1] % PortWord]
               IN ParseIPv4(Printed(e)) = {e}
    <3> DEFINE o == [k \in 1 .. 4 |-> text[k] % Octet]
               port == text[1] % PortWord
    <3>1. ASSUME NEW k \in 1 .. 4
          PROVE  text[k] \in Int
      <4>1. k \in 1 .. Len(text)
        BY <2>3
      <4> QED
        BY <2>1, <4>1
    <3>2. ASSUME NEW k \in 1 .. 4 PROVE text[k] % Octet \in 0 .. Octet - 1
      BY <3>1, AddressAssumption
    <3>3. o \in [1 .. 4 -> 0 .. Octet - 1]
      BY <3>2
    <3>4. port \in 0 .. PortWord - 1
      BY <3>1, AddressAssumption
    <3> HIDE DEF o, port
    <3>5. ParseIPv4(Printed(Endpoint(o, port))) = {Endpoint(o, port)}
      BY <3>3, <3>4, EndpointComesBack
    <3> QED
      BY <3>5, Zenon DEF Endpoint, o, port
  <2> QED
    BY <2>2, <2>3 DEF ParsesExactly
<1>2. BInv => ParsesExactly
  BY <1>1
<1> QED
  BY <1>2, AlwaysReads, PTL

-----------------------------------------------------------------------------
(* Base64.                                                                 *)

\* The text is one of bytes, as the client's mestrings are.
BytesOnly == text \in Seq(Octets)

\* Each action keeps it so.
LEMMA StepKeepsBytes ==
  ASSUME BInv, BytesOnly, [Next]_vars
  PROVE  BytesOnly'
<1>1. text \in Seq(Octets) /\ Len(text) \in Nat /\ text \in Seq(Int)
      /\ cat \in Seq(Seq(Int)) /\ Full(cat) /\ FlattenSeq(cat) = text
  BY LenProperties DEF BytesOnly, BInv, Reads
<1>2. CASE AppendPiece
  <2>1. PICK p \in Pieces : text' = text \o p
    BY <1>2 DEF AppendPiece
  <2>2. p \in Seq(Octets)
    BY ClientTexts
  <2> QED
    BY <1>1, <2>1, <2>2, ConcatProperties DEF BytesOnly
<1>3. CASE AppendText
  <2>1. PICK p \in Pieces, q \in Pieces : text' = text \o p \o q
    BY <1>3 DEF AppendText
  <2>2. p \in Seq(Octets) /\ q \in Seq(Octets)
    BY ClientTexts
  <2>3. text \o p \in Seq(Octets)
    BY <1>1, <2>2, ConcatProperties
  <2>4. (text \o p) \o q \in Seq(Octets)
    BY <2>2, <2>3, ConcatProperties
  <2> QED
    BY <2>1, <2>4 DEF BytesOnly
<1>4. CASE Truncate
  <2>1. PICK n \in -MaxLen .. MaxLen :
          /\ cat # <<>> /\ CanTruncate(cat, n)
          /\ text' = SubSeq(text, 1, IF n < 0 THEN Len(text) + n ELSE n)
    BY <1>4 DEF Truncate
  <2>2. Size(cat) = Len(text) /\ n \in Int
    BY <1>1, <2>1, ClientTexts, SizeIs
  <2>3. TruncatedSize(cat, n) = (IF n < 0 THEN Len(text) + n ELSE n)
        /\ TruncatedSize(cat, n) \in 0 .. Len(text)
    BY <2>1, <2>2 DEF CanTruncate, TruncatedSize
  <2>4. text' = SubSeq(text, 1, TruncatedSize(cat, n))
    BY <2>1, <2>3
  <2> QED
    BY <1>1, <2>3, <2>4, PartIsSeq DEF BytesOnly
<1>5. CASE TakeSubstr
  <2>1. PICK i \in 1 .. Len(text), j \in 1 .. Len(text) + 1 : text' = SubSeq(text, i, j - 1)
    BY <1>5 DEF TakeSubstr
  <2>2. i \in Int /\ j - 1 \in Int /\ i >= 1 /\ j - 1 <= Len(text)
    BY <1>1, <2>1
  <2> QED
    BY <1>1, <2>1, <2>2, PartIsSeq DEF BytesOnly
<1>6. ASSUME NEW k \in {1, 2}, TakeSplit(k) PROVE BytesOnly'
  <2> DEFINE at == FindIndex(text, Separator)
  <2>1. /\ at # -1
        /\ text' = IF k = 1 THEN SubSeq(text, 1, at) ELSE SubSeq(text, at + 2, Len(text))
    BY <1>6 DEF TakeSplit
  <2>2. at \in -1 .. Len(text)
    BY <1>1, ClientTexts, FindIndexIn
  <2> HIDE DEF at
  <2>3. at \in Int /\ at + 2 \in Int /\ at + 2 >= 1 /\ at <= Len(text) /\ 1 >= 1
    BY <1>1, <2>1, <2>2
  <2>4. SubSeq(text, 1, at) \in Seq(Octets) /\ SubSeq(text, at + 2, Len(text)) \in Seq(Octets)
    BY <1>1, <2>3, PartIsSeq
  <2> QED
    BY <2>1, <2>4 DEF BytesOnly
<1>7. CASE Strip
  <2>1. PICK k \in DOMAIN text : text' = SubSeq(text, k, Len(text))
    BY <1>7 DEF Strip
  <2>2. k \in Int /\ k >= 1 /\ Len(text) <= Len(text)
    BY <1>1, <2>1
  <2> QED
    BY <1>1, <2>1, <2>2, PartIsSeq DEF BytesOnly
<1>8. CASE UNCHANGED vars
  BY <1>8 DEF BytesOnly, vars
<1>9. TakeSplit(1) \/ TakeSplit(2) => BytesOnly'
  <2>1. 1 \in {1, 2} /\ 2 \in {1, 2}
    OBVIOUS
  <2> QED
    BY <1>6, <2>1
<1> QED
  BY <1>2, <1>3, <1>4, <1>5, <1>7, <1>8, <1>9 DEF Next

\* Every text the builder reaches is encoded to the digits of base64, as many
\* as size() says, with the padding or without, and comes back from both, also
\* with a blank behind each of them.
THEOREM EncodesAlwaysExactly == Spec => []Base64Exact
<1>1. Init => BytesOnly
  BY EmptySeq DEF Init, BytesOnly
<1>2. ASSUME BytesOnly PROVE Base64Exact
  <2> DEFINE digits == Encode(text, FALSE)
             padded == Encode(text, TRUE)
             spaced == FlattenSeq(Spaced(padded))
  <2>1. text \in Seq(Octets) /\ FALSE \in BOOLEAN /\ TRUE \in BOOLEAN
    BY <1>2 DEF BytesOnly
  <2>2. /\ digits = Digits64(text) /\ padded = digits \o Padding(text)
        /\ Len(digits) = EncodedSize(Len(text), FALSE)
        /\ Len(padded) = EncodedSize(Len(text), TRUE)
    BY <2>1, EncodeExact
  <2>3. Decode(digits) = text /\ Decode(padded) = text /\ Decode(spaced) = text
    BY <2>1, RoundTrips
  <2>4. spaced = FlattenSeq([k \in DOMAIN padded |-> <<padded[k], 32>>])
    BY DEF Spaced
  <2> HIDE DEF digits, padded, spaced
  <2> QED
    BY <2>2, <2>3, <2>4, Zenon DEF Base64Exact, digits, padded
<1>3. BytesOnly => Base64Exact
  BY <1>2
<1>4. BInv /\ BytesOnly /\ [Next]_vars => BytesOnly'
  BY StepKeepsBytes
<1> QED
  BY <1>1, <1>3, <1>4, AlwaysReads, PTL DEF Spec
=============================================================================
