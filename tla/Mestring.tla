------------------------------ MODULE Mestring ------------------------------
(***************************************************************************)
(* The strings of src/modules/mestring: a mestring is a view of bytes, a   *)
(* mestring_cat a vector of them that reads as one text.                   *)
(*                                                                         *)
(* A byte is its code.  begin() of a mestring_cat dereferences its first   *)
(* piece, so what calls it is defined for a cat with pieces only.          *)
(***************************************************************************)
EXTENDS Integers, Sequences, SequencesExt, FiniteSetsExt

Null == -1              \* iit_ of an iterator at the end
Throw == <<>>           \* an exception instead of parts
PastEnd == <<Null>>     \* a read through begin() of a cat without pieces

\* mestring == const char* stops at the end of the mestring.
EqualsLiteral(m, lit) == IsPrefix(m, lit)

-----------------------------------------------------------------------------
(* Building.                                                               *)

\* Slip: empty pieces are kept.
AddMestringAlways(cat, m) == Append(cat, m)

AddMestring(cat, m) == IF m = <<>> THEN cat ELSE Append(cat, m)

AddCat(cat, other) == FoldLeft(AddMestring, cat, other)

Size(cat) == FoldLeft(LAMBDA n, m : n + Len(m), 0, cat)

\* The text before piece k is this long.
Before(cat, k) == Size(SubSeq(cat, 1, k - 1))

\* truncated(): a size below zero counts from the end (and so -0 is empty);
\* it throws unless the size is in the text.
TruncatedSize(cat, size) == IF size < 0 THEN Size(cat) + size ELSE size
CanTruncate(cat, size) == TruncatedSize(cat, size) \in 0 .. Size(cat)

Truncated(cat, size) ==
  LET n == TruncatedSize(cat, size)
      k == Min({i \in DOMAIN cat : Before(cat, i) + Len(cat[i]) >= n})
  IN AddMestring(SubSeq(cat, 1, k - 1),
                 SubSeq(cat[k], 1, n - Before(cat, k)))

-----------------------------------------------------------------------------
(* Iterating: a piece and an offset in it.                                 *)

Begin(cat) == [it |-> 1, iit |-> 0]
End(cat) == [it |-> Len(cat) + 1, iit |-> Null]
Star(cat, i) == cat[i.it][i.iit + 1]

SameIterator(i, j) == IF i.iit = Null THEN j.iit = Null ELSE i = j

\* Slip: the end is the end of a piece.
IncrementInPiece(cat, i) ==
  IF i.iit + 1 < Len(cat[i.it]) THEN [i EXCEPT !.iit = @ + 1] ELSE End(cat)

\* operator++ goes on with the next piece that has a byte.
Increment(cat, i) ==
  LET next == {k \in (i.it + 1) .. Len(cat) : cat[k] # <<>>} IN
  IF i.iit = Null THEN i
  ELSE IF i.iit + 1 < Len(cat[i.it]) THEN [i EXCEPT !.iit = @ + 1]
  ELSE IF next = {} THEN End(cat) ELSE [it |-> Min(next), iit |-> 0]

\* Where an iterator of a cat can be: at a byte, at begin() or at end().
Iterators(cat) ==
  {Begin(cat), End(cat)} \cup
  UNION {{[it |-> k, iit |-> n] : n \in 0 .. Len(cat[k]) - 1} : k \in DOMAIN cat}

\* The iterators a loop from begin() to end() goes through.
Walk(cat) ==
  LET from[i \in Iterators(cat)] ==
        IF SameIterator(i, End(cat)) THEN <<>>
        ELSE <<i>> \o from[Increment(cat, i)]
  IN from[Begin(cat)]

Bytes(cat) == LET w == Walk(cat) IN [k \in DOMAIN w |-> Star(cat, w[k])]

-----------------------------------------------------------------------------
(* find_it() and find_index(): where a text holds m first.  On a mestring  *)
(* the text is the mestring; on a cat it is what its iterators go through. *)

Hits(text, m) ==
  {k \in 1 .. Len(text) : IsPrefix(m, SubSeq(text, k, Len(text)))}

FindIndex(text, m) ==
  IF m = <<>> THEN 0
  ELSE IF Hits(text, m) = {} THEN -1 ELSE Min(Hits(text, m)) - 1

FindIt(cat, m) ==
  IF m = <<>> THEN Begin(cat)
  ELSE LET k == FindIndex(Bytes(cat), m)
       IN IF k = -1 THEN End(cat) ELSE Walk(cat)[k + 1]

\* operator[] looks for the piece that holds byte n (and throws past the end).
At(cat, n) ==
  LET k == Min({i \in DOMAIN cat : n < Before(cat, i) + Len(cat[i])})
  IN cat[k][n - Before(cat, k) + 1]

\* mestring_cat == mestring.
Equals(cat, m) == Size(cat) = Len(m) /\ Bytes(cat) = m

\* substr(): whole pieces between the pieces of the two iterators.
Substr(cat, s, e) ==
  LET Part(k, from, to) == SubSeq(cat[k], from + 1, to) IN
  IF s.it = e.it
  THEN IF s.iit = Null THEN <<>> ELSE AddMestring(<<>>, Part(s.it, s.iit, e.iit))
  ELSE LET head == AddMestring(<<>>, Part(s.it, s.iit, Len(cat[s.it])))
           body == AddCat(head, SubSeq(cat, s.it + 1, e.it - 1))
       IN IF e.iit = Null THEN body ELSE AddMestring(body, Part(e.it, 0, e.iit))

\* static_split_first<2>().  The second part is searched as well, as it is for
\* static_split<2>(), and that needs begin() of it.
SplitFirst(cat, sep) ==
  LET i == FindIt(cat, sep)
      after == FoldLeft(LAMBDA j, b : Increment(cat, j), i, sep)
      second == Substr(cat, after, End(cat))
  IN IF SameIterator(i, End(cat)) THEN Throw
     ELSE IF second = <<>> THEN PastEnd
     ELSE <<Substr(cat, Begin(cat), i), second>>

\* lstrip() of a cat with something to keep (else it reads past the end).
Blank == {32, 9}
LStrip(cat) ==
  LET w == Walk(cat)
      k == Min({j \in DOMAIN w : Star(cat, w[j]) \notin Blank})
  IN Substr(cat, w[k], End(cat))

\* static_split<n>() of a mestring: n parts and n - 1 separators.
StaticSplit(text, sep, n) ==
  LET split[k \in 1 .. n] ==
        [t \in Seq(Int) |->
           LET i == FindIndex(t, sep) IN
           IF k = 1 THEN IF i # -1 THEN Throw ELSE <<t>>
           ELSE IF i = -1 THEN Throw
           ELSE LET rest == split[k - 1][SubSeq(t, i + Len(sep) + 1, Len(t))]
                IN IF rest = Throw THEN Throw ELSE <<SubSeq(t, 1, i)>> \o rest]
  IN split[n][text]
=============================================================================
