---------------------------- MODULE TextBuilder -----------------------------
(***************************************************************************)
(* A client of mestring_cat: it builds, cuts, splits and strips a cat,     *)
(* beside the text that the cat should read as.                            *)
(***************************************************************************)
EXTENDS Address, Base64, Mmh3

CONSTANTS
  Pieces,   \* mestrings the client appends, the empty one among them: bytes
  MaxLen,   \* bound: bytes of the text
  Separator \* a one-byte mestring the client splits at

ASSUME BuilderAssumption ==
  /\ Pieces \subseteq Seq(0 .. 255) /\ MaxLen \in Nat
  /\ Separator \in Seq(0 .. 255) /\ Len(Separator) = 1

VARIABLES cat, text

vars == <<cat, text>>

Init == cat = <<>> /\ text = <<>>

AppendPiece ==
  \E p \in Pieces :
    /\ Len(text) + Len(p) <= MaxLen
    /\ cat' = AddMestring(cat, p) /\ text' = text \o p

AppendText ==
  \E p, q \in Pieces :
    /\ Len(text) + Len(p) + Len(q) <= MaxLen
    /\ cat' = AddCat(cat, <<p, q>>) /\ text' = text \o p \o q

Truncate ==
  /\ cat # <<>>
  /\ \E n \in -MaxLen .. MaxLen :
       /\ CanTruncate(cat, n)
       /\ cat' = Truncated(cat, n)
       /\ text' = SubSeq(text, 1, IF n < 0 THEN Len(text) + n ELSE n)

TakeSubstr ==
  /\ cat # <<>>
  /\ \E i \in 1 .. Len(text), j \in 1 .. Len(text) + 1 :
       LET stops == Walk(cat) \o <<End(cat)>> IN
       /\ i <= j
       /\ cat' = Substr(cat, stops[i], stops[j])
       /\ text' = SubSeq(text, i, j - 1)

\* A call that is defined: the text has the separator, and not as its last byte.
TakeSplit(k) ==
  LET at == FindIndex(text, Separator) IN
  /\ cat # <<>> /\ at # -1 /\ at + 1 < Len(text)
  /\ cat' = SplitFirst(cat, Separator)[k]
  /\ text' = IF k = 1 THEN SubSeq(text, 1, at) ELSE SubSeq(text, at + 2, Len(text))

Strip ==
  /\ \E k \in DOMAIN text : text[k] \notin Blank
  /\ cat' = LStrip(cat)
  /\ \E k \in DOMAIN text :
       /\ text' = SubSeq(text, k, Len(text))
       /\ text[k] \notin Blank
       /\ \A j \in 1 .. k - 1 : text[j] \in Blank

Next ==
  \/ AppendPiece \/ AppendText \/ Truncate \/ TakeSubstr
  \/ TakeSplit(1) \/ TakeSplit(2) \/ Strip

Spec == Init /\ [][Next]_vars

-----------------------------------------------------------------------------
(* However it was built, cut and split, a cat reads as the text its client *)
(* meant, and has no empty piece: operator++ and begin() of a cat with     *)
(* pieces land on a byte, and an empty text has no pieces.                 *)
CatIsText ==
  /\ FlattenSeq(cat) = text
  /\ \A k \in DOMAIN cat : cat[k] # <<>>

(* Looking into a cat gives what looking into the text gives, wherever the *)
(* pieces end: by iterating, by index, by comparing and by searching for a *)
(* needle that may lie across pieces.                                      *)
SearchIsExact ==
  cat # <<>> =>
    /\ Bytes(cat) = text
    /\ \A n \in 0 .. Len(text) - 1 : At(cat, n) = text[n + 1]
    /\ Size(cat) = Len(text)
    /\ \A p \in Pieces :
         LET i == FindIt(cat, p) IN
         /\ Equals(cat, p) <=> text = p
         /\ IF FindIndex(text, p) = -1 THEN i = End(cat)
            ELSE FlattenSeq(Substr(cat, Begin(cat), i))
                   = SubSeq(text, 1, FindIndex(text, p))

(* A text is parsed to what it means as a numeral, and is refused if it is *)
(* none or leaves the range of int, however close to its ends it is.  Four *)
(* bytes printed as an address and a port are read back as the same.       *)
ParsesExactly ==
  /\ \A base \in {10, 16} : ParseIntIn(text, base) = Meaning(text, base)
  /\ Len(text) = 4 =>
       LET e == [address |-> AddressOf([k \in 1 .. 4 |-> text[k] % Octet]),
                 port |-> text[1] % PortWord]
       IN ParseIPv4(Printed(e)) = {e}

(* A text is encoded to the digits of base64 with or without padding, as   *)
(* many as size() says, and comes back from either, also with other bytes  *)
(* in between.                                                             *)
Base64Exact ==
  LET digits == Encode(text, FALSE)
      padded == Encode(text, TRUE)
      spaced == FlattenSeq([k \in DOMAIN padded |-> <<padded[k], 32>>])
  IN /\ digits = Digits64(text) /\ padded = digits \o Padding(text)
     /\ Len(digits) = EncodedSize(Len(text), FALSE)
     /\ Len(padded) = EncodedSize(Len(text), TRUE)
     /\ \A code \in {digits, padded, spaced} : Decode(code) = text

(* Hashes combine to the same whatever their order, and those that are not *)
(* zero never to zero.                                                     *)
CombinesUnordered ==
  LET hashes == [k \in DOMAIN text |-> <<text[k] % Word, (text[k] \div 3) % Word>>]
      combined == UnorderedCombine(hashes)
  IN /\ \A order \in Bijection(DOMAIN text, DOMAIN text) :
          UnorderedCombine([k \in DOMAIN text |-> hashes[order[k]]]) = combined
     /\ \A i \in 1 .. 2 : combined[i] = 0 <=> \A k \in DOMAIN text : hashes[k][i] = 0
=============================================================================
