------------------------------- MODULE Base64 -------------------------------
(***************************************************************************)
(* The iterators of src/modules/base64/base64.hpp, which encode and decode *)
(* a text as it is read.  A text is a sequence of bytes; where the code    *)
(* keeps an iterator, here is the number of bytes before it.               *)
(***************************************************************************)
EXTENDS Integers, Sequences, FiniteSets

Pad == 61

\* key: what stands for six bits; number 64 stands for none.
Key(i) ==
  CASE i \in 0 .. 25 -> 65 + i
    [] i \in 26 .. 51 -> 97 + i - 26
    [] i \in 52 .. 61 -> 48 + i - 52
    [] i = 62 -> 45
    [] i = 63 -> 95
    [] i = 64 -> Pad

NoDigit == -1   \* a byte to be skipped
AtEnd == -2     \* padding, or nothing left

\* rkey as make_mapping() fills it: both alphabets are read.  The code indexes
\* it with a char, so only what it says of a byte below 128 is what the code
\* does: from there on a char may be negative, and no index of the array.
RKey(ch) ==
  CASE ch \in 65 .. 90 -> ch - 65
    [] ch \in 97 .. 122 -> ch - 97 + 26
    [] ch \in 48 .. 57 -> ch - 48 + 52
    [] ch \in {45, 43} -> 62
    [] ch \in {95, 47} -> 63
    [] ch = Pad -> AtEnd
    [] OTHER -> NoDigit

-----------------------------------------------------------------------------
(* base64_iterator: bits is bits_remaining_ of the byte at it.             *)

Start == [it |-> 0, bits |-> 8]

\* operator++
Advance(n, i) ==
  IF i.bits > 6 THEN [i EXCEPT !.bits = @ - 6]
  ELSE [it |-> IF i.it = n THEN n ELSE i.it + 1, bits |-> 8 - (6 - i.bits)]

\* operator== with the end of n bytes.
Ended(n, eqs, i) == i.it = n /\ (eqs => i.bits = 8)

\* Slip: the bits of the byte before are not moved up.
SextetUnshifted(text, i) ==
  LET byte == text[i.it + 1]
      num == 6 - i.bits
  IN IF i.it = Len(text) THEN 64
     ELSE IF i.bits = 8 THEN byte \div 4
     ELSE IF i.bits = 6 THEN byte % 64
     ELSE (byte % 2^i.bits) + (IF i.it + 1 = Len(text) THEN 0
                               ELSE text[i.it + 2] \div 2^(8 - num))

\* get_bits(6)
Sextet(text, i) ==
  LET byte == text[i.it + 1]
      num == 6 - i.bits
  IN IF i.it = Len(text) THEN 64
     ELSE IF i.bits = 8 THEN byte \div 4
     ELSE IF i.bits = 6 THEN byte % 64
     ELSE (byte % 2^i.bits) * 2^num
            + (IF i.it + 1 = Len(text) THEN 0
               ELSE text[i.it + 2] \div 2^(8 - num))

Encode(text, eqs) ==
  LET from[i \in [it : 0 .. Len(text), bits : {2, 4, 6, 8}]] ==
        IF Ended(Len(text), eqs, i) THEN <<>>
        ELSE <<Key(Sextet(text, i))>> \o from[Advance(Len(text), i)]
  IN from[Start]

\* base64_encoded::size()
EncodedSize(n, eqs) ==
  LET digits == 1 + (n * 8 - 1) \div 6
      rest == IF (n * 8) % 6 = 0 THEN 6 ELSE (n * 8) % 6
  IN IF n = 0 THEN 0 ELSE IF eqs THEN digits + (6 - rest) \div 2 ELSE digits

-----------------------------------------------------------------------------
(* base64_riterator: bits is bits_in_, the number of bits in extra.        *)

\* get_in() stops at the first byte that is not skipped.
Found(text, it) ==
  LET digits == {k \in (it + 1) .. Len(text) : RKey(text[k]) # NoDigit}
  IN IF digits = {} THEN Len(text) + 1
     ELSE CHOOSE k \in digits : \A j \in digits : k <= j

GetIn(text, it) ==
  IF Found(text, it) > Len(text) THEN AtEnd ELSE RKey(text[Found(text, it)])

\* What set_get_char() makes of the bits left over and of a digit.
Byte(left, bits, digit) == left * 2^(8 - bits) + digit \div 2^(6 - (8 - bits))
Extra(bits, digit) == digit % 2^(6 - (8 - bits))

\* set_get_char(), again and again: it takes a digit when nothing is left
\* over, and one to fill the byte up.
Decode(text) ==
  LET from[i \in [it : 0 .. Len(text) + 1, bits : {0, 2, 4}, extra : 0 .. 15]] ==
        LET first == GetIn(text, i.it)
            it == IF i.bits = 0 THEN Found(text, i.it) ELSE i.it
            bits == IF i.bits = 0 THEN 6 ELSE i.bits
            left == IF i.bits = 0 THEN first ELSE i.extra
            digit == GetIn(text, it)
        IN IF left = AtEnd \/ digit = AtEnd THEN <<>>
           ELSE <<Byte(left, bits, digit)>>
                  \o from[[it |-> Found(text, it), bits |-> 6 - (8 - bits),
                           extra |-> Extra(bits, digit)]]
  IN from[[it |-> 0, bits |-> 0, extra |-> 0]]

-----------------------------------------------------------------------------
(* What base64 is: the k-th digit is the k-th group of six bits.           *)

Bit(text, b) ==
  IF b \div 8 >= Len(text) THEN 0
  ELSE (text[b \div 8 + 1] \div 2^(7 - (b % 8))) % 2

Group(text, k) ==
  32 * Bit(text, 6 * k) + 16 * Bit(text, 6 * k + 1) + 8 * Bit(text, 6 * k + 2)
    + 4 * Bit(text, 6 * k + 3) + 2 * Bit(text, 6 * k + 4) + Bit(text, 6 * k + 5)

Digits64(text) ==
  [k \in 1 .. (Len(text) * 8 + 5) \div 6 |-> Key(Group(text, k - 1))]

Padding(text) == [k \in 1 .. (3 - (Len(text) % 3)) % 3 |-> Pad]
=============================================================================
