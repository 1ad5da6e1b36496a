------------------------------ MODULE ParseInt ------------------------------
(***************************************************************************)
(* parse_int of src/modules/mestring/mestring/parse.hpp: the value of a    *)
(* numeral, found without ever leaving the range of int.                   *)
(*                                                                         *)
(* A function that throws has the empty set as its result, and the set of  *)
(* its value otherwise.                                                    *)
(***************************************************************************)
EXTENDS Integers, Sequences, SequencesExt

CONSTANT IntMax   \* std::numeric_limits<int>::max()

ASSUME IntAssumption == IntMax \in Nat

IntMin == -IntMax - 1
IsInt(n) == n \in IntMin .. IntMax

Minus == 45

\* The value of a character, in the order of the code's tests.
Value(ch) ==
  IF ch \in 97 .. 122 THEN ch - 97 + 10
  ELSE IF ch \in 65 .. 90 THEN ch - 65 + 10
  ELSE ch - 48

\* Slip: no test before the addition.
UpUnchecked(r, val, base) ==
  IF val \in 0 .. base - 1 /\ r <= IntMax \div base THEN {r * base + val} ELSE {}

\* One more digit of a numeral.
Up(r, val, base) ==
  IF val \in 0 .. base - 1 /\ r <= IntMax \div base /\ r * base <= IntMax - val
  THEN {r * base + val} ELSE {}

\* One more digit after a minus.  C++ divides towards zero.
Down(r, val, base) ==
  IF val \in 0 .. base - 1 /\ r >= -((-IntMin) \div base) /\ r * base >= IntMin + val
  THEN {r * base - val} ELSE {}

Digits(Step(_, _, _), text, base) ==
  FoldLeft(LAMBDA found, ch : UNION {Step(r, Value(ch), base) : r \in found},
           {0}, text)

ParseIntIn(text, base) ==
  IF text = <<>> \/ text = <<Minus>> THEN {}
  ELSE IF text[1] = Minus THEN Digits(Down, Tail(text), base)
  ELSE Digits(Up, text, base)

-----------------------------------------------------------------------------
(* What a numeral means.                                                   *)

\* Base 16 takes ':' .. '?' for ten to fifteen, beside the letters.
IsDigit(ch, base) ==
  \/ ch \in 48 .. 57
  \/ base = 16 /\ ch \in (97 .. 102) \cup (65 .. 70) \cup (58 .. 63)

Magnitude(text, base) == FoldLeft(LAMBDA n, ch : n * base + Value(ch), 0, text)

Meaning(text, base) ==
  LET negative == text # <<>> /\ text[1] = Minus
      digits == IF negative THEN Tail(text) ELSE text
      value == IF negative THEN -Magnitude(digits, base) ELSE Magnitude(digits, base)
  IN IF digits # <<>> /\ (\A i \in DOMAIN digits : IsDigit(digits[i], base)) /\ IsInt(value)
     THEN {value} ELSE {}
===============================================================
