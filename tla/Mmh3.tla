-------------------------------- MODULE Mmh3 --------------------------------
(***************************************************************************)
(* Combining hashes in any order: unordered_combine_mmh3 of                *)
(* src/modules/hash/mmh3.hpp.  A hash is two words; the words themselves   *)
(* are MurmurHash's.                                                       *)
(***************************************************************************)
EXTENDS Mestring

CONSTANT Word   \* values of a word (2^64)

ASSUME WordAssumption == Word \in Nat \ {0}

Words == 0 .. Word - 1

\* Slip: the carry is lost.
CombineWordLosing(a, b) == (a + b) % Word

\* The carry out of a word comes back in at its other end.
CombineWord(a, b) ==
  LET sum == (a + b) % Word IN
  IF a + b >= Word THEN (sum + 1) % Word ELSE sum

UnorderedCombineWith(h, other) == [i \in 1 .. 2 |-> CombineWord(h[i], other[i])]

UnorderedCombine(hashes) == FoldLeft(UnorderedCombineWith, <<0, 0>>, hashes)
=============================================================================
