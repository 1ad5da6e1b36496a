---------------------------- MODULE Text_proofs -----------------------------
(***************************************************************************)
(* Proofs about ParseInt, Base64, Mmh3 and lists of texts: for texts of    *)
(* any length, any range of int and words of any size.                     *)
(***************************************************************************)
EXTENDS Address, Base64, Mmh3, SequenceTheorems, FiniteSetTheorems, TLAPS

-----------------------------------------------------------------------------
(* Induction, and what a fold over a sequence goes through.                *)

\* A set of numbers that is not empty has a least one: the intervals up to
\* its members are finite, and so well-founded.
LEMMA LeastNumber ==
  ASSUME NEW S \in SUBSET Nat, S # {}
  PROVE  \E m \in S : \A k \in S : m <= k
<1> DEFINE T == {0 .. k : k \in S}
<1>1. T \subseteq FiniteSubsetsOf(Nat) /\ T # {}
  <2>1. \A k \in S : IsFiniteSet(0 .. k) /\ 0 .. k \subseteq Nat
    BY FS_Interval
  <2> QED
    BY <2>1 DEF FiniteSubsetsOf
<1>2. PICK x \in T : \A y \in T : <<y, x>> \notin StrictSubsetOrdering(Nat)
  BY <1>1, FS_StrictSubsetOrderingWellFounded, WFMin
<1>3. PICK m \in S : x = 0 .. m
  OBVIOUS
<1>4. ASSUME NEW k \in S, k < m PROVE FALSE
  <2>1. 0 .. k \subseteq 0 .. m /\ m \in 0 .. m /\ m \notin 0 .. k
    BY <1>4
  <2>2. 0 .. k \in T
    OBVIOUS
  <2>3. 0 .. k \in SUBSET Nat /\ 0 .. m \in SUBSET Nat
    OBVIOUS
  <2> QED
    BY <1>2, <1>3, <2>1, <2>2, <2>3 DEF StrictSubsetOrdering
<1> QED
  BY <1>4

\* Induction, for a set instead of a predicate.
LEMMA ByInduction ==
  ASSUME NEW S, 0 \in S, \A n \in Nat : n \in S => n + 1 \in S
  PROVE  Nat \subseteq S
<1> SUFFICES ASSUME Nat \ S # {} PROVE FALSE
  OBVIOUS
<1>1. PICK m \in Nat \ S : \A k \in Nat \ S : m <= k
  BY LeastNumber
<1>2. m # 0 /\ m - 1 \in Nat
  BY <1>1
<1>3. m - 1 \in S
  BY <1>1, <1>2
<1> QED
  BY <1>1, <1>2, <1>3


\* The same over the numbers up to n.
LEMMA Upwards ==
  ASSUME NEW n \in Nat, NEW S, 0 \in S, \A k \in 1 .. n : k - 1 \in S => k \in S
  PROVE  0 .. n \subseteq S
<1> DEFINE T == {k \in Nat : k <= n => k \in S}
<1>1. 0 \in T
  OBVIOUS
<1>2. ASSUME NEW k \in Nat, k \in T PROVE k + 1 \in T
  <2> SUFFICES ASSUME k + 1 <= n PROVE k + 1 \in S
    OBVIOUS
  <2>1. k \in S /\ k + 1 \in 1 .. n /\ (k + 1) - 1 = k
    BY <1>2
  <2> QED
    BY <2>1
<1>3. Nat \subseteq T
  <2> HIDE DEF T
  <2> QED
    BY <1>1, <1>2, ByInduction
<1> QED
  BY <1>3

\* Max() of a set of indices.
LEMMA LargestIndex ==
  ASSUME NEW n \in Nat, NEW s \in SUBSET (1 .. n + 1)
  PROVE  /\ n + 1 \in s => Max(s) = n + 1
         /\ n + 1 \notin s => s \in SUBSET (1 .. n)
         /\ s # {} => Max(s) \in s
<1>1. \A x \in s : x \in Nat /\ x <= n + 1
  OBVIOUS
<1>2. ASSUME n + 1 \in s PROVE Max(s) = n + 1
  <2>1. \A y \in s : n + 1 >= y
    BY <1>1
  <2>2. Max(s) \in s /\ \A y \in s : Max(s) >= y
    BY <1>2, <2>1 DEF Max
  <2>3. Max(s) >= n + 1 /\ Max(s) <= n + 1 /\ Max(s) \in Nat
    BY <1>1, <1>2, <2>2
  <2> QED
    BY <2>3
<1>3. ASSUME s # {} PROVE Max(s) \in s
  <2> DEFINE T == {n + 1 - k : k \in s}
  <2>1. T \in SUBSET Nat
    BY <1>1
  <2>2. T # {}
    BY <1>3
  <2>3. PICK m \in T : \A j \in T : m <= j
    BY <2>1, <2>2, LeastNumber
  <2>4. PICK x \in s : m = n + 1 - x
    OBVIOUS
  <2>5. \A y \in s : m <= n + 1 - y
    BY <2>3
  <2>6. \A y \in s : x >= y
    BY <1>1, <2>4, <2>5
  <2> QED
    BY <2>6 DEF Max
<1>4. n + 1 \notin s => s \in SUBSET (1 .. n)
  OBVIOUS
<1> QED
  BY <1>2, <1>3, <1>4

LEMMA LargestMember ==
  ASSUME NEW n \in Nat, NEW s \in SUBSET (1 .. n), s # {}
  PROVE  Max(s) \in 1 .. n /\ s \ {Max(s)} \in SUBSET (1 .. n)
<1>1. n # 0
  <2>1. 1 .. 0 = {}
    OBVIOUS
  <2> QED
    BY <2>1
<1>2. PICK m \in Nat : n = m + 1
  BY <1>1
<1>3. s \in SUBSET (1 .. m + 1)
  BY <1>2
<1>4. Max(s) \in s
  BY <1>2, <1>3, LargestIndex
<1> QED
  BY <1>4

LEMMA LargestOfInterval ==
  ASSUME NEW k \in Nat, k > 0
  PROVE  Max(1 .. k) = k /\ (1 .. k) \ {k} = 1 .. k - 1
<1>1. PICK n \in Nat : k = n + 1
  OBVIOUS
<1>2. k \in 1 .. k /\ 1 .. k \in SUBSET (1 .. n + 1)
  BY <1>1
<1>3. Max(1 .. k) = k
  BY <1>1, <1>2, LargestIndex
<1> QED
  BY <1>3

(* A fold over a sequence recurs on sets of indices, taking the largest    *)
(* one off; G[i] is what step i does to a value.                           *)
Iterations(D, base, n, G) ==
  {iter \in [SUBSET (1 .. n) -> D] :
     \A s \in SUBSET (1 .. n) :
       iter[s] = IF s = {} THEN base ELSE G[Max(s)][iter[s \ {Max(s)}]]}

\* There is such a function.
LEMMA Iterates ==
  ASSUME NEW D, NEW base \in D, NEW n \in Nat, NEW G \in [1 .. n -> [D -> D]]
  PROVE  Iterations(D, base, n, G) # {}
<1> DEFINE Good(k) == \E iter \in [SUBSET (1 .. k) -> D] :
             \A s \in SUBSET (1 .. k) :
               iter[s] = IF s = {} THEN base ELSE G[Max(s)][iter[s \ {Max(s)}]]
<1>1. Good(0)
  <2> DEFINE f == [s \in SUBSET (1 .. 0) |-> base]
  <2>1. \A s \in SUBSET (1 .. 0) : s = {}
    OBVIOUS
  <2>2. f \in [SUBSET (1 .. 0) -> D]
    OBVIOUS
  <2>3. \A s \in SUBSET (1 .. 0) :
               f[s] = IF s = {} THEN base ELSE G[Max(s)][f[s \ {Max(s)}]]
    BY <2>1
  <2> HIDE DEF f
  <2> QED
    BY <2>2, <2>3, Zenon
<1>2. ASSUME NEW m \in Nat, NEW k \in 1 .. n, k = m + 1, Good(m) PROVE Good(k)
  <2>1. k = m + 1
    BY <1>2
  <2>2. PICK h \in [SUBSET (1 .. m) -> D] :
             \A s \in SUBSET (1 .. m) :
               h[s] = IF s = {} THEN base ELSE G[Max(s)][h[s \ {Max(s)}]]
    BY <1>2
  <2> DEFINE f == [s \in SUBSET (1 .. k) |->
                     IF k \in s THEN G[k][h[s \ {k}]] ELSE h[s]]
  <2>3. \A s \in SUBSET (1 .. k) :
          /\ k \in s => Max(s) = k /\ s \ {k} \in SUBSET (1 .. m)
          /\ k \notin s => s \in SUBSET (1 .. m)
          /\ s # {} => Max(s) \in s /\ k \notin s \ {Max(s)}
                       /\ s \ {Max(s)} \in SUBSET (1 .. m)
    <3> TAKE s \in SUBSET (1 .. k)
    <3>1. /\ k \in s => Max(s) = k
          /\ k \notin s => s \in SUBSET (1 .. m)
          /\ s # {} => Max(s) \in s
      <4>1. s \in SUBSET (1 .. m + 1)
        BY <2>1
      <4> QED
        BY <2>1, <4>1, LargestIndex
    <3>2. s \ {k} \in SUBSET (1 .. m)
      BY <2>1
    <3> QED
      BY <3>1, <3>2
  <2>4. f \in [SUBSET (1 .. k) -> D]
    <3>1. \A s \in SUBSET (1 .. k) : (IF k \in s THEN G[k][h[s \ {k}]] ELSE h[s]) \in D
      BY <2>2, <2>3
    <3> QED
      BY <3>1
  <2>5. ASSUME NEW s \in SUBSET (1 .. k)
        PROVE  f[s] = IF s = {} THEN base ELSE G[Max(s)][f[s \ {Max(s)}]]
    <3>1. CASE k \in s
      <4>1. f[s] = G[k][h[s \ {k}]] /\ Max(s) = k
        BY <2>3, <3>1
      <4>2. s \ {k} \in SUBSET (1 .. k) /\ k \notin s \ {k}
        OBVIOUS
      <4>3. f[s \ {k}] = h[s \ {k}]
        BY <4>2
      <4> HIDE DEF f
      <4> QED
        BY <3>1, <4>1, <4>3
    <3>2. CASE k \notin s
      <4>1. f[s] = h[s] /\ s \in SUBSET (1 .. m)
        BY <2>3, <3>2
      <4>2. ASSUME s # {} PROVE f[s \ {Max(s)}] = h[s \ {Max(s)}]
        <5>1. s \ {Max(s)} \in SUBSET (1 .. k) /\ k \notin s \ {Max(s)}
          BY <3>2
        <5> QED
          BY <5>1
      <4> HIDE DEF f
      <4> QED
        BY <2>2, <4>1, <4>2
    <3> QED
      BY <3>1, <3>2
  <2> HIDE DEF f
  <2> QED
    BY <2>4, <2>5, Zenon
<1> HIDE DEF Good
<1> DEFINE S == {k \in 0 .. n : Good(k)}
<1>3. 0 .. n \subseteq S
  <2>1. 0 \in S
    BY <1>1
  <2>2. ASSUME NEW k \in 1 .. n, k - 1 \in S PROVE k \in S
    <3>1. k - 1 \in Nat /\ k = (k - 1) + 1 /\ Good(k - 1)
      BY <2>2
    <3> QED
      BY <1>2, <3>1
  <2> HIDE DEF S
  <2> QED
    BY <2>1, <2>2, Upwards
<1>4. Good(n)
  BY <1>3
<1> QED
  BY <1>4 DEF Good, Iterations

-----------------------------------------------------------------------------
(* Numerals: one digit of parse_int() is taken exactly when the value with *)
(* it is in the range of int, and the tests for that do not leave it.      *)

\* The tests on the value of a character accept the digits of the base.
LEMMA ValueOfDigit ==
  ASSUME NEW base \in {10, 16}, NEW ch \in Int
  PROVE  /\ Value(ch) \in Int
         /\ Value(ch) \in 0 .. base - 1 <=> IsDigit(ch, base)
<1>1. Value(ch) \in Int
  BY DEF Value
<1>2. CASE base = 10
  BY <1>2 DEF Value, IsDigit
<1>3. CASE base = 16
  BY <1>3 DEF Value, IsDigit
<1> QED
  BY <1>1, <1>2, <1>3

(* Upwards, a digit is taken if the value with it is an int, and refused   *)
(* if it is not: neither test is too strict or too late.                   *)
THEOREM UpExact ==
  ASSUME NEW base \in {10, 16}, NEW ch \in Int, NEW r \in 0 .. IntMax
  PROVE  Up(r, Value(ch), base) =
           IF IsDigit(ch, base) /\ IsInt(r * base + Value(ch))
           THEN {r * base + Value(ch)} ELSE {}
<1>1. PICK v \in Int : v = Value(ch) /\ (v \in 0 .. base - 1 <=> IsDigit(ch, base))
  BY ValueOfDigit
<1>2. IntMax \in Nat
  BY IntAssumption
<1>3. ASSUME v \in 0 .. base - 1
      PROVE  /\ r <= IntMax \div base /\ r * base <= IntMax - v <=> r * base + v <= IntMax
             /\ r * base + v \in Nat
  <2>1. CASE base = 10
    BY <1>2, <1>3, <2>1
  <2>2. CASE base = 16
    BY <1>2, <1>3, <2>2
  <2> QED
    BY <2>1, <2>2
<1>4. ASSUME v \in 0 .. base - 1
      PROVE  IsInt(r * base + v) <=> r * base + v <= IntMax
  <2>1. PICK w \in Nat : w = r * base + v
    BY <1>3, <1>4
  <2> QED
    BY <1>2, <2>1 DEF IsInt, IntMin
<1> QED
  BY <1>1, <1>3, <1>4 DEF Up

(* Downwards likewise: the smallest int, which has no positive             *)
(* counterpart, is parsed, and the one below it is refused.                *)
THEOREM DownExact ==
  ASSUME NEW base \in {10, 16}, NEW ch \in Int, NEW r \in IntMin .. 0
  PROVE  Down(r, Value(ch), base) =
           IF IsDigit(ch, base) /\ IsInt(r * base - Value(ch))
           THEN {r * base - Value(ch)} ELSE {}
<1>1. PICK v \in Int : v = Value(ch) /\ (v \in 0 .. base - 1 <=> IsDigit(ch, base))
  BY ValueOfDigit
<1>2. IntMax \in Nat /\ IntMin = -IntMax - 1 /\ r \in Int /\ r <= 0
  BY IntAssumption DEF IntMin
<1>3. ASSUME v \in 0 .. base - 1
      PROVE  /\ r >= -((-IntMin) \div base) /\ r * base >= IntMin + v
                  <=> r * base - v >= IntMin
             /\ r * base - v \in Int /\ r * base - v <= 0
  <2>1. CASE base = 10
    BY <1>2, <1>3, <2>1
  <2>2. CASE base = 16
    BY <1>2, <1>3, <2>2
  <2> QED
    BY <2>1, <2>2
<1>4. ASSUME v \in 0 .. base - 1
      PROVE  IsInt(r * base - v) <=> r * base - v >= IntMin
  <2>1. PICK w \in Int : w = r * base - v /\ w <= 0
    BY <1>3, <1>4
  <2> QED
    BY <1>2, <2>1 DEF IsInt
<1> QED
  BY <1>1, <1>3, <1>4 DEF Down

(* No intermediate value of a digit's step overflows, which for an int     *)
(* would be undefined: neither a product that passed the first test, nor a *)
(* bound of the second.                                                    *)
THEOREM NoOverflowOnTheWay ==
  ASSUME NEW base \in {10, 16}, NEW v \in 0 .. base - 1, IntMax >= base
  PROVE  /\ \A r \in 0 .. IntMax : r <= IntMax \div base => IsInt(r * base)
         /\ \A r \in IntMin .. 0 : r >= -((-IntMin) \div base) => IsInt(r * base)
         /\ IsInt(IntMax - v) /\ IsInt(IntMin + v)
<1>1. IntMax \in Nat /\ IntMin = -IntMax - 1
  BY IntAssumption DEF IntMin
<1>2. IsInt(IntMax - v) /\ IsInt(IntMin + v)
  <2>1. CASE base = 10
    BY <1>1, <2>1 DEF IsInt
  <2>2. CASE base = 16
    BY <1>1, <2>2 DEF IsInt
  <2> QED
    BY <2>1, <2>2
<1>3. ASSUME NEW r \in 0 .. IntMax, r <= IntMax \div base
      PROVE  IsInt(r * base)
  <2>1. CASE base = 10
    BY <1>1, <1>3, <2>1 DEF IsInt
  <2>2. CASE base = 16
    BY <1>1, <1>3, <2>2 DEF IsInt
  <2> QED
    BY <2>1, <2>2
<1>4. ASSUME NEW r \in IntMin .. 0, r >= -((-IntMin) \div base)
      PROVE  IsInt(r * base)
  <2>1. CASE base = 10
    BY <1>1, <1>4, <2>1 DEF IsInt
  <2>2. CASE base = 16
    BY <1>1, <1>4, <2>2 DEF IsInt
  <2> QED
    BY <2>1, <2>2
<1> QED
  BY <1>2, <1>3, <1>4

-----------------------------------------------------------------------------
(* A whole numeral.                                                        *)

LEMMA ValueIsInt == \A ch \in Int : Value(ch) \in Int
  BY DEF Value

\* The values that the loop over a text goes through.
LEMMA MagnitudeTrace ==
  ASSUME NEW text \in Seq(Int), NEW base \in Int
  PROVE  \E v : /\ v[0] = 0
                /\ \A k \in 1 .. Len(text) : v[k] = v[k - 1] * base + Value(text[k])
                /\ Magnitude(text, base) = v[Len(text)]
<1> DEFINE n == Len(text)
           Op(x, i) == x * base + Value(text[i])
           Is(iter) == iter = [s \in SUBSET DOMAIN text |->
                                 IF s = {} THEN 0
                                 ELSE Op(iter[s \ {Max(s)}], Max(s))]
           it == CHOOSE iter : Is(iter)
<1>1. n \in Nat /\ DOMAIN text = 1 .. n
  OBVIOUS
<1>2. \A i \in 1 .. n, x \in Int : Op(x, i) \in Int
  <2>1. \A i \in 1 .. n : Value(text[i]) \in Int
    BY ValueIsInt
  <2>2. \A x \in Int, y \in Int : x * base + y \in Int
    OBVIOUS
  <2> QED
    BY <2>1, <2>2
<1>3. Magnitude(text, base) = it[DOMAIN text]
  BY DEF Magnitude, FoldLeft, MapThenFoldSet
<1> HIDE DEF n, Op
<1>4. PICK iter : \A s \in SUBSET (1 .. n) :
          iter[s] = IF s = {} THEN 0 ELSE Op(iter[s \ {Max(s)}], Max(s))
  <2> DEFINE G == [i \in 1 .. n |-> [x \in Int |-> Op(x, i)]]
  <2>1. G \in [1 .. n -> [Int -> Int]]
    BY <1>2
  <2>2. \A i \in 1 .. n : \A x \in Int : G[i][x] = Op(x, i)
    OBVIOUS
  <2>3. 0 \in Int /\ n \in Nat
    BY <1>1
  <2> HIDE DEF G
  <2>4. PICK iter \in [SUBSET (1 .. n) -> Int] :
        \A s \in SUBSET (1 .. n) :
          iter[s] = IF s = {} THEN 0 ELSE G[Max(s)][iter[s \ {Max(s)}]]
    <3>1. Iterations(Int, 0, n, G) # {}
      BY <2>1, <2>3, Iterates
    <3> QED
      BY <3>1, Zenon DEF Iterations
  <2>5. \A s \in SUBSET (1 .. n) : s # {} =>
            Max(s) \in 1 .. n /\ s \ {Max(s)} \in SUBSET (1 .. n)
    BY <1>1, LargestMember
  <2>6. \A s \in SUBSET (1 .. n) : s # {} => iter[s] = Op(iter[s \ {Max(s)}], Max(s))
    BY <2>2, <2>4, <2>5
  <2>7. \A s \in SUBSET (1 .. n) :
          iter[s] = IF s = {} THEN 0 ELSE Op(iter[s \ {Max(s)}], Max(s))
    BY <2>4, <2>6
  <2> QED
    BY <2>7, Zenon
<1>5. \E f : Is(f)
  <2> DEFINE f == [s \in SUBSET (1 .. n) |-> iter[s]]
  <2>1. \A s \in SUBSET (1 .. n) : f[s] = iter[s] /\ f[s \ {Max(s)}] = iter[s \ {Max(s)}]
    BY Zenon
  <2>2. f = [s \in SUBSET (1 .. n) |->
                                 IF s = {} THEN 0
                                 ELSE Op(f[s \ {Max(s)}], Max(s))]
    BY <1>4, <2>1
  <2> HIDE DEF f
  <2> QED
    BY <1>1, <2>2
<1>6. it = [s \in SUBSET (1 .. n) |->
              IF s = {} THEN 0 ELSE Op(it[s \ {Max(s)}], Max(s))]
  BY <1>1, <1>5, Zenon
<1> HIDE DEF it
<1> DEFINE v == [k \in 0 .. n |-> it[1 .. k]]
<1>7. v[0] = 0 /\ v[n] = it[DOMAIN text]
  <2>1. v[0] = it[{}] /\ v[n] = it[1 .. n] /\ {} \in SUBSET (1 .. n)
    BY <1>1
  <2>2. it[{}] = 0
    BY <1>6, <2>1
  <2> QED
    BY <1>1, <2>1, <2>2
<1>8. ASSUME NEW k \in 1 .. n PROVE v[k] = Op(v[k - 1], k)
  <2>1. /\ Max(1 .. k) = k /\ (1 .. k) \ {k} = 1 .. k - 1
        /\ 1 .. k \in SUBSET (1 .. n) /\ 1 .. k # {}
    <3>1. k \in Nat /\ k > 0 /\ k <= n
      BY <1>1
    <3>2. 1 .. k \in SUBSET (1 .. n) /\ k \in 1 .. k
      BY <1>1, <3>1
    <3> QED
      BY <3>1, <3>2, LargestOfInterval
  <2>2. v[k] = it[1 .. k] /\ v[k - 1] = it[1 .. k - 1]
    BY <1>1
  <2> HIDE DEF v
  <2>3. it[1 .. k] = Op(it[(1 .. k) \ {Max(1 .. k)}], Max(1 .. k))
    BY <1>6, <2>1
  <2> QED
    BY <2>1, <2>2, <2>3
<1> HIDE DEF v
<1> QED
  BY <1>3, <1>7, <1>8 DEF n, Op

LEMMA DigitsUpTrace ==
  ASSUME NEW text \in Seq(Int), NEW base \in {10, 16}
  PROVE  \E v : /\ v[0] = {0}
                /\ \A k \in 1 .. Len(text) :
                     v[k] = UNION {Up(r, Value(text[k]), base) : r \in v[k - 1]}
                /\ Digits(Up, text, base) = v[Len(text)]
<1> DEFINE n == Len(text)
           Op(x, i) == UNION {Up(r, Value(text[i]), base) : r \in x}
           Is(iter) == iter = [s \in SUBSET DOMAIN text |->
                                 IF s = {} THEN {0}
                                 ELSE Op(iter[s \ {Max(s)}], Max(s))]
           it == CHOOSE iter : Is(iter)
<1>1. n \in Nat /\ DOMAIN text = 1 .. n
  OBVIOUS
<1>2. \A i \in 1 .. n, x \in SUBSET Int : Op(x, i) \in SUBSET Int
  <2>1. \A i \in 1 .. n : Value(text[i]) \in Int
    BY ValueIsInt
  <2>2. \A r \in Int, val \in Int : Up(r, val, base) \in SUBSET Int
    BY DEF Up
  <2> QED
    BY <2>1, <2>2
<1>3. Digits(Up, text, base) = it[DOMAIN text]
  BY DEF Digits, FoldLeft, MapThenFoldSet
<1> HIDE DEF n, Op
<1>4. PICK iter : \A s \in SUBSET (1 .. n) :
          iter[s] = IF s = {} THEN {0} ELSE Op(iter[s \ {Max(s)}], Max(s))
  <2> DEFINE G == [i \in 1 .. n |-> [x \in SUBSET Int |-> Op(x, i)]]
  <2>1. G \in [1 .. n -> [SUBSET Int -> SUBSET Int]]
    BY <1>2
  <2>2. \A i \in 1 .. n : \A x \in SUBSET Int : G[i][x] = Op(x, i)
    OBVIOUS
  <2>3. {0} \in SUBSET Int /\ n \in Nat
    BY <1>1
  <2> HIDE DEF G
  <2>4. PICK iter \in [SUBSET (1 .. n) -> SUBSET Int] :
        \A s \in SUBSET (1 .. n) :
          iter[s] = IF s = {} THEN {0} ELSE G[Max(s)][iter[s \ {Max(s)}]]
    <3>1. Iterations(SUBSET Int, {0}, n, G) # {}
      BY <2>1, <2>3, Iterates
    <3> QED
      BY <3>1, Zenon DEF Iterations
  <2>5. \A s \in SUBSET (1 .. n) : s # {} =>
            Max(s) \in 1 .. n /\ s \ {Max(s)} \in SUBSET (1 .. n)
    BY <1>1, LargestMember
  <2>6. \A s \in SUBSET (1 .. n) : s # {} => iter[s] = Op(iter[s \ {Max(s)}], Max(s))
    BY <2>2, <2>4, <2>5
  <2>7. \A s \in SUBSET (1 .. n) :
          iter[s] = IF s = {} THEN {0} ELSE Op(iter[s \ {Max(s)}], Max(s))
    BY <2>4, <2>6
  <2> QED
    BY <2>7, Zenon
<1>5. \E f : Is(f)
  <2> DEFINE f == [s \in SUBSET (1 .. n) |-> iter[s]]
  <2>1. \A s \in SUBSET (1 .. n) : f[s] = iter[s] /\ f[s \ {Max(s)}] = iter[s \ {Max(s)}]
    BY Zenon
  <2>2. f = [s \in SUBSET (1 .. n) |->
                                 IF s = {} THEN {0}
                                 ELSE Op(f[s \ {Max(s)}], Max(s))]
    BY <1>4, <2>1
  <2> HIDE DEF f
  <2> QED
    BY <1>1, <2>2
<1>6. it = [s \in SUBSET (1 .. n) |->
              IF s = {} THEN {0} ELSE Op(it[s \ {Max(s)}], Max(s))]
  BY <1>1, <1>5, Zenon
<1> HIDE DEF it
<1> DEFINE v == [k \in 0 .. n |-> it[1 .. k]]
<1>7. v[0] = {0} /\ v[n] = it[DOMAIN text]
  <2>1. v[0] = it[{}] /\ v[n] = it[1 .. n] /\ {} \in SUBSET (1 .. n)
    BY <1>1
  <2>2. it[{}] = {0}
    BY <1>6, <2>1
  <2> QED
    BY <1>1, <2>1, <2>2
<1>8. ASSUME NEW k \in 1 .. n PROVE v[k] = Op(v[k - 1], k)
  <2>1. /\ Max(1 .. k) = k /\ (1 .. k) \ {k} = 1 .. k - 1
        /\ 1 .. k \in SUBSET (1 .. n) /\ 1 .. k # {}
    <3>1. k \in Nat /\ k > 0 /\ k <= n
      BY <1>1
    <3>2. 1 .. k \in SUBSET (1 .. n) /\ k \in 1 .. k
      BY <1>1, <3>1
    <3> QED
      BY <3>1, <3>2, LargestOfInterval
  <2>2. v[k] = it[1 .. k] /\ v[k - 1] = it[1 .. k - 1]
    BY <1>1
  <2> HIDE DEF v
  <2>3. it[1 .. k] = Op(it[(1 .. k) \ {Max(1 .. k)}], Max(1 .. k))
    BY <1>6, <2>1
  <2> QED
    BY <2>1, <2>2, <2>3
<1> HIDE DEF v
<1> QED
  BY <1>3, <1>7, <1>8 DEF n, Op

LEMMA DigitsDownTrace ==
  ASSUME NEW text \in Seq(Int), NEW base \in {10, 16}
  PROVE  \E v : /\ v[0] = {0}
                /\ \A k \in 1 .. Len(text) :
                     v[k] = UNION {Down(r, Value(text[k]), base) : r \in v[k - 1]}
                /\ Digits(Down, text, base) = v[Len(text)]
<1> DEFINE n == Len(text)
           Op(x, i) == UNION {Down(r, Value(text[i]), base) : r \in x}
           Is(iter) == iter = [s \in SUBSET DOMAIN text |->
                                 IF s = {} THEN {0}
                                 ELSE Op(iter[s \ {Max(s)}], Max(s))]
           it == CHOOSE iter : Is(iter)
<1>1. n \in Nat /\ DOMAIN text = 1 .. n
  OBVIOUS
<1>2. \A i \in 1 .. n, x \in SUBSET Int : Op(x, i) \in SUBSET Int
  <2>1. \A i \in 1 .. n : Value(text[i]) \in Int
    BY ValueIsInt
  <2>2. \A r \in Int, val \in Int : Down(r, val, base) \in SUBSET Int
    BY DEF Down
  <2> QED
    BY <2>1, <2>2
<1>3. Digits(Down, text, base) = it[DOMAIN text]
  BY DEF Digits, FoldLeft, MapThenFoldSet
<1> HIDE DEF n, Op
<1>4. PICK iter : \A s \in SUBSET (1 .. n) :
          iter[s] = IF s = {} THEN {0} ELSE Op(iter[s \ {Max(s)}], Max(s))
  <2> DEFINE G == [i \in 1 .. n |-> [x \in SUBSET Int |-> Op(x, i)]]
  <2>1. G \in [1 .. n -> [SUBSET Int -> SUBSET Int]]
    BY <1>2
  <2>2. \A i \in 1 .. n : \A x \in SUBSET Int : G[i][x] = Op(x, i)
    OBVIOUS
  <2>3. {0} \in SUBSET Int /\ n \in Nat
    BY <1>1
  <2> HIDE DEF G
  <2>4. PICK iter \in [SUBSET (1 .. n) -> SUBSET Int] :
        \A s \in SUBSET (1 .. n) :
          iter[s] = IF s = {} THEN {0} ELSE G[Max(s)][iter[s \ {Max(s)}]]
    <3>1. Iterations(SUBSET Int, {0}, n, G) # {}
      BY <2>1, <2>3, Iterates
    <3> QED
      BY <3>1, Zenon DEF Iterations
  <2>5. \A s \in SUBSET (1 .. n) : s # {} =>
            Max(s) \in 1 .. n /\ s \ {Max(s)} \in SUBSET (1 .. n)
    BY <1>1, LargestMember
  <2>6. \A s \in SUBSET (1 .. n) : s # {} => iter[s] = Op(iter[s \ {Max(s)}], Max(s))
    BY <2>2, <2>4, <2>5
  <2>7. \A s \in SUBSET (1 .. n) :
          iter[s] = IF s = {} THEN {0} ELSE Op(iter[s \ {Max(s)}], Max(s))
    BY <2>4, <2>6
  <2> QED
    BY <2>7, Zenon
<1>5. \E f : Is(f)
  <2> DEFINE f == [s \in SUBSET (1 .. n) |-> iter[s]]
  <2>1. \A s \in SUBSET (1 .. n) : f[s] = iter[s] /\ f[s \ {Max(s)}] = iter[s \ {Max(s)}]
    BY Zenon
  <2>2. f = [s \in SUBSET (1 .. n) |->
                                 IF s = {} THEN {0}
                                 ELSE Op(f[s \ {Max(s)}], Max(s))]
    BY <1>4, <2>1
  <2> HIDE DEF f
  <2> QED
    BY <1>1, <2>2
<1>6. it = [s \in SUBSET (1 .. n) |->
              IF s = {} THEN {0} ELSE Op(it[s \ {Max(s)}], Max(s))]
  BY <1>1, <1>5, Zenon
<1> HIDE DEF it
<1> DEFINE v == [k \in 0 .. n |-> it[1 .. k]]
<1>7. v[0] = {0} /\ v[n] = it[DOMAIN text]
  <2>1. v[0] = it[{}] /\ v[n] = it[1 .. n] /\ {} \in SUBSET (1 .. n)
    BY <1>1
  <2>2. it[{}] = {0}
    BY <1>6, <2>1
  <2> QED
    BY <1>1, <2>1, <2>2
<1>8. ASSUME NEW k \in 1 .. n PROVE v[k] = Op(v[k - 1], k)
  <2>1. /\ Max(1 .. k) = k /\ (1 .. k) \ {k} = 1 .. k - 1
        /\ 1 .. k \in SUBSET (1 .. n) /\ 1 .. k # {}
    <3>1. k \in Nat /\ k > 0 /\ k <= n
      BY <1>1
    <3>2. 1 .. k \in SUBSET (1 .. n) /\ k \in 1 .. k
      BY <1>1, <3>1
    <3> QED
      BY <3>1, <3>2, LargestOfInterval
  <2>2. v[k] = it[1 .. k] /\ v[k - 1] = it[1 .. k - 1]
    BY <1>1
  <2> HIDE DEF v
  <2>3. it[1 .. k] = Op(it[(1 .. k) \ {Max(1 .. k)}], Max(1 .. k))
    BY <1>6, <2>1
  <2> QED
    BY <2>1, <2>2, <2>3
<1> HIDE DEF v
<1> QED
  BY <1>3, <1>7, <1>8 DEF n, Op

\* One more digit makes a number larger, and out of the range it stays so.
LEMMA OneMoreDigit ==
  ASSUME NEW base \in {10, 16}, NEW m \in Nat, NEW v \in 0 .. base - 1
  PROVE  m * base + v \in Nat /\ m * base + v >= m
<1>1. CASE base = 10
  BY <1>1
<1>2. CASE base = 16
  BY <1>2
<1> QED
  BY <1>1, <1>2

\* The magnitude of digits is a number.
LEMMA MagnitudeIsNat ==
  ASSUME NEW base \in {10, 16}, NEW text \in Seq(Int),
         \A i \in DOMAIN text : IsDigit(text[i], base)
  PROVE  Magnitude(text, base) \in Nat
<1> DEFINE n == Len(text)
<1>1. PICK m : /\ m[0] = 0
               /\ \A k \in 1 .. n : m[k] = m[k - 1] * base + Value(text[k])
               /\ Magnitude(text, base) = m[n]
  <2>1. base \in Int
    OBVIOUS
  <2> QED
    BY <2>1, MagnitudeTrace
<1> DEFINE S == {k \in 0 .. n : m[k] \in Nat}
<1>2. n \in Nat /\ DOMAIN text = 1 .. n /\ \A k \in 1 .. n : text[k] \in Int
  OBVIOUS
<1>3. ASSUME NEW k \in 1 .. n, k - 1 \in S PROVE k \in S
  <2>1. Value(text[k]) \in 0 .. base - 1
    BY <1>2, ValueOfDigit
  <2>2. m[k] = m[k - 1] * base + Value(text[k]) /\ m[k - 1] \in Nat
    BY <1>1, <1>3
  <2>3. m[k] \in Nat
    BY <2>1, <2>2, OneMoreDigit
  <2> QED
    BY <1>2, <2>3
<1>4. 0 \in S
  BY <1>1, <1>2
<1> HIDE DEF S, n
<1>5. 0 .. n \subseteq S
  BY <1>2, <1>3, <1>4, Upwards
<1>6. n \in 0 .. n
  BY <1>2
<1> QED
  BY <1>1, <1>5, <1>6 DEF S

\* The digits so far, upwards, are their magnitude if that is an int.
LEMMA DigitsUp ==
  ASSUME NEW text \in Seq(Int), NEW base \in {10, 16}
  PROVE  Digits(Up, text, base) =
           IF (\A i \in DOMAIN text : IsDigit(text[i], base))
              /\ Magnitude(text, base) \in 0 .. IntMax
           THEN {Magnitude(text, base)} ELSE {}
<1> DEFINE n == Len(text)
           AllDigits(k) == \A i \in 1 .. k : IsDigit(text[i], base)
<1>1. PICK u : /\ u[0] = {0}
               /\ \A k \in 1 .. n :
                    u[k] = UNION {Up(r, Value(text[k]), base) : r \in u[k - 1]}
               /\ Digits(Up, text, base) = u[n]
  BY DigitsUpTrace
<1>2. PICK m : /\ m[0] = 0
               /\ \A k \in 1 .. n : m[k] = m[k - 1] * base + Value(text[k])
               /\ Magnitude(text, base) = m[n]
  <2>1. base \in Int
    OBVIOUS
  <2> QED
    BY <2>1, MagnitudeTrace
<1>3. n \in Nat /\ DOMAIN text = 1 .. n /\ \A k \in 1 .. n : text[k] \in Int
  OBVIOUS
<1>4. IntMax \in Nat
  BY IntAssumption
<1> HIDE DEF n
<1> DEFINE Good(k) == /\ m[k] \in Int
                      /\ AllDigits(k) => m[k] \in Nat
                      /\ u[k] = IF AllDigits(k) /\ m[k] \in 0 .. IntMax
                                THEN {m[k]} ELSE {}
<1>5. Good(0)
  <2>1. AllDigits(0) /\ 0 \in 0 .. IntMax
    BY <1>4
  <2> QED
    BY <1>1, <1>2, <2>1
<1>6. ASSUME NEW k \in 1 .. n, Good(k - 1) PROVE Good(k)
  <2> DEFINE ch == text[k]
             v == Value(ch)
  <2>1. ch \in Int /\ v \in Int /\ (v \in 0 .. base - 1 <=> IsDigit(ch, base))
    BY <1>3, ValueOfDigit
  <2>2. AllDigits(k) <=> AllDigits(k - 1) /\ IsDigit(ch, base)
    BY <1>3
  <2>3. m[k] = m[k - 1] * base + v
    BY <1>2
  <2>4. u[k] = UNION {Up(r, v, base) : r \in u[k - 1]}
    BY <1>1
  <2> HIDE DEF v, ch, AllDigits
  <2>5. m[k] \in Int
    BY <1>6, <2>1, <2>3
  <2>6. ASSUME AllDigits(k) PROVE m[k] \in Nat /\ m[k] >= m[k - 1] /\ m[k - 1] \in Nat
    BY <1>6, <2>1, <2>2, <2>3, <2>6, OneMoreDigit
  <2>7. CASE AllDigits(k - 1) /\ m[k - 1] \in 0 .. IntMax
    <3>1. u[k] = Up(m[k - 1], v, base)
      BY <1>6, <2>4, <2>7
    <3>2. u[k] = IF IsDigit(ch, base) /\ IsInt(m[k]) THEN {m[k]} ELSE {}
      <4>1. PICK r \in 0 .. IntMax : r = m[k - 1]
        BY <2>7
      <4>2. Up(r, v, base) = IF IsDigit(ch, base) /\ IsInt(r * base + v)
                             THEN {r * base + v} ELSE {}
        BY <2>1, UpExact DEF v
      <4> QED
        BY <2>3, <3>1, <4>1, <4>2, Zenon
    <3>3. ASSUME AllDigits(k) PROVE IsInt(m[k]) <=> m[k] \in 0 .. IntMax
      <4>1. IntMin \in Int /\ IntMin <= 0
        BY <1>4 DEF IntMin
      <4> QED
        BY <1>4, <2>6, <3>3, <4>1 DEF IsInt
    <3> QED
      BY <2>2, <2>5, <2>6, <2>7, <3>2, <3>3
  <2>8. CASE ~(AllDigits(k - 1) /\ m[k - 1] \in 0 .. IntMax)
    <3>1. u[k] = {}
      BY <1>6, <2>4, <2>8
    <3>2. ~(AllDigits(k) /\ m[k] \in 0 .. IntMax)
      BY <1>4, <2>2, <2>6, <2>8, SMTT(30)
    <3> QED
      BY <2>5, <2>6, <3>1, <3>2
  <2> QED
    BY <2>7, <2>8
<1>7. Good(n)
  <2> DEFINE S == {k \in 0 .. n : Good(k)}
  <2> HIDE DEF Good
  <2>1. 0 \in S
    BY <1>3, <1>5
  <2>2. \A k \in 1 .. n : k - 1 \in S => k \in S
    BY <1>3, <1>6
  <2>4. n \in 0 .. n
    BY <1>3
  <2> HIDE DEF S
  <2>3. 0 .. n \subseteq S
    BY <1>3, <2>1, <2>2, Upwards
  <2> QED
    BY <2>3, <2>4 DEF S
<1> QED
  BY <1>1, <1>2, <1>3, <1>7

\* Downwards likewise, with the sign.
LEMMA DigitsDown ==
  ASSUME NEW text \in Seq(Int), NEW base \in {10, 16}
  PROVE  Digits(Down, text, base) =
           IF (\A i \in DOMAIN text : IsDigit(text[i], base))
              /\ -Magnitude(text, base) \in IntMin .. 0
           THEN {-Magnitude(text, base)} ELSE {}
<1> DEFINE n == Len(text)
           AllDigits(k) == \A i \in 1 .. k : IsDigit(text[i], base)
<1>1. PICK u : /\ u[0] = {0}
               /\ \A k \in 1 .. n :
                    u[k] = UNION {Down(r, Value(text[k]), base) : r \in u[k - 1]}
               /\ Digits(Down, text, base) = u[n]
  BY DigitsDownTrace
<1>2. PICK m : /\ m[0] = 0
               /\ \A k \in 1 .. n : m[k] = m[k - 1] * base + Value(text[k])
               /\ Magnitude(text, base) = m[n]
  <2>1. base \in Int
    OBVIOUS
  <2> QED
    BY <2>1, MagnitudeTrace
<1>3. n \in Nat /\ DOMAIN text = 1 .. n /\ \A k \in 1 .. n : text[k] \in Int
  OBVIOUS
<1>4. IntMax \in Nat /\ IntMin \in Int /\ IntMin < 0
  BY IntAssumption DEF IntMin
<1> HIDE DEF n
<1> DEFINE Good(k) == /\ m[k] \in Int
                      /\ AllDigits(k) => m[k] \in Nat
                      /\ u[k] = IF AllDigits(k) /\ -m[k] \in IntMin .. 0
                                THEN {-m[k]} ELSE {}
<1>5. Good(0)
  <2>1. AllDigits(0) /\ 0 \in IntMin .. 0
    BY <1>4
  <2>2. -m[0] = 0
    <3>1. \A z \in Int : z <= 0 /\ z >= 0 => -z = 0
      OBVIOUS
    <3>2. m[0] \in Int /\ m[0] <= 0 /\ m[0] >= 0
      BY <1>2
    <3> QED
      BY <3>1, <3>2
  <2> HIDE DEF AllDigits
  <2> QED
    BY <1>1, <1>2, <2>1, <2>2
<1>6. ASSUME NEW k \in 1 .. n, Good(k - 1) PROVE Good(k)
  <2> DEFINE ch == text[k]
             v == Value(ch)
  <2>1. ch \in Int /\ v \in Int /\ (v \in 0 .. base - 1 <=> IsDigit(ch, base))
    BY <1>3, ValueOfDigit
  <2>2. AllDigits(k) <=> AllDigits(k - 1) /\ IsDigit(ch, base)
    BY <1>3
  <2>3. m[k] = m[k - 1] * base + v
    BY <1>2
  <2>4. u[k] = UNION {Down(r, v, base) : r \in u[k - 1]}
    BY <1>1
  <2> HIDE DEF v, ch, AllDigits
  <2>5. m[k] \in Int
    BY <1>6, <2>1, <2>3
  <2>6. ASSUME AllDigits(k) PROVE m[k] \in Nat /\ m[k] >= m[k - 1] /\ m[k - 1] \in Nat
    BY <1>6, <2>1, <2>2, <2>3, <2>6, OneMoreDigit
  <2>7. CASE AllDigits(k - 1) /\ -m[k - 1] \in IntMin .. 0
    <3>1. u[k] = Down(-m[k - 1], v, base)
      BY <1>6, <2>4, <2>7
    <3>4. -m[k - 1] \in IntMin .. 0 /\ (-m[k - 1]) * base - v = -m[k]
      BY <1>6, <2>1, <2>3, <2>7
    <3>2. u[k] = IF IsDigit(ch, base) /\ IsInt(-m[k]) THEN {-m[k]} ELSE {}
      BY <2>1, <3>1, <3>4, DownExact DEF v
    <3>3. ASSUME AllDigits(k) PROVE IsInt(-m[k]) <=> -m[k] \in IntMin .. 0
      BY <1>4, <2>6, <3>3 DEF IsInt
    <3> QED
      BY <2>2, <2>5, <2>6, <2>7, <3>2, <3>3
  <2>8. CASE ~(AllDigits(k - 1) /\ -m[k - 1] \in IntMin .. 0)
    <3>1. u[k] = {}
      BY <1>6, <2>4, <2>8
    <3>2. ~(AllDigits(k) /\ -m[k] \in IntMin .. 0)
      BY <1>4, <2>2, <2>6, <2>8, SMTT(30)
    <3> QED
      BY <2>5, <2>6, <3>1, <3>2
  <2> QED
    BY <2>7, <2>8
<1>7. Good(n)
  <2> DEFINE S == {k \in 0 .. n : Good(k)}
  <2> HIDE DEF Good
  <2>1. 0 \in S
    BY <1>3, <1>5
  <2>2. \A k \in 1 .. n : k - 1 \in S => k \in S
    BY <1>3, <1>6
  <2>4. n \in 0 .. n
    BY <1>3
  <2> HIDE DEF S
  <2>3. 0 .. n \subseteq S
    BY <1>3, <2>1, <2>2, Upwards
  <2> QED
    BY <2>3, <2>4 DEF S
<1> QED
  BY <1>1, <1>2, <1>3, <1>7

LEMMA OneByte ==
  ASSUME NEW t \in Seq(Int), Len(t) = 1, t[1] = Minus
  PROVE  t = <<Minus>>
<1>1. Len(<<Minus>>) = 1 /\ <<Minus>>[1] = Minus /\ <<Minus>> \in Seq(Int)
  BY DEF Minus
<1>2. \A i \in 1 .. Len(t) : t[i] = <<Minus>>[i]
  BY <1>1
<1> QED
  BY <1>1, <1>2, SeqEqual

(* parse_int() parses every text to what it means as a numeral, whatever   *)
(* the range of int is, and refuses it if it means none or its value is    *)
(* not in the range.                                                       *)
THEOREM ParseIntExact ==
  ASSUME NEW text \in Seq(Int), NEW base \in {10, 16}
  PROVE  ParseIntIn(text, base) = Meaning(text, base)
<1>1. IntMax \in Nat /\ IntMin \in Int /\ IntMin = -IntMax - 1
  BY IntAssumption DEF IntMin
<1>2. \A t \in Seq(Int) : (\A i \in DOMAIN t : IsDigit(t[i], base)) => Magnitude(t, base) \in Nat
  BY MagnitudeIsNat
<1>3. CASE text = <<>>
  BY <1>3 DEF ParseIntIn, Meaning
<1>4. CASE text # <<>> /\ text[1] = Minus
  <2> DEFINE t == Tail(text)
  <2>1. t \in Seq(Int) /\ (t = <<>> <=> text = <<Minus>>)
    <3>1. t \in Seq(Int) /\ Len(t) = Len(text) - 1 /\ Len(text) \in Nat /\ Len(text) # 0
      BY <1>4
    <3>2. t = <<>> <=> Len(text) = 1
      <4>1. t = <<>> <=> Len(t) = 0
        BY <3>1, EmptySeq
      <4> HIDE DEF t
      <4> QED
        BY <3>1, <4>1
    <3>3. Len(text) = 1 => text = <<Minus>>
      BY <1>4, OneByte
    <3>4. text = <<Minus>> => Len(text) = 1
      OBVIOUS
    <3> QED
      BY <3>1, <3>2, <3>3, <3>4
  <2>2. Digits(Down, t, base) =
           IF (\A i \in DOMAIN t : IsDigit(t[i], base))
              /\ -Magnitude(t, base) \in IntMin .. 0
           THEN {-Magnitude(t, base)} ELSE {}
    BY <2>1, DigitsDown
  <2>3. ASSUME \A i \in DOMAIN t : IsDigit(t[i], base)
        PROVE  -Magnitude(t, base) \in IntMin .. 0 <=> IsInt(-Magnitude(t, base))
    <3>1. PICK m \in Nat : m = Magnitude(t, base)
      BY <1>2, <2>1, <2>3
    <3> QED
      BY <1>1, <3>1 DEF IsInt
  <2>4. ParseIntIn(text, base) = IF t = <<>> THEN {} ELSE Digits(Down, t, base)
    BY <1>4, <2>1 DEF ParseIntIn
  <2>5. Meaning(text, base) =
          IF t # <<>> /\ (\A i \in DOMAIN t : IsDigit(t[i], base)) /\ IsInt(-Magnitude(t, base))
          THEN {-Magnitude(t, base)} ELSE {}
    BY <1>4 DEF Meaning
  <2> HIDE DEF t
  <2> QED
    BY <2>2, <2>3, <2>4, <2>5
<1>5. CASE text # <<>> /\ text[1] # Minus
  <2>1. Digits(Up, text, base) =
           IF (\A i \in DOMAIN text : IsDigit(text[i], base))
              /\ Magnitude(text, base) \in 0 .. IntMax
           THEN {Magnitude(text, base)} ELSE {}
    BY DigitsUp
  <2>2. ASSUME \A i \in DOMAIN text : IsDigit(text[i], base)
        PROVE  Magnitude(text, base) \in 0 .. IntMax <=> IsInt(Magnitude(text, base))
    <3>1. PICK m \in Nat : m = Magnitude(text, base)
      BY <1>2, <2>2
    <3> QED
      BY <1>1, <3>1 DEF IsInt
  <2>3. ParseIntIn(text, base) = Digits(Up, text, base)
    <3>1. <<Minus>>[1] = Minus
      OBVIOUS
    <3> QED
      BY <1>5, <3>1 DEF ParseIntIn
  <2>4. Meaning(text, base) =
          IF (\A i \in DOMAIN text : IsDigit(text[i], base)) /\ IsInt(Magnitude(text, base))
          THEN {Magnitude(text, base)} ELSE {}
    BY <1>5 DEF Meaning
  <2> QED
    BY <2>1, <2>2, <2>3, <2>4
<1> QED
  BY <1>3, <1>4, <1>5

-----------------------------------------------------------------------------
(* Base64.                                                                 *)

Octets == 0 .. 255

\* Where the encoding iterator is after k digits of a text of n bytes.
After(n, k) ==
  [it |-> IF (6 * k) \div 8 < n THEN (6 * k) \div 8 ELSE n,
   bits |-> 8 - ((6 * k) % 8)]

-----------------------------------------------------------------------------
(* The groups of six bits start at one of four places in a byte.           *)

LEMMA AdvanceFields ==
  ASSUME NEW n \in Nat, NEW i, NEW it \in Nat, NEW bits \in Nat,
         i = [it |-> it, bits |-> bits]
  PROVE  /\ bits > 6 => Advance(n, i) = [it |-> it, bits |-> bits - 6]
         /\ bits <= 6 => Advance(n, i) = [it |-> IF it = n THEN n ELSE it + 1,
                                         bits |-> 8 - (6 - bits)]
<1>1. i.it = it /\ i.bits = bits /\ [i EXCEPT !.bits = @ - 6] = [it |-> it, bits |-> bits - 6]
  OBVIOUS
<1> QED
  BY <1>1 DEF Advance

LEMMA FourPlaces ==
  ASSUME NEW k \in Nat
  PROVE  \E m \in Nat :
           \/ k = 4 * m     /\ (6 * k) \div 8 = 3 * m     /\ (6 * k) % 8 = 0
           \/ k = 4 * m + 1 /\ (6 * k) \div 8 = 3 * m     /\ (6 * k) % 8 = 6
           \/ k = 4 * m + 2 /\ (6 * k) \div 8 = 3 * m + 1 /\ (6 * k) % 8 = 4
           \/ k = 4 * m + 3 /\ (6 * k) \div 8 = 3 * m + 2 /\ (6 * k) % 8 = 2
<1>1. PICK m \in Nat : m = k \div 4
  OBVIOUS
<1>2. \/ k = 4 * m \/ k = 4 * m + 1 \/ k = 4 * m + 2 \/ k = 4 * m + 3
  BY <1>1
<1> QED
  BY <1>2

(* operator++ moves on by six bits, across the bytes and to the end of the *)
(* text, where the bits that are left lead to the end of the padding.      *)
THEOREM AdvanceBySixBits ==
  ASSUME NEW n \in Nat, NEW k \in Nat
  PROVE  /\ After(n, 0) = Start \/ n = 0
         /\ Advance(n, After(n, k)) = After(n, k + 1)
<1>1. After(n, 0) = Start \/ n = 0
  <2>1. 6 * 0 = 0 /\ 0 \div 8 = 0 /\ 8 - (0 % 8) = 8
    OBVIOUS
  <2> QED
    BY <2>1 DEF After, Start
<1>2. PICK m \in Nat :
           \/ k = 4 * m     /\ (6 * k) \div 8 = 3 * m     /\ (6 * k) % 8 = 0
           \/ k = 4 * m + 1 /\ (6 * k) \div 8 = 3 * m     /\ (6 * k) % 8 = 6
           \/ k = 4 * m + 2 /\ (6 * k) \div 8 = 3 * m + 1 /\ (6 * k) % 8 = 4
           \/ k = 4 * m + 3 /\ (6 * k) \div 8 = 3 * m + 2 /\ (6 * k) % 8 = 2
  BY FourPlaces
<1>3. CASE k = 4 * m
  <2>1. (6 * k) \div 8 = 3 * m /\ (6 * k) % 8 = 0
        /\ (6 * (k + 1)) \div 8 = 3 * m /\ (6 * (k + 1)) % 8 = 6
    BY <1>3
  <2> QED
    <3>1. After(n, k) = [it |-> IF 3 * m < n THEN 3 * m ELSE n, bits |-> 8]
      BY <2>1 DEF After
    <3>2. After(n, k + 1) = [it |-> IF 3 * m < n THEN 3 * m ELSE n, bits |-> 2]
      BY <2>1 DEF After
    <3>3. PICK it \in Nat : it = IF 3 * m < n THEN 3 * m ELSE n
      OBVIOUS
    <3>4. PICK bits \in Nat : bits = 8
      OBVIOUS
    <3>5. After(n, k) = [it |-> it, bits |-> bits]
      BY <3>1, <3>3, <3>4
    <3>6. Advance(n, After(n, k)) = [it |-> it, bits |-> bits - 6]
      BY <3>4, <3>5, AdvanceFields
    <3> QED
      BY <1>1, <3>2, <3>3, <3>4, <3>6
<1>4. CASE k = 4 * m + 1
  <2>1. (6 * k) \div 8 = 3 * m /\ (6 * k) % 8 = 6
        /\ (6 * (k + 1)) \div 8 = 3 * m + 1 /\ (6 * (k + 1)) % 8 = 4
    BY <1>4
  <2> QED
    <3>1. After(n, k) = [it |-> IF 3 * m < n THEN 3 * m ELSE n, bits |-> 2]
      BY <2>1 DEF After
    <3>2. After(n, k + 1) = [it |-> IF 3 * m + 1 < n THEN 3 * m + 1 ELSE n, bits |-> 4]
      BY <2>1 DEF After
    <3>3. PICK it \in Nat : it = IF 3 * m < n THEN 3 * m ELSE n
      OBVIOUS
    <3>4. PICK bits \in Nat : bits = 2
      OBVIOUS
    <3>5. After(n, k) = [it |-> it, bits |-> bits]
      BY <3>1, <3>3, <3>4
    <3>6. Advance(n, After(n, k)) = [it |-> IF it = n THEN n ELSE it + 1, bits |-> 8 - (6 - bits)]
      BY <3>4, <3>5, AdvanceFields
    <3> QED
      BY <1>1, <3>2, <3>3, <3>4, <3>6
<1>5. CASE k = 4 * m + 2
  <2>1. (6 * k) \div 8 = 3 * m + 1 /\ (6 * k) % 8 = 4
        /\ (6 * (k + 1)) \div 8 = 3 * m + 2 /\ (6 * (k + 1)) % 8 = 2
    BY <1>5
  <2> QED
    <3>1. After(n, k) = [it |-> IF 3 * m + 1 < n THEN 3 * m + 1 ELSE n, bits |-> 4]
      BY <2>1 DEF After
    <3>2. After(n, k + 1) = [it |-> IF 3 * m + 2 < n THEN 3 * m + 2 ELSE n, bits |-> 6]
      BY <2>1 DEF After
    <3>3. PICK it \in Nat : it = IF 3 * m + 1 < n THEN 3 * m + 1 ELSE n
      OBVIOUS
    <3>4. PICK bits \in Nat : bits = 4
      OBVIOUS
    <3>5. After(n, k) = [it |-> it, bits |-> bits]
      BY <3>1, <3>3, <3>4
    <3>6. Advance(n, After(n, k)) = [it |-> IF it = n THEN n ELSE it + 1, bits |-> 8 - (6 - bits)]
      BY <3>4, <3>5, AdvanceFields
    <3> QED
      BY <1>1, <3>2, <3>3, <3>4, <3>6
<1>6. CASE k = 4 * m + 3
  <2>1. (6 * k) \div 8 = 3 * m + 2 /\ (6 * k) % 8 = 2
        /\ (6 * (k + 1)) \div 8 = 3 * m + 3 /\ (6 * (k + 1)) % 8 = 0
    BY <1>6
  <2> QED
    <3>1. After(n, k) = [it |-> IF 3 * m + 2 < n THEN 3 * m + 2 ELSE n, bits |-> 6]
      BY <2>1 DEF After
    <3>2. After(n, k + 1) = [it |-> IF 3 * m + 3 < n THEN 3 * m + 3 ELSE n, bits |-> 8]
      BY <2>1 DEF After
    <3>3. PICK it \in Nat : it = IF 3 * m + 2 < n THEN 3 * m + 2 ELSE n
      OBVIOUS
    <3>4. PICK bits \in Nat : bits = 6
      OBVIOUS
    <3>5. After(n, k) = [it |-> it, bits |-> bits]
      BY <3>1, <3>3, <3>4
    <3>6. Advance(n, After(n, k)) = [it |-> IF it = n THEN n ELSE it + 1, bits |-> 8 - (6 - bits)]
      BY <3>4, <3>5, AdvanceFields
    <3> QED
      BY <1>1, <3>2, <3>3, <3>4, <3>6
<1> QED
  BY <1>1, <1>2, <1>3, <1>4, <1>5, <1>6

(* size() is the number of digits after which the iterators compare equal, *)
(* with and without padding: not one earlier, and not one later.           *)
THEOREM SizeIsExact ==
  ASSUME NEW n \in Nat, NEW eqs \in BOOLEAN
  PROVE  /\ EncodedSize(n, eqs) \in Nat
         /\ Ended(n, eqs, After(n, EncodedSize(n, eqs)))
         /\ \A k \in 0 .. EncodedSize(n, eqs) - 1 : ~Ended(n, eqs, After(n, k))
<1>1. PICK m \in Nat : n = 3 * m \/ n = 3 * m + 1 \/ n = 3 * m + 2
  <2>1. n \div 3 \in Nat /\ (n = 3 * (n \div 3) \/ n = 3 * (n \div 3) + 1 \/ n = 3 * (n \div 3) + 2)
    OBVIOUS
  <2> QED
    BY <2>1
<1>2. \A k \in Nat : /\ After(n, k).it = n <=> 6 * k >= 8 * n
                     /\ After(n, k).bits = 8 <=> (6 * k) % 8 = 0
  <2> TAKE k \in Nat
  <2>1. (6 * k) \div 8 < n <=> 6 * k < 8 * n
    OBVIOUS
  <2>2. After(n, k).it = (IF (6 * k) \div 8 < n THEN (6 * k) \div 8 ELSE n)
        /\ After(n, k).bits = 8 - ((6 * k) % 8)
    BY DEF After
  <2> QED
    BY <2>1, <2>2
<1>3. CASE n = 0
  <2>1. EncodedSize(n, eqs) = 0
    BY <1>3 DEF EncodedSize
  <2>2. Ended(n, eqs, After(n, 0))
    BY <1>2, <1>3 DEF Ended
  <2> QED
    BY <2>1, <2>2
<1>4. CASE n = 3 * m /\ n # 0
  <2>1. EncodedSize(n, eqs) = 4 * m
    BY <1>4 DEF EncodedSize
  <2>2. \A k \in Nat : k < 4 * m => 6 * k < 8 * n
    BY <1>4
  <2>3. 6 * (4 * m) >= 8 * n /\ (6 * (4 * m)) % 8 = 0
    BY <1>4
  <2> QED
    BY <1>2, <2>1, <2>2, <2>3 DEF Ended
<1>5. CASE n = 3 * m + 1
  <2>1. EncodedSize(n, eqs) = IF eqs THEN 4 * m + 4 ELSE 4 * m + 2
    BY <1>5 DEF EncodedSize
  <2>2. \A k \in Nat : /\ k < 4 * m + 2 => 6 * k < 8 * n
                       /\ k < 4 * m + 4 /\ (6 * k) % 8 = 0 => 6 * k < 8 * n
    BY <1>5
  <2>3. 6 * (4 * m + 2) >= 8 * n /\ 6 * (4 * m + 4) >= 8 * n /\ (6 * (4 * m + 4)) % 8 = 0
    BY <1>5
  <2> QED
    BY <1>2, <2>1, <2>2, <2>3 DEF Ended
<1>6. CASE n = 3 * m + 2
  <2>1. EncodedSize(n, eqs) = IF eqs THEN 4 * m + 4 ELSE 4 * m + 3
    BY <1>6 DEF EncodedSize
  <2>2. \A k \in Nat : /\ k < 4 * m + 3 => 6 * k < 8 * n
                       /\ k < 4 * m + 4 /\ (6 * k) % 8 = 0 => 6 * k < 8 * n
    BY <1>6
  <2>3. 6 * (4 * m + 3) >= 8 * n /\ 6 * (4 * m + 4) >= 8 * n /\ (6 * (4 * m + 4)) % 8 = 0
    BY <1>6
  <2> QED
    BY <1>2, <2>1, <2>2, <2>3 DEF Ended
<1> QED
  BY <1>1, <1>3, <1>4, <1>5, <1>6

-----------------------------------------------------------------------------
(* Digits and bytes.                                                       *)

(* The two tables are inverse to each other: every digit is read back as   *)
(* the six bits it stands for, and padding as the end.                     *)
THEOREM KeyReadBack ==
  /\ \A i \in 0 .. 63 : RKey(Key(i)) = i
  /\ RKey(Key(64)) = AtEnd
<1>1. ASSUME NEW i \in 0 .. 63 PROVE RKey(Key(i)) = i
  <2>1. CASE i \in 0 .. 25
    <3>1. Key(i) = 65 + i /\ 65 + i \in 65 .. 90
      BY <2>1 DEF Key
    <3> QED
      BY <3>1 DEF RKey, Pad, AtEnd, NoDigit
  <2>2. CASE i \in 26 .. 51
    <3>1. Key(i) = 97 + i - 26
      BY <2>2 DEF Key
    <3> QED
      BY <2>2, <3>1 DEF RKey, Pad, AtEnd, NoDigit
  <2>3. CASE i \in 52 .. 61
    <3>1. Key(i) = 48 + i - 52
      BY <2>3 DEF Key
    <3> QED
      BY <2>3, <3>1 DEF RKey, Pad, AtEnd, NoDigit
  <2>4. CASE i = 62
    BY <2>4 DEF Key, RKey, Pad, AtEnd, NoDigit
  <2>5. CASE i = 63
    BY <2>5 DEF Key, RKey, Pad, AtEnd, NoDigit
  <2> QED
    BY <2>1, <2>2, <2>3, <2>4, <2>5
<1>2. RKey(Key(64)) = AtEnd
  BY DEF Key, RKey, Pad, AtEnd, NoDigit
<1> QED
  BY <1>1, <1>2

\* What the k-th digit holds of the bytes around it.
\* A digit that starts inside a byte, and ends in the next one.
LEMMA SextetAcross ==
  ASSUME NEW text, NEW i, NEW it \in Nat, NEW bits \in {2, 4},
         Len(text) \in Nat, it < Len(text), i.it = it, i.bits = bits
  PROVE  Sextet(text, i) =
           (text[it + 1] % 2^bits) * 2^(6 - bits)
             + (IF it + 1 = Len(text) THEN 0 ELSE text[it + 2] \div 2^(bits + 2))
<1>1. it # Len(text) /\ bits # 8 /\ bits # 6 /\ 8 - (6 - bits) = bits + 2
  OBVIOUS
<1> QED
  BY <1>1, Zenon DEF Sextet

LEMMA SextetParts ==
  ASSUME NEW text \in Seq(Octets), NEW m \in Nat
  PROVE  LET n == Len(text)
             b(j) == IF 3 * m + j < n THEN text[3 * m + j + 1] ELSE 0
         IN /\ 3 * m < n => Sextet(text, After(n, 4 * m)) = b(0) \div 4
            /\ 3 * m < n => Sextet(text, After(n, 4 * m + 1)) = (b(0) % 4) * 16 + b(1) \div 16
            /\ 3 * m + 1 < n => Sextet(text, After(n, 4 * m + 2)) = (b(1) % 16) * 4 + b(2) \div 64
            /\ 3 * m + 2 < n => Sextet(text, After(n, 4 * m + 3)) = b(2) % 64
<1> DEFINE n == Len(text)
<1>1. n \in Nat /\ \A j \in 1 .. n : text[j] \in Octets
  BY LenProperties, ElementOfSeq
<1>2. /\ (6 * (4 * m)) \div 8 = 3 * m         /\ 8 - ((6 * (4 * m)) % 8) = 8
      /\ (6 * (4 * m + 1)) \div 8 = 3 * m     /\ 8 - ((6 * (4 * m + 1)) % 8) = 2
      /\ (6 * (4 * m + 2)) \div 8 = 3 * m + 1 /\ 8 - ((6 * (4 * m + 2)) % 8) = 4
      /\ (6 * (4 * m + 3)) \div 8 = 3 * m + 2 /\ 8 - ((6 * (4 * m + 3)) % 8) = 6
  OBVIOUS
<1>3. ASSUME 3 * m < n
      PROVE  Sextet(text, After(n, 4 * m)) = text[3 * m + 1] \div 4
  <2>1. After(n, 4 * m).it = 3 * m /\ After(n, 4 * m).bits = 8
    BY <1>2, <1>3 DEF After
  <2> QED
    BY <1>1, <1>3, <2>1 DEF Sextet
<1>4. ASSUME 3 * m < n
      PROVE  Sextet(text, After(n, 4 * m + 1))
               = (text[3 * m + 1] % 4) * 16
                   + (IF 3 * m + 1 < n THEN text[3 * m + 2] ELSE 0) \div 16
  <2>1. After(n, 4 * m + 1).it = 3 * m /\ After(n, 4 * m + 1).bits = 2
    BY <1>2, <1>4 DEF After
  <2>2. Sextet(text, After(n, 4 * m + 1))
          = (text[3 * m + 1] % 2^2) * 2^(6 - 2)
              + (IF 3 * m + 1 = n THEN 0 ELSE text[3 * m + 2] \div 2^(2 + 2))
    BY <1>1, <1>4, <2>1, SextetAcross
  <2>3. 2^2 = 4 /\ 2^(6 - 2) = 16 /\ 2^(2 + 2) = 16 /\ 0 \div 16 = 0
    OBVIOUS
  <2> QED
    BY <1>1, <1>4, <2>2, <2>3
<1>5. ASSUME 3 * m + 1 < n
      PROVE  Sextet(text, After(n, 4 * m + 2))
               = (text[3 * m + 2] % 16) * 4
                   + (IF 3 * m + 2 < n THEN text[3 * m + 3] ELSE 0) \div 64
  <2>1. After(n, 4 * m + 2).it = 3 * m + 1 /\ After(n, 4 * m + 2).bits = 4
    BY <1>2, <1>5 DEF After
  <2>2. Sextet(text, After(n, 4 * m + 2))
          = (text[3 * m + 1 + 1] % 2^4) * 2^(6 - 4)
              + (IF 3 * m + 1 + 1 = n THEN 0 ELSE text[3 * m + 1 + 2] \div 2^(4 + 2))
    BY <1>1, <1>5, <2>1, SextetAcross
  <2>3. 2^4 = 16 /\ 2^(6 - 4) = 4 /\ 2^(4 + 2) = 64 /\ 0 \div 64 = 0
        /\ 3 * m + 1 + 1 = 3 * m + 2 /\ 3 * m + 1 + 2 = 3 * m + 3
    OBVIOUS
  <2> QED
    BY <1>1, <1>5, <2>2, <2>3
<1>6. ASSUME 3 * m + 2 < n
      PROVE  Sextet(text, After(n, 4 * m + 3)) = text[3 * m + 3] % 64
  <2>1. After(n, 4 * m + 3).it = 3 * m + 2 /\ After(n, 4 * m + 3).bits = 6
    BY <1>2, <1>6 DEF After
  <2> QED
    BY <1>1, <1>6, <2>1 DEF Sextet
<1> QED
  BY <1>1, <1>3, <1>4, <1>5, <1>6

\* What set_get_char() makes of the digits of three bytes.
LEMMA ThreeBytes ==
  ASSUME NEW x \in Octets, NEW y \in Octets, NEW z \in Octets
  PROVE  /\ Byte(x \div 4, 6, (x % 4) * 16 + y \div 16) = x
         /\ Byte(Extra(6, (x % 4) * 16 + y \div 16), 4, (y % 16) * 4 + z \div 64) = y
         /\ Byte(Extra(4, (y % 16) * 4 + z \div 64), 2, z % 64) = z
<1>1. /\ 2^(8 - 6) = 4 /\ 2^(6 - (8 - 6)) = 16
      /\ 2^(8 - 4) = 16 /\ 2^(6 - (8 - 4)) = 4
      /\ 2^(8 - 2) = 64 /\ 2^(6 - (8 - 2)) = 1
  OBVIOUS
<1>2. ((x % 4) * 16 + y \div 16) \div 16 = x % 4 /\ ((x % 4) * 16 + y \div 16) % 16 = y \div 16
  BY DEF Octets
<1>3. ((y % 16) * 4 + z \div 64) \div 4 = y % 16 /\ ((y % 16) * 4 + z \div 64) % 4 = z \div 64
  BY DEF Octets
<1>4. /\ (x \div 4) * 4 + (x % 4) = x /\ (y \div 16) * 16 + (y % 16) = y
      /\ (z \div 64) * 64 + (z % 64) = z
  BY DEF Octets
<1>5. /\ \A l, d : Byte(l, 6, d) = l * 4 + d \div 16 /\ Extra(6, d) = d % 16
      /\ \A l, d : Byte(l, 4, d) = l * 16 + d \div 4 /\ Extra(4, d) = d % 4
      /\ \A l, d : Byte(l, 2, d) = l * 64 + d \div 1
  BY <1>1, Zenon DEF Byte, Extra
<1>6. (z % 64) \div 1 = z % 64
  BY DEF Octets
<1>7. PICK d1 \in Int, d2 \in Int, d3 \in Int :
        d1 = (x % 4) * 16 + y \div 16 /\ d2 = (y % 16) * 4 + z \div 64 /\ d3 = z % 64
  BY DEF Octets
<1>8. Byte(x \div 4, 6, d1) = x /\ Extra(6, d1) = y \div 16
  BY <1>2, <1>4, <1>5, <1>7
<1>9. Byte(y \div 16, 4, d2) = y /\ Extra(4, d2) = z \div 64
  BY <1>3, <1>4, <1>5, <1>7
<1>10. Byte(z \div 64, 2, d3) = z
  BY <1>4, <1>5, <1>6, <1>7
<1> QED
  BY <1>7, <1>8, <1>9, <1>10

(* What was encoded is decoded: the digits of any three bytes of a text,   *)
(* or of the one or two that it ends with, give these bytes back.          *)
THEOREM BytesComeBack ==
  ASSUME NEW text \in Seq(Octets), NEW m \in Nat
  PROVE  LET n == Len(text)
             digit(j) == Sextet(text, After(n, 4 * m + j))
         IN /\ 3 * m < n => Byte(digit(0), 6, digit(1)) = text[3 * m + 1]
            /\ 3 * m + 1 < n => Byte(Extra(6, digit(1)), 4, digit(2)) = text[3 * m + 2]
            /\ 3 * m + 2 < n => Byte(Extra(4, digit(2)), 2, digit(3)) = text[3 * m + 3]
<1> DEFINE n == Len(text)
           b(j) == IF 3 * m + j < n THEN text[3 * m + j + 1] ELSE 0
<1>1. n \in Nat /\ \A j \in 1 .. n : text[j] \in Octets
  BY LenProperties, ElementOfSeq
<1>2. b(0) \in Octets /\ b(1) \in Octets /\ b(2) \in Octets
  BY <1>1 DEF Octets
<1>3. /\ Byte(b(0) \div 4, 6, (b(0) % 4) * 16 + b(1) \div 16) = b(0)
      /\ Byte(Extra(6, (b(0) % 4) * 16 + b(1) \div 16), 4, (b(1) % 16) * 4 + b(2) \div 64) = b(1)
      /\ Byte(Extra(4, (b(1) % 16) * 4 + b(2) \div 64), 2, b(2) % 64) = b(2)
  <2> HIDE DEF b
  <2> QED
    BY <1>2, ThreeBytes
<1>4. /\ 3 * m < n => Sextet(text, After(n, 4 * m)) = b(0) \div 4
      /\ 3 * m < n => Sextet(text, After(n, 4 * m + 1)) = (b(0) % 4) * 16 + b(1) \div 16
      /\ 3 * m + 1 < n => Sextet(text, After(n, 4 * m + 2)) = (b(1) % 16) * 4 + b(2) \div 64
      /\ 3 * m + 2 < n => Sextet(text, After(n, 4 * m + 3)) = b(2) % 64
  BY SextetParts
<1>5. 4 * m + 0 = 4 * m /\ 3 * m + 0 = 3 * m /\ 3 * m + 1 + 1 = 3 * m + 2 /\ 3 * m + 2 + 1 = 3 * m + 3
  OBVIOUS
<1>6. /\ 3 * m < n => b(0) = text[3 * m + 1]
      /\ 3 * m + 1 < n => b(1) = text[3 * m + 2] /\ 3 * m < n
      /\ 3 * m + 2 < n => b(2) = text[3 * m + 3] /\ 3 * m + 1 < n
  BY <1>1, <1>5
<1> HIDE DEF b
<1> QED
  BY <1>3, <1>4, <1>5, <1>6

-----------------------------------------------------------------------------
(* Iterators that run out.                                                 *)

\* The functions of a loop that gives a value per turn, until it stops.
Emitters(C, D, Stop, next, head) ==
  {f \in [D -> Seq(C)] :
     \A i \in D : f[i] = IF i \in Stop THEN <<>> ELSE <<head[i]>> \o f[next[i]]}

\* Every turn comes closer to an end.
Ends(C, D, Stop, next, head, N, rank) ==
  /\ N \in Nat
  /\ next \in [D -> D] /\ head \in [D -> C] /\ rank \in [D -> 0 .. N]
  /\ \A i \in D \ Stop : rank[next[i]] < rank[i]

\* Then there is one.
LEMMA RunsOut ==
  ASSUME NEW C, NEW D, NEW Stop, NEW N, NEW next, NEW head, NEW rank,
         Ends(C, D, Stop, next, head, N, rank)
  PROVE  Emitters(C, D, Stop, next, head) # {}
<1>0. /\ N \in Nat
      /\ next \in [D -> D] /\ head \in [D -> C] /\ rank \in [D -> 0 .. N]
      /\ \A i \in D \ Stop : rank[next[i]] < rank[i]
  BY DEF Ends
<1> DEFINE Below(k) == {i \in D : rank[i] < k}
           Good(k) == \E f \in [Below(k) -> Seq(C)] :
             \A i \in Below(k) :
               f[i] = IF i \in Stop THEN <<>> ELSE <<head[i]>> \o f[next[i]]
           S == {k \in 0 .. N + 1 : Good(k)}
<1>1. Good(0)
  <2>1. Below(0) = {}
    BY <1>0
  <2> DEFINE f == [i \in Below(0) |-> <<>>]
  <2>2. f \in [Below(0) -> Seq(C)]
    BY <2>1
  <2> HIDE DEF f
  <2> QED
    BY <2>1, <2>2
<1>2. ASSUME NEW k \in 1 .. N + 1, Good(k - 1) PROVE Good(k)
  <2>1. PICK g \in [Below(k - 1) -> Seq(C)] :
          \A i \in Below(k - 1) :
            g[i] = IF i \in Stop THEN <<>> ELSE <<head[i]>> \o g[next[i]]
    BY <1>2, Zenon
  <2>2. \A i \in Below(k) : i \notin Stop => next[i] \in Below(k - 1)
    <3> TAKE i \in Below(k)
    <3>1. i \in D /\ rank[i] < k /\ rank[i] \in 0 .. N /\ next[i] \in D
          /\ rank[next[i]] \in 0 .. N
      BY <1>0
    <3>2. i \notin Stop => rank[next[i]] < rank[i]
      BY <1>0, <3>1
    <3> QED
      BY <1>0, <3>1, <3>2
  <2>3. Below(k - 1) \subseteq Below(k) /\ Below(k) \subseteq D
    BY <1>0
  <2> DEFINE f == [i \in Below(k) |->
                     IF i \in Stop THEN <<>> ELSE <<head[i]>> \o g[next[i]]]
  <2>4. ASSUME NEW i \in Below(k)
        PROVE  (IF i \in Stop THEN <<>> ELSE <<head[i]>> \o g[next[i]]) \in Seq(C)
    <3>1. CASE i \in Stop
      BY <3>1, EmptySeq
    <3>2. CASE i \notin Stop
      <4>1. g[next[i]] \in Seq(C) /\ head[i] \in C
        BY <1>0, <2>1, <2>2, <2>3, <3>2
      <4>2. <<head[i]>> \in Seq(C)
        BY <4>1
      <4> QED
        BY <3>2, <4>1, <4>2, ConcatProperties
    <3> QED
      BY <3>1, <3>2
  <2> HIDE DEF Below
  <2>5. f \in [Below(k) -> Seq(C)]
    BY <2>4
  <2>6. \A i \in Below(k - 1) : f[i] = g[i]
    BY <2>1, <2>3
  <2>7. \A i \in Below(k) : f[i] = IF i \in Stop THEN <<>> ELSE <<head[i]>> \o g[next[i]]
    OBVIOUS
  <2> HIDE DEF f
  <2>8. ASSUME NEW i \in Below(k)
        PROVE  f[i] = IF i \in Stop THEN <<>> ELSE <<head[i]>> \o f[next[i]]
    BY <2>2, <2>6, <2>7
  <2> QED
    BY <2>5, <2>8
<1>3. 0 .. N + 1 \subseteq S
  <2>1. 0 \in S
    <3> HIDE DEF Good
    <3>1. 0 \in 0 .. N + 1
      BY <1>0
    <3> QED
      BY <1>1, <3>1
  <2>2. ASSUME NEW k \in 1 .. N + 1, k - 1 \in S PROVE k \in S
    <3> HIDE DEF Good
    <3> QED
      BY <1>2, <2>2
  <2>3. N + 1 \in Nat
    BY <1>0
  <2> HIDE DEF S
  <2> QED
    BY <2>1, <2>2, <2>3, Upwards
<1>4. Good(N + 1)
  <2> HIDE DEF Good
  <2> QED
    BY <1>0, <1>3
<1>5. Below(N + 1) = D
  BY <1>0
<1> HIDE DEF Below
<1> QED
  BY <1>4, <1>5 DEF Emitters

\* It stops after m turns.
Turns(C, D, Stop, next, head, f, m, at) ==
  /\ head \in [D -> C]
  /\ \A i \in D : f[i] = IF i \in Stop THEN <<>> ELSE <<head[i]>> \o f[next[i]]
  /\ m \in Nat /\ at \in [0 .. m -> D] /\ at[m] \in Stop
  /\ \A k \in 0 .. m - 1 : at[k] \notin Stop /\ next[at[k]] = at[k + 1]

\* What it has given then.
LEMMA Emitted ==
  ASSUME NEW C, NEW D, NEW Stop, NEW next, NEW head, NEW f, NEW m, NEW at,
         Turns(C, D, Stop, next, head, f, m, at)
  PROVE  f[at[0]] = [k \in 1 .. m |-> head[at[k - 1]]]
<1>0. /\ head \in [D -> C]
      /\ m \in Nat /\ at \in [0 .. m -> D] /\ at[m] \in Stop
      /\ \A k \in 0 .. m - 1 : at[k] \notin Stop /\ next[at[k]] = at[k + 1]
  BY DEF Turns
<1> DEFINE r(j) == [k \in 1 .. j |-> head[at[m - j + (k - 1)]]]
           S == {j \in 0 .. m : f[at[m - j]] = r(j)}
<1>1. \A i \in D : f[i] = IF i \in Stop THEN <<>> ELSE <<head[i]>> \o f[next[i]]
  BY DEF Turns
<1>2. 0 \in S
  <2>1. r(0) = <<>>
    <3>1. r(0) \in Seq(C) /\ Len(r(0)) = 0
      BY EmptySeq
    <3> QED
      BY <3>1, EmptySeq
  <2>2. f[at[m]] = <<>> /\ m - 0 = m
    <3>1. at[m] \in D /\ m - 0 = m
      BY <1>0
    <3>2. f[at[m]] = <<>>
      BY <1>0, <1>1, <3>1, Zenon
    <3> QED
      BY <3>1, <3>2
  <2> HIDE DEF r
  <2> QED
    BY <1>0, <2>1, <2>2
<1>3. ASSUME NEW j \in 1 .. m, j - 1 \in S PROVE j \in S
  <2> DEFINE p == m - j
  <2>1. p \in 0 .. m - 1 /\ m - (j - 1) = p + 1 /\ p + 1 \in 0 .. m /\ p \in 0 .. m
    BY <1>0
  <2>2. f[at[p]] = <<head[at[p]]>> \o f[at[p + 1]]
    <3>1. at[p] \in D /\ at[p] \notin Stop /\ next[at[p]] = at[p + 1]
      BY <1>0, <2>1
    <3> HIDE DEF p
    <3> QED
      BY <1>1, <3>1
  <2>3. f[at[p + 1]] = r(j - 1)
    <3> HIDE DEF r
    <3> QED
      BY <1>3, <2>1
  <2> DEFINE a == r(j)
             b == <<head[at[p]]>>
             c == r(j - 1)
  <2>4. a \in Seq(C) /\ Len(a) = j /\ \A k \in 1 .. j : a[k] = head[at[p + (k - 1)]]
    <3>1. \A k \in 1 .. j : m - j + (k - 1) \in 0 .. m
      BY <1>0
    <3>2. \A k \in 1 .. j : head[at[m - j + (k - 1)]] \in C
      BY <1>0, <3>1
    <3> QED
      BY <3>2
  <2>5. c \in Seq(C) /\ Len(c) = j - 1
        /\ \A k \in 1 .. j - 1 : c[k] = head[at[p + k]]
    <3>1. \A k \in 1 .. j - 1 : m - (j - 1) + (k - 1) \in 0 .. m
                                /\ m - (j - 1) + (k - 1) = p + k
      BY <1>0
    <3>2. \A k \in 1 .. j - 1 : head[at[m - (j - 1) + (k - 1)]] \in C
      BY <1>0, <3>1
    <3>3. c \in Seq(C) /\ Len(c) = j - 1
      BY <3>2
    <3>4. \A k \in 1 .. j - 1 : c[k] = head[at[m - (j - 1) + (k - 1)]]
      OBVIOUS
    <3> QED
      BY <3>1, <3>3, <3>4
  <2>6. b \in Seq(C) /\ Len(b) = 1 /\ b[1] = head[at[p]]
    <3>1. head[at[p]] \in C
      BY <1>0, <2>1
    <3> QED
      BY <3>1
  <2> HIDE DEF a, b, c
  <2>7. /\ b \o c \in Seq(C) /\ Len(b \o c) = j
        /\ (b \o c)[1] = b[1] /\ \A k \in 2 .. j : (b \o c)[k] = c[k - 1]
    <3>1. b \in Seq(C) /\ c \in Seq(C)
      BY <2>5, <2>6
    <3>2. /\ b \o c \in Seq(C) /\ Len(b \o c) = Len(b) + Len(c)
          /\ \A i \in 1 .. Len(b) + Len(c) :
               (b \o c)[i] = IF i <= Len(b) THEN b[i] ELSE c[i - Len(b)]
      BY <3>1, ConcatProperties
    <3> QED
      BY <2>5, <2>6, <3>2
  <2>8. \A k \in 1 .. j : (b \o c)[k] = a[k]
    <3> TAKE k \in 1 .. j
    <3>1. CASE k = 1
      <4>1. p + (1 - 1) = p
        BY <2>1
      <4> QED
        BY <2>4, <2>6, <2>7, <3>1, <4>1
    <3>2. CASE k # 1
      <4>1. k \in 2 .. j /\ k - 1 \in 1 .. j - 1
        BY <3>2
      <4> QED
        BY <2>4, <2>5, <2>7, <4>1
    <3> QED
      BY <3>1, <3>2
  <2> DEFINE d == b \o c
  <2>9. d \in Seq(C) /\ Len(d) = Len(a) /\ \A k \in 1 .. Len(a) : d[k] = a[k]
    BY <2>4, <2>7, <2>8
  <2> HIDE DEF d
  <2>10. d = a
    BY <2>4, <2>9, SeqEqual
  <2>11. f[at[p]] = a
    BY <2>2, <2>3, <2>10 DEF b, c, d
  <2> QED
    BY <2>11 DEF a
<1>4. 0 .. m \subseteq S
  <2> HIDE DEF S
  <2> QED
    BY <1>0, <1>2, <1>3, Upwards
<1>5. f[at[m - m]] = r(m)
  <2> HIDE DEF r
  <2> QED
    BY <1>0, <1>4
<1>6. m - m = 0 /\ \A k \in 1 .. m : m - m + (k - 1) = k - 1
  BY <1>0
<1> QED
  BY <1>5, <1>6

-----------------------------------------------------------------------------
(* Encoding.                                                               *)

\* The iterators of a text of n bytes.
Encoders(n) == [it : 0 .. n, bits : {2, 4, 6, 8}]

\* One that is moved on is one again, and comes closer to the end.
LEMMA AdvanceStays ==
  ASSUME NEW n \in Nat, NEW i \in Encoders(n)
  PROVE  /\ Advance(n, i) \in Encoders(n)
         /\ Advance(n, i).it = (IF i.bits = 8 \/ i.it = n THEN i.it ELSE i.it + 1)
         /\ Advance(n, i).bits = (IF i.bits = 8 THEN 2 ELSE i.bits + 2)
<1>1. PICK it \in 0 .. n, bits \in {2, 4, 6, 8} : i = [it |-> it, bits |-> bits]
  BY DEF Encoders
<1>2. i.it = it /\ i.bits = bits
  BY <1>1
<1>3. CASE bits = 8
  <2>1. Advance(n, i) = [it |-> it, bits |-> 2]
    <3>1. bits > 6 /\ bits - 6 = 2 /\ bits \in Nat /\ it \in Nat
      BY <1>3
    <3> QED
      BY <1>1, <3>1, AdvanceFields
  <2> QED
    BY <1>2, <1>3, <2>1 DEF Encoders
<1>4. CASE bits # 8
  <2>1. PICK b \in {4, 6, 8} : b = bits + 2
    BY <1>4
  <2>2. PICK j \in 0 .. n : j = IF it = n THEN n ELSE it + 1
    OBVIOUS
  <2>3. Advance(n, i) = [it |-> j, bits |-> b]
    <3>1. bits <= 6 /\ 8 - (6 - bits) = b /\ bits \in Nat /\ it \in Nat
      BY <1>4, <2>1
    <3> QED
      BY <1>1, <2>2, <3>1, AdvanceFields
  <2> QED
    BY <1>2, <1>4, <2>1, <2>2, <2>3 DEF Encoders
<1> QED
  BY <1>3, <1>4

\* Six bits, or none.
LEMMA SextetIn ==
  ASSUME NEW text \in Seq(Octets), NEW i \in Encoders(Len(text))
  PROVE  Sextet(text, i) \in 0 .. 64
<1> DEFINE n == Len(text)
           x == text[i.it + 1]
           y == IF i.it + 1 = n THEN 0 ELSE text[i.it + 2]
<1>1. n \in Nat /\ \A j \in 1 .. n : text[j] \in Octets
  BY LenProperties, ElementOfSeq
<1>2. i.it \in 0 .. n /\ i.bits \in {2, 4, 6, 8}
  BY DEF Encoders
<1>3. CASE i.it = n
  BY <1>3 DEF Sextet
<1>4. CASE i.it # n
  <2>1. i.it \in Nat /\ i.it < n /\ x \in 0 .. 255 /\ y \in 0 .. 255
    <3>1. i.it \in Nat /\ i.it < n /\ i.it + 1 \in 1 .. n
      BY <1>1, <1>2, <1>4
    <3>2. i.it + 1 # n => i.it + 2 \in 1 .. n
      BY <1>1, <3>1
    <3>3. Octets = 0 .. 255 /\ 0 \in Octets
      BY DEF Octets
    <3> QED
      BY <1>1, <3>1, <3>2, <3>3
  <2>2. CASE i.bits = 8
    <3>1. Sextet(text, i) = x \div 4
      BY <1>4, <2>2 DEF Sextet
    <3> HIDE DEF x
    <3> QED
      BY <2>1, <3>1
  <2>3. CASE i.bits = 6
    <3>1. Sextet(text, i) = x % 64
      BY <1>4, <2>3 DEF Sextet
    <3> HIDE DEF x
    <3> QED
      BY <2>1, <3>1
  <2>4. CASE i.bits \in {2, 4}
    <3>1. PICK b \in {2, 4} : i.bits = b
      BY <2>4
    <3>2. PICK it \in Nat : i.it = it
      BY <2>1
    <3>3. Sextet(text, i) = (x % 2^b) * 2^(6 - b)
            + (IF it + 1 = n THEN 0 ELSE text[it + 2] \div 2^(b + 2))
      <4>1. n \in Nat /\ it < n /\ i.it = it /\ i.bits = b /\ x = text[it + 1]
        BY <1>1, <2>1, <3>1, <3>2
      <4>2. Sextet(text, i) = (text[it + 1] % 2^b) * 2^(6 - b)
              + (IF it + 1 = n THEN 0 ELSE text[it + 2] \div 2^(b + 2))
        BY <1>1, <4>1, SextetAcross
      <4> QED
        BY <4>1, <4>2, Zenon
    <3>4. CASE b = 2
      <4>1. 2^2 = 4 /\ 2^(6 - 2) = 16 /\ 2^(2 + 2) = 16
        OBVIOUS
      <4>2. Sextet(text, i) = (x % 4) * 16 + y \div 16
        BY <3>2, <3>3, <3>4, <4>1
      <4> HIDE DEF x, y
      <4> QED
        BY <2>1, <4>2
    <3>5. CASE b = 4
      <4>1. 2^4 = 16 /\ 2^(6 - 4) = 4 /\ 2^(4 + 2) = 64
        OBVIOUS
      <4>2. Sextet(text, i) = (x % 16) * 4 + y \div 64
        BY <3>2, <3>3, <3>5, <4>1
      <4> HIDE DEF x, y
      <4> QED
        BY <2>1, <4>2
    <3> QED
      BY <3>4, <3>5
  <2> QED
    BY <1>2, <2>2, <2>3, <2>4
<1> QED
  BY <1>3, <1>4

\* A digit is a byte.
LEMMA KeyIn == \A i \in 0 .. 64 : Key(i) \in 0 .. 255
<1> TAKE i \in 0 .. 64
<1>1. CASE i \in 0 .. 25
  BY <1>1 DEF Key
<1>2. CASE i \in 26 .. 51
  BY <1>2 DEF Key
<1>3. CASE i \in 52 .. 61
  BY <1>3 DEF Key
<1>4. CASE i \in {62, 63, 64}
  BY <1>4 DEF Key, Pad
<1> QED
  BY <1>1, <1>2, <1>3, <1>4

\* None of them is from 128 on.
LEMMA KeyBelow == \A i \in 0 .. 64 : Key(i) \in 0 .. 127
<1> TAKE i \in 0 .. 64
<1>1. CASE i \in 0 .. 25
  BY <1>1 DEF Key
<1>2. CASE i \in 26 .. 51
  BY <1>2 DEF Key
<1>3. CASE i \in 52 .. 61
  BY <1>3 DEF Key
<1>4. CASE i \in {62, 63, 64}
  BY <1>4 DEF Key, Pad
<1> QED
  BY <1>1, <1>2, <1>3, <1>4

\* The iterators that the encoding goes through are among them.
LEMMA AfterIn ==
  ASSUME NEW n \in Nat, NEW k \in Nat
  PROVE  After(n, k) \in Encoders(n)
<1>1. PICK l \in Nat :
       \/ k = 4 * l     /\ (6 * k) \div 8 = 3 * l     /\ (6 * k) % 8 = 0
       \/ k = 4 * l + 1 /\ (6 * k) \div 8 = 3 * l     /\ (6 * k) % 8 = 6
       \/ k = 4 * l + 2 /\ (6 * k) \div 8 = 3 * l + 1 /\ (6 * k) % 8 = 4
       \/ k = 4 * l + 3 /\ (6 * k) \div 8 = 3 * l + 2 /\ (6 * k) % 8 = 2
  BY FourPlaces
<1>2. (6 * k) \div 8 \in Nat /\ 8 - ((6 * k) % 8) \in {2, 4, 6, 8}
  BY <1>1
<1> QED
  BY <1>2 DEF After, Encoders

\* encode() goes through the text by six bits, size() times.
LEMMA EncodeIs ==
  ASSUME NEW text \in Seq(Octets), NEW eqs \in BOOLEAN
  PROVE  /\ EncodedSize(Len(text), eqs) \in Nat
         /\ Encode(text, eqs) =
              [k \in 1 .. EncodedSize(Len(text), eqs) |->
                 Key(Sextet(text, After(Len(text), k - 1)))]
<1> DEFINE n == Len(text)
           D == Encoders(n)
           m == EncodedSize(n, eqs)
           Is(f) == f = [i \in [it : 0 .. Len(text), bits : {2, 4, 6, 8}] |->
                           IF Ended(Len(text), eqs, i) THEN <<>>
                           ELSE <<Key(Sextet(text, i))>> \o f[Advance(Len(text), i)]]
           from == CHOOSE f : Is(f)
           Stop == {i \in D : Ended(n, eqs, i)}
           next == [i \in D |-> Advance(n, i)]
           head == [i \in D |-> Key(Sextet(text, i))]
           rank == [i \in D |-> IF i.it = n THEN 8 - i.bits ELSE 8 * (n - i.it) + i.bits]
           at == [k \in 0 .. m |-> After(n, k)]
<1>1. n \in Nat
  OBVIOUS
<1>2. Encode(text, eqs) = from[Start]
  BY DEF Encode
<1>3. next \in [D -> D]
  BY <1>1, AdvanceStays
<1>4. head \in [D -> 0 .. 255]
  <2>1. \A i \in D : Key(Sextet(text, i)) \in 0 .. 255
    BY SextetIn, KeyIn
  <2> QED
    BY <2>1
<1>5. rank \in [D -> 0 .. 8 * n + 8]
  <2>1. ASSUME NEW i \in D
        PROVE  (IF i.it = n THEN 8 - i.bits ELSE 8 * (n - i.it) + i.bits) \in 0 .. 8 * n + 8
    <3>1. PICK a \in 0 .. n, b \in {2, 4, 6, 8} : i.it = a /\ i.bits = b
      BY DEF Encoders
    <3>2. (IF a = n THEN 8 - b ELSE 8 * (n - a) + b) \in 0 .. 8 * n + 8
      <4> HIDE DEF n
      <4> QED
        BY <1>1, <3>1
    <3> QED
      BY <3>1, <3>2
  <2> QED
    BY <2>1
<1>6. \A i \in D \ Stop : rank[next[i]] < rank[i]
  <2> TAKE i \in D \ Stop
  <2>1. i \in D /\ i.it \in 0 .. n /\ i.bits \in {2, 4, 6, 8}
    BY DEF Encoders
  <2>2. ~(i.it = n /\ i.bits = 8)
    BY <2>1 DEF Ended
  <2> DEFINE j == Advance(n, i)
  <2>3. /\ j \in D /\ next[i] = j
        /\ j.it = (IF i.bits = 8 \/ i.it = n THEN i.it ELSE i.it + 1)
        /\ j.bits = (IF i.bits = 8 THEN 2 ELSE i.bits + 2)
    BY <1>1, <2>1, AdvanceStays
  <2> HIDE DEF j
  <2>4. /\ rank[j] = (IF j.it = n THEN 8 - j.bits ELSE 8 * (n - j.it) + j.bits)
        /\ rank[i] = (IF i.it = n THEN 8 - i.bits ELSE 8 * (n - i.it) + i.bits)
    BY <2>1, <2>3
  <2>5. PICK a \in 0 .. n, b \in {2, 4, 6, 8} : i.it = a /\ i.bits = b
    BY <2>1
  <2>6. PICK p \in 0 .. n, q \in {2, 4, 6, 8} :
          /\ j.it = p /\ p = (IF b = 8 \/ a = n THEN a ELSE a + 1)
          /\ j.bits = q /\ q = (IF b = 8 THEN 2 ELSE b + 2)
    BY <2>3, <2>5 DEF Encoders
  <2> HIDE DEF rank, next, D, n, Stop
  <2>7. (IF p = n THEN 8 - q ELSE 8 * (n - p) + q) < (IF a = n THEN 8 - b ELSE 8 * (n - a) + b)
    BY <1>1, <2>2, <2>5, <2>6
  <2> QED
    BY <2>3, <2>4, <2>5, <2>6, <2>7
<1>7. D = [it : 0 .. Len(text), bits : {2, 4, 6, 8}]
  BY DEF Encoders
<1>8. \A i \in D : i \in Stop <=> Ended(Len(text), eqs, i)
  OBVIOUS
<1> HIDE DEF rank
<1>9. PICK g \in [D -> Seq(0 .. 255)] :
        \A i \in D : g[i] = IF i \in Stop THEN <<>> ELSE <<head[i]>> \o g[next[i]]
  <2> HIDE DEF D, Stop, next, head
  <2>1. Emitters(0 .. 255, D, Stop, next, head) # {}
    <3>1. PICK N \in Nat : N = 8 * n + 8
      BY <1>1
    <3>2. /\ next \in [D -> D] /\ head \in [D -> 0 .. 255] /\ rank \in [D -> 0 .. N]
          /\ \A i \in D \ Stop : rank[next[i]] < rank[i]
      BY <1>3, <1>4, <1>5, <1>6, <3>1
    <3>3. Ends(0 .. 255, D, Stop, next, head, N, rank)
      BY <3>1, <3>2 DEF Ends
    <3> QED
      BY <3>3, RunsOut
  <2> QED
    BY <2>1 DEF Emitters
<1>10. \A i \in D : head[i] = Key(Sextet(text, i)) /\ next[i] = Advance(Len(text), i)
  OBVIOUS
<1>11. Is(g)
  <2> DEFINE h == [i \in D |-> IF Ended(Len(text), eqs, i) THEN <<>>
                               ELSE <<Key(Sextet(text, i))>> \o g[Advance(Len(text), i)]]
  <2>1. \A i \in D : h[i] = g[i]
    <3> TAKE i \in D
    <3>1. h[i] = IF Ended(Len(text), eqs, i) THEN <<>>
                 ELSE <<Key(Sextet(text, i))>> \o g[Advance(Len(text), i)]
      OBVIOUS
    <3> HIDE DEF h, head, next, Stop, D
    <3> QED
      BY <1>8, <1>9, <1>10, <3>1, Zenon
  <2>2. g = h
    <3>1. h = [i \in D |-> h[i]] /\ g = [i \in D |-> g[i]]
      BY <1>9
    <3> HIDE DEF h, D
    <3> QED
      BY <2>1, <3>1
  <2> QED
    BY <1>7, <2>2
<1>12. Is(from)
  <2> HIDE DEF Is
  <2> QED
    BY <1>11, Zenon
<1>13. \A i \in D : from[i] = IF i \in Stop THEN <<>> ELSE <<head[i]>> \o from[next[i]]
  <2> HIDE DEF from
  <2> TAKE i \in D
  <2>1. from[i] = IF Ended(Len(text), eqs, i) THEN <<>>
                  ELSE <<Key(Sextet(text, i))>> \o from[Advance(Len(text), i)]
    BY <1>7, <1>12
  <2> HIDE DEF head, next, Stop, D
  <2> QED
    BY <1>8, <1>10, <2>1
<1>14. /\ m \in Nat /\ Ended(n, eqs, After(n, m))
       /\ \A k \in 0 .. m - 1 : ~Ended(n, eqs, After(n, k))
  BY <1>1, SizeIsExact
<1>15. \A k \in Nat : After(n, k) \in D /\ Advance(n, After(n, k)) = After(n, k + 1)
  BY <1>1, AfterIn, AdvanceBySixBits
<1>16. at \in [0 .. m -> D] /\ at[m] \in Stop
       /\ \A k \in 0 .. m - 1 : at[k] \notin Stop /\ next[at[k]] = at[k + 1]
  <2>1. \A k \in 0 .. m : k \in Nat /\ at[k] = After(n, k)
    BY <1>14
  <2>2. at \in [0 .. m -> D]
    BY <1>15, <2>1
  <2>3. at[m] \in Stop
    BY <1>14, <1>15, <2>1
  <2>4. ASSUME NEW k \in 0 .. m - 1 PROVE at[k] \notin Stop /\ next[at[k]] = at[k + 1]
    <3>1. k \in Nat /\ at[k] = After(n, k) /\ at[k + 1] = After(n, k + 1)
      BY <1>14
    <3>2. at[k] \in D /\ Advance(n, at[k]) = at[k + 1] /\ ~Ended(n, eqs, at[k])
      BY <1>14, <1>15, <3>1
    <3> HIDE DEF at
    <3> QED
      BY <3>2
  <2> QED
    BY <2>2, <2>3, <2>4
<1>17. from[at[0]] = [k \in 1 .. m |-> head[at[k - 1]]]
  <2> HIDE DEF from, at, m, head, next, Stop, D
  <2> DEFINE B == 0 .. 255
  <2>1. /\ head \in [D -> B] /\ m \in Nat /\ at \in [0 .. m -> D] /\ at[m] \in Stop
        /\ \A k \in 0 .. m - 1 : at[k] \notin Stop /\ next[at[k]] = at[k + 1]
        /\ \A i \in D : from[i] = IF i \in Stop THEN <<>> ELSE <<head[i]>> \o from[next[i]]
    BY <1>4, <1>13, <1>14, <1>16
  <2>2. Turns(B, D, Stop, next, head, from, m, at)
    BY <2>1 DEF Turns
  <2> QED
    BY <2>2, Emitted
<1>18. at[0] = Start
  <2>1. 6 * 0 = 0 /\ 0 \div 8 = 0 /\ 8 - (0 % 8) = 8 /\ 0 \in 0 .. m
    BY <1>14
  <2> QED
    BY <1>1, <2>1 DEF After, Start
<1>19. \A k \in 1 .. m : head[at[k - 1]] = Key(Sextet(text, After(n, k - 1)))
  <2> TAKE k \in 1 .. m
  <2>1. k - 1 \in Nat /\ k - 1 \in 0 .. m
    BY <1>14
  <2>2. at[k - 1] = After(n, k - 1) /\ After(n, k - 1) \in D
    BY <1>15, <2>1
  <2> HIDE DEF at
  <2> QED
    BY <2>2
<1> HIDE DEF from, head, at
<1> QED
  BY <1>2, <1>14, <1>17, <1>18, <1>19

\* A byte and its eight bits, the first one being the highest.
LEMMA OctetBits ==
  ASSUME NEW x \in Octets
  PROVE  \E w \in [0 .. 7 -> {0, 1}] :
           /\ \A r \in 0 .. 7 : w[r] = (x \div 2^(7 - r)) % 2
           /\ x \div 64 = 2 * w[0] + w[1]
           /\ x \div 16 = 8 * w[0] + 4 * w[1] + 2 * w[2] + w[3]
           /\ x \div 4 = 32 * w[0] + 16 * w[1] + 8 * w[2] + 4 * w[3] + 2 * w[4] + w[5]
           /\ x % 4 = 2 * w[6] + w[7]
           /\ x % 16 = 8 * w[4] + 4 * w[5] + 2 * w[6] + w[7]
           /\ x % 64 = 32 * w[2] + 16 * w[3] + 8 * w[4] + 4 * w[5] + 2 * w[6] + w[7]
<1>1. x \in 0 .. 255
  BY DEF Octets
<1>2. PICK x1 \in 0 .. 127, w7 \in {0, 1} : x = 2 * x1 + w7
  <2>1. x \div 2 \in 0 .. 127 /\ x % 2 \in {0, 1} /\ x = 2 * (x \div 2) + (x % 2)
    BY <1>1
  <2> QED
    BY <2>1
<1>3. PICK x2 \in 0 .. 63, w6 \in {0, 1} : x1 = 2 * x2 + w6
  <2>1. x1 \div 2 \in 0 .. 63 /\ x1 % 2 \in {0, 1} /\ x1 = 2 * (x1 \div 2) + (x1 % 2)
    BY <1>2
  <2> QED
    BY <2>1
<1>4. PICK x3 \in 0 .. 31, w5 \in {0, 1} : x2 = 2 * x3 + w5
  <2>1. x2 \div 2 \in 0 .. 31 /\ x2 % 2 \in {0, 1} /\ x2 = 2 * (x2 \div 2) + (x2 % 2)
    BY <1>3
  <2> QED
    BY <2>1
<1>5. PICK x4 \in 0 .. 15, w4 \in {0, 1} : x3 = 2 * x4 + w4
  <2>1. x3 \div 2 \in 0 .. 15 /\ x3 % 2 \in {0, 1} /\ x3 = 2 * (x3 \div 2) + (x3 % 2)
    BY <1>4
  <2> QED
    BY <2>1
<1>6. PICK x5 \in 0 .. 7, w3 \in {0, 1} : x4 = 2 * x5 + w3
  <2>1. x4 \div 2 \in 0 .. 7 /\ x4 % 2 \in {0, 1} /\ x4 = 2 * (x4 \div 2) + (x4 % 2)
    BY <1>5
  <2> QED
    BY <2>1
<1>7. PICK x6 \in 0 .. 3, w2 \in {0, 1} : x5 = 2 * x6 + w2
  <2>1. x5 \div 2 \in 0 .. 3 /\ x5 % 2 \in {0, 1} /\ x5 = 2 * (x5 \div 2) + (x5 % 2)
    BY <1>6
  <2> QED
    BY <2>1
<1>8. PICK w0 \in {0, 1}, w1 \in {0, 1} : x6 = 2 * w0 + w1
  <2>1. x6 \div 2 \in {0, 1} /\ x6 % 2 \in {0, 1} /\ x6 = 2 * (x6 \div 2) + (x6 % 2)
    BY <1>7
  <2> QED
    BY <2>1
<1>9. /\ x \div 1 = x /\ x \div 2 = x1 /\ x \div 4 = x2 /\ x \div 8 = x3 /\ x \div 16 = x4
      /\ x \div 32 = x5 /\ x \div 64 = x6 /\ x \div 128 = w0
  BY <1>1, <1>2, <1>3, <1>4, <1>5, <1>6, <1>7, <1>8
<1>10. /\ x % 2 = w7 /\ x1 % 2 = w6 /\ x2 % 2 = w5 /\ x3 % 2 = w4 /\ x4 % 2 = w3
       /\ x5 % 2 = w2 /\ x6 % 2 = w1 /\ w0 % 2 = w0
  BY <1>1, <1>2, <1>3, <1>4, <1>5, <1>6, <1>7, <1>8
<1>11. /\ x % 4 = 2 * w6 + w7 /\ x % 16 = 8 * w4 + 4 * w5 + 2 * w6 + w7
       /\ x % 64 = 32 * w2 + 16 * w3 + 8 * w4 + 4 * w5 + 2 * w6 + w7
  BY <1>1, <1>2, <1>3, <1>4, <1>5, <1>6, <1>7, <1>8
<1>12. /\ x6 = 2 * w0 + w1 /\ x4 = 8 * w0 + 4 * w1 + 2 * w2 + w3
       /\ x2 = 32 * w0 + 16 * w1 + 8 * w2 + 4 * w3 + 2 * w4 + w5
  BY <1>4, <1>5, <1>6, <1>7, <1>8
<1> DEFINE w == [r \in 0 .. 7 |->
                   CASE r = 0 -> w0 [] r = 1 -> w1 [] r = 2 -> w2 [] r = 3 -> w3
                     [] r = 4 -> w4 [] r = 5 -> w5 [] r = 6 -> w6 [] r = 7 -> w7]
<1>13. /\ w[0] = w0 /\ w[1] = w1 /\ w[2] = w2 /\ w[3] = w3
       /\ w[4] = w4 /\ w[5] = w5 /\ w[6] = w6 /\ w[7] = w7
  OBVIOUS
<1>14. w \in [0 .. 7 -> {0, 1}]
  <2>1. DOMAIN w = 0 .. 7 /\ w = [r \in 0 .. 7 |-> w[r]]
    OBVIOUS
  <2> HIDE DEF w
  <2>2. \A r \in 0 .. 7 : w[r] \in {0, 1}
    <3>1. \A r \in 0 .. 7 : r = 0 \/ r = 1 \/ r = 2 \/ r = 3 \/ r = 4 \/ r = 5 \/ r = 6 \/ r = 7
      OBVIOUS
    <3> QED
      BY <1>13, <3>1
  <2> QED
    BY <2>1, <2>2
<1> HIDE DEF w
<1>15. ASSUME NEW r \in 0 .. 7 PROVE w[r] = (x \div 2^(7 - r)) % 2
  <2>1. /\ 2^(7 - 0) = 128 /\ 2^(7 - 1) = 64 /\ 2^(7 - 2) = 32 /\ 2^(7 - 3) = 16
        /\ 2^(7 - 4) = 8 /\ 2^(7 - 5) = 4 /\ 2^(7 - 6) = 2 /\ 2^(7 - 7) = 1
    OBVIOUS
  <2>2. r = 0 \/ r = 1 \/ r = 2 \/ r = 3 \/ r = 4 \/ r = 5 \/ r = 6 \/ r = 7
    OBVIOUS
  <2>3. (x \div 2^(7 - r)) % 2 = w[r]
    <3>1. CASE r = 0
      BY <1>9, <1>10, <1>13, <2>1, <3>1
    <3>2. CASE r = 1
      BY <1>9, <1>10, <1>13, <2>1, <3>2
    <3>3. CASE r = 2
      BY <1>9, <1>10, <1>13, <2>1, <3>3
    <3>4. CASE r = 3
      BY <1>9, <1>10, <1>13, <2>1, <3>4
    <3>5. CASE r = 4
      BY <1>9, <1>10, <1>13, <2>1, <3>5
    <3>6. CASE r = 5
      BY <1>9, <1>10, <1>13, <2>1, <3>6
    <3>7. CASE r = 6
      BY <1>9, <1>10, <1>13, <2>1, <3>7
    <3>8. CASE r = 7
      BY <1>9, <1>10, <1>13, <2>1, <3>8
    <3> QED
      BY <2>2, <3>1, <3>2, <3>3, <3>4, <3>5, <3>6, <3>7, <3>8
  <2> QED
    BY <2>3
<1>16. /\ x \div 64 = 2 * w[0] + w[1]
       /\ x \div 16 = 8 * w[0] + 4 * w[1] + 2 * w[2] + w[3]
       /\ x \div 4 = 32 * w[0] + 16 * w[1] + 8 * w[2] + 4 * w[3] + 2 * w[4] + w[5]
  BY <1>9, <1>12, <1>13, Zenon
<1>17. /\ x % 4 = 2 * w[6] + w[7]
       /\ x % 16 = 8 * w[4] + 4 * w[5] + 2 * w[6] + w[7]
       /\ x % 64 = 32 * w[2] + 16 * w[3] + 8 * w[4] + 4 * w[5] + 2 * w[6] + w[7]
  BY <1>11, <1>13, Zenon
<1>18. \A r \in 0 .. 7 : w[r] = (x \div 2^(7 - r)) % 2
  BY <1>15
<1> QED
  BY <1>14, <1>16, <1>17, <1>18, Zenon

\* A bit of a text, by its byte and its place in it.
LEMMA BitAt ==
  ASSUME NEW text \in Seq(Octets), NEW q \in Nat, NEW r \in 0 .. 7
  PROVE  Bit(text, 8 * q + r) =
           ((IF q < Len(text) THEN text[q + 1] ELSE 0) \div 2^(7 - r)) % 2
<1>1. (8 * q + r) \div 8 = q /\ (8 * q + r) % 8 = r /\ Len(text) \in Nat
  OBVIOUS
<1>2. CASE q < Len(text)
  <2>1. ~(q >= Len(text))
    BY <1>1, <1>2
  <2> QED
    BY <1>1, <1>2, <2>1 DEF Bit
<1>3. CASE ~(q < Len(text))
  <2>1. q >= Len(text)
    BY <1>1, <1>3
  <2>2. Bit(text, 8 * q + r) = 0
    BY <1>1, <2>1 DEF Bit
  <2>3. (0 \div 2^(7 - r)) % 2 = 0
    <3>1. /\ 2^(7 - 0) = 128 /\ 2^(7 - 1) = 64 /\ 2^(7 - 2) = 32 /\ 2^(7 - 3) = 16
          /\ 2^(7 - 4) = 8 /\ 2^(7 - 5) = 4 /\ 2^(7 - 6) = 2 /\ 2^(7 - 7) = 1
      OBVIOUS
    <3>2. r = 0 \/ r = 1 \/ r = 2 \/ r = 3 \/ r = 4 \/ r = 5 \/ r = 6 \/ r = 7
      OBVIOUS
    <3>3. \A p \in {1, 2, 4, 8, 16, 32, 64, 128} : (0 \div p) % 2 = 0
      OBVIOUS
    <3>4. CASE r = 0
      BY <3>1, <3>3, <3>4
    <3>5. CASE r = 1
      BY <3>1, <3>3, <3>5
    <3>6. CASE r = 2
      BY <3>1, <3>3, <3>6
    <3>7. CASE r = 3
      BY <3>1, <3>3, <3>7
    <3>8. CASE r = 4
      BY <3>1, <3>3, <3>8
    <3>9. CASE r = 5
      BY <3>1, <3>3, <3>9
    <3>10. CASE r = 6
      BY <3>1, <3>3, <3>10
    <3>11. CASE r = 7
      BY <3>1, <3>3, <3>11
    <3> QED
      BY <3>2, <3>4, <3>5, <3>6, <3>7, <3>8, <3>9, <3>10, <3>11
  <2> QED
    BY <1>3, <2>2, <2>3
<1> QED
  BY <1>2, <1>3

\* The groups of six bits of three bytes; there is nothing but zeros behind
\* the last one.
LEMMA GroupParts ==
  ASSUME NEW text \in Seq(Octets), NEW m \in Nat
  PROVE  LET b(j) == IF 3 * m + j < Len(text) THEN text[3 * m + j + 1] ELSE 0
         IN /\ Group(text, 4 * m) = b(0) \div 4
            /\ Group(text, 4 * m + 1) = (b(0) % 4) * 16 + b(1) \div 16
            /\ Group(text, 4 * m + 2) = (b(1) % 16) * 4 + b(2) \div 64
            /\ Group(text, 4 * m + 3) = b(2) % 64
<1> DEFINE b(j) == IF 3 * m + j < Len(text) THEN text[3 * m + j + 1] ELSE 0
<1>1. Len(text) \in Nat /\ \A j \in 1 .. Len(text) : text[j] \in Octets
  BY LenProperties, ElementOfSeq
<1>2. ASSUME NEW j \in 0 .. 2
      PROVE  /\ b(j) \in Octets
             /\ \A r \in 0 .. 7 : Bit(text, 8 * (3 * m + j) + r) = (b(j) \div 2^(7 - r)) % 2
  <2>1. 3 * m + j \in Nat /\ 0 \in Octets
    BY DEF Octets
  <2>2. 3 * m + j < Len(text) => 3 * m + j + 1 \in 1 .. Len(text)
    BY <1>1, <2>1
  <2> QED
    BY <1>1, <2>1, <2>2, BitAt
<1> HIDE DEF b
<1>3. PICK u \in [0 .. 7 -> {0, 1}] :
        /\ \A r \in 0 .. 7 : u[r] = (b(0) \div 2^(7 - r)) % 2
        /\ b(0) \div 4 = 32 * u[0] + 16 * u[1] + 8 * u[2] + 4 * u[3] + 2 * u[4] + u[5]
        /\ b(0) % 4 = 2 * u[6] + u[7]
  <2>1. b(0) \in Octets
    BY <1>2
  <2> QED
    BY <2>1, OctetBits
<1>4. PICK v \in [0 .. 7 -> {0, 1}] :
        /\ \A r \in 0 .. 7 : v[r] = (b(1) \div 2^(7 - r)) % 2
        /\ b(1) \div 16 = 8 * v[0] + 4 * v[1] + 2 * v[2] + v[3]
        /\ b(1) % 16 = 8 * v[4] + 4 * v[5] + 2 * v[6] + v[7]
  <2>1. b(1) \in Octets
    BY <1>2
  <2> QED
    BY <2>1, OctetBits
<1>5. PICK w \in [0 .. 7 -> {0, 1}] :
        /\ \A r \in 0 .. 7 : w[r] = (b(2) \div 2^(7 - r)) % 2
        /\ b(2) \div 64 = 2 * w[0] + w[1]
        /\ b(2) % 64 = 32 * w[2] + 16 * w[3] + 8 * w[4] + 4 * w[5] + 2 * w[6] + w[7]
  <2>1. b(2) \in Octets
    BY <1>2
  <2> QED
    BY <2>1, OctetBits
<1>6. \A r \in 0 .. 7 : /\ Bit(text, 8 * (3 * m + 0) + r) = u[r]
                        /\ Bit(text, 8 * (3 * m + 1) + r) = v[r]
                        /\ Bit(text, 8 * (3 * m + 2) + r) = w[r]
  <2> TAKE r \in 0 .. 7
  <2>1. 0 \in 0 .. 2 /\ 1 \in 0 .. 2 /\ 2 \in 0 .. 2
    OBVIOUS
  <2>2. /\ Bit(text, 8 * (3 * m + 0) + r) = (b(0) \div 2^(7 - r)) % 2
        /\ Bit(text, 8 * (3 * m + 1) + r) = (b(1) \div 2^(7 - r)) % 2
        /\ Bit(text, 8 * (3 * m + 2) + r) = (b(2) \div 2^(7 - r)) % 2
    BY <1>2, <2>1, Zenon
  <2> QED
    BY <1>3, <1>4, <1>5, <2>2, Zenon
<1>7. \A r \in 0 .. 7 : /\ Bit(text, 24 * m + r) = u[r]
                        /\ Bit(text, 24 * m + 8 + r) = v[r]
                        /\ Bit(text, 24 * m + 16 + r) = w[r]
  <2> TAKE r \in 0 .. 7
  <2>1. /\ 8 * (3 * m + 0) + r = 24 * m + r /\ 8 * (3 * m + 1) + r = 24 * m + 8 + r
        /\ 8 * (3 * m + 2) + r = 24 * m + 16 + r
    OBVIOUS
  <2> QED
    BY <1>6, <2>1, Zenon
<1>8. /\ 0 \in 0 .. 7 /\ 1 \in 0 .. 7 /\ 2 \in 0 .. 7 /\ 3 \in 0 .. 7
      /\ 4 \in 0 .. 7 /\ 5 \in 0 .. 7 /\ 6 \in 0 .. 7 /\ 7 \in 0 .. 7
  OBVIOUS
<1>20. PICK a6 \in Int, a7 \in Int : u[6] = a6 /\ u[7] = a7
  OBVIOUS
<1>21. PICK c0 \in Int, c1 \in Int, c2 \in Int, c3 \in Int :
         v[0] = c0 /\ v[1] = c1 /\ v[2] = c2 /\ v[3] = c3
  OBVIOUS
<1>22. PICK c4 \in Int, c5 \in Int, c6 \in Int, c7 \in Int :
         v[4] = c4 /\ v[5] = c5 /\ v[6] = c6 /\ v[7] = c7
  OBVIOUS
<1>23. PICK d0 \in Int, d1 \in Int : w[0] = d0 /\ w[1] = d1
  OBVIOUS
<1>9. Group(text, 4 * m) = b(0) \div 4
  <2>1. /\ 6 * (4 * m) = 24 * m + 0 /\ 6 * (4 * m) + 1 = 24 * m + 1
        /\ 6 * (4 * m) + 2 = 24 * m + 2 /\ 6 * (4 * m) + 3 = 24 * m + 3
        /\ 6 * (4 * m) + 4 = 24 * m + 4 /\ 6 * (4 * m) + 5 = 24 * m + 5
    OBVIOUS
  <2>3. /\ Bit(text, 24 * m + 0) = u[0] /\ Bit(text, 24 * m + 1) = u[1]
        /\ Bit(text, 24 * m + 2) = u[2] /\ Bit(text, 24 * m + 3) = u[3]
        /\ Bit(text, 24 * m + 4) = u[4] /\ Bit(text, 24 * m + 5) = u[5]
    BY <1>7, <1>8, Zenon
  <2>2. Group(text, 4 * m) = 32 * u[0] + 16 * u[1] + 8 * u[2] + 4 * u[3] + 2 * u[4] + u[5]
    BY <2>1, <2>3, Zenon DEF Group
  <2> QED
    BY <1>3, <2>2
<1>10. Group(text, 4 * m + 1) = (b(0) % 4) * 16 + b(1) \div 16
  <2>1. /\ 6 * (4 * m + 1) = 24 * m + 6 /\ 6 * (4 * m + 1) + 1 = 24 * m + 7
        /\ 6 * (4 * m + 1) + 2 = 24 * m + 8 + 0 /\ 6 * (4 * m + 1) + 3 = 24 * m + 8 + 1
        /\ 6 * (4 * m + 1) + 4 = 24 * m + 8 + 2 /\ 6 * (4 * m + 1) + 5 = 24 * m + 8 + 3
    OBVIOUS
  <2>3. /\ Bit(text, 24 * m + 6) = u[6] /\ Bit(text, 24 * m + 7) = u[7]
        /\ Bit(text, 24 * m + 8 + 0) = v[0] /\ Bit(text, 24 * m + 8 + 1) = v[1]
        /\ Bit(text, 24 * m + 8 + 2) = v[2] /\ Bit(text, 24 * m + 8 + 3) = v[3]
    BY <1>7, <1>8, Zenon
  <2>2. Group(text, 4 * m + 1) = 32 * u[6] + 16 * u[7] + 8 * v[0] + 4 * v[1] + 2 * v[2] + v[3]
    BY <2>1, <2>3, Zenon DEF Group
  <2> QED
    <3>1. 32 * a6 + 16 * a7 + 8 * c0 + 4 * c1 + 2 * c2 + c3
            = (2 * a6 + a7) * 16 + (8 * c0 + 4 * c1 + 2 * c2 + c3)
      OBVIOUS
    <3> QED
      BY <1>3, <1>4, <1>20, <1>21, <2>2, <3>1, Zenon
<1>11. Group(text, 4 * m + 2) = (b(1) % 16) * 4 + b(2) \div 64
  <2>1. /\ 6 * (4 * m + 2) = 24 * m + 8 + 4 /\ 6 * (4 * m + 2) + 1 = 24 * m + 8 + 5
        /\ 6 * (4 * m + 2) + 2 = 24 * m + 8 + 6 /\ 6 * (4 * m + 2) + 3 = 24 * m + 8 + 7
        /\ 6 * (4 * m + 2) + 4 = 24 * m + 16 + 0 /\ 6 * (4 * m + 2) + 5 = 24 * m + 16 + 1
    OBVIOUS
  <2>3. /\ Bit(text, 24 * m + 8 + 4) = v[4] /\ Bit(text, 24 * m + 8 + 5) = v[5]
        /\ Bit(text, 24 * m + 8 + 6) = v[6] /\ Bit(text, 24 * m + 8 + 7) = v[7]
        /\ Bit(text, 24 * m + 16 + 0) = w[0] /\ Bit(text, 24 * m + 16 + 1) = w[1]
    BY <1>7, <1>8, Zenon
  <2>2. Group(text, 4 * m + 2) = 32 * v[4] + 16 * v[5] + 8 * v[6] + 4 * v[7] + 2 * w[0] + w[1]
    BY <2>1, <2>3, Zenon DEF Group
  <2> QED
    <3>1. 32 * c4 + 16 * c5 + 8 * c6 + 4 * c7 + 2 * d0 + d1
            = (8 * c4 + 4 * c5 + 2 * c6 + c7) * 4 + (2 * d0 + d1)
      OBVIOUS
    <3> QED
      BY <1>4, <1>5, <1>22, <1>23, <2>2, <3>1, Zenon
<1>12. Group(text, 4 * m + 3) = b(2) % 64
  <2>1. /\ 6 * (4 * m + 3) = 24 * m + 16 + 2 /\ 6 * (4 * m + 3) + 1 = 24 * m + 16 + 3
        /\ 6 * (4 * m + 3) + 2 = 24 * m + 16 + 4 /\ 6 * (4 * m + 3) + 3 = 24 * m + 16 + 5
        /\ 6 * (4 * m + 3) + 4 = 24 * m + 16 + 6 /\ 6 * (4 * m + 3) + 5 = 24 * m + 16 + 7
    OBVIOUS
  <2>3. /\ Bit(text, 24 * m + 16 + 2) = w[2] /\ Bit(text, 24 * m + 16 + 3) = w[3]
        /\ Bit(text, 24 * m + 16 + 4) = w[4] /\ Bit(text, 24 * m + 16 + 5) = w[5]
        /\ Bit(text, 24 * m + 16 + 6) = w[6] /\ Bit(text, 24 * m + 16 + 7) = w[7]
    BY <1>7, <1>8, Zenon
  <2>2. Group(text, 4 * m + 3) = 32 * w[2] + 16 * w[3] + 8 * w[4] + 4 * w[5] + 2 * w[6] + w[7]
    BY <2>1, <2>3, Zenon DEF Group
  <2> QED
    BY <1>5, <2>2
<1> QED
  BY <1>9, <1>10, <1>11, <1>12 DEF b

\* A digit of the text, or what is behind the last one.
LEMMA DigitIs ==
  ASSUME NEW text \in Seq(Octets), NEW k \in Nat
  PROVE  /\ 6 * k < 8 * Len(text) => Sextet(text, After(Len(text), k)) = Group(text, k)
         /\ 6 * k >= 8 * Len(text) => Sextet(text, After(Len(text), k)) = 64
<1> DEFINE n == Len(text)
           b(m, j) == IF 3 * m + j < Len(text) THEN text[3 * m + j + 1] ELSE 0
<1>1. n \in Nat
  OBVIOUS
<1>2. PICK m \in Nat :
           \/ k = 4 * m     /\ (6 * k) \div 8 = 3 * m     /\ (6 * k) % 8 = 0
           \/ k = 4 * m + 1 /\ (6 * k) \div 8 = 3 * m     /\ (6 * k) % 8 = 6
           \/ k = 4 * m + 2 /\ (6 * k) \div 8 = 3 * m + 1 /\ (6 * k) % 8 = 4
           \/ k = 4 * m + 3 /\ (6 * k) \div 8 = 3 * m + 2 /\ (6 * k) % 8 = 2
  BY FourPlaces
<1>3. /\ 3 * m < n => Sextet(text, After(n, 4 * m)) = b(m, 0) \div 4
      /\ 3 * m < n => Sextet(text, After(n, 4 * m + 1)) = (b(m, 0) % 4) * 16 + b(m, 1) \div 16
      /\ 3 * m + 1 < n => Sextet(text, After(n, 4 * m + 2)) = (b(m, 1) % 16) * 4 + b(m, 2) \div 64
      /\ 3 * m + 2 < n => Sextet(text, After(n, 4 * m + 3)) = b(m, 2) % 64
  BY SextetParts
<1>4. /\ Group(text, 4 * m) = b(m, 0) \div 4
      /\ Group(text, 4 * m + 1) = (b(m, 0) % 4) * 16 + b(m, 1) \div 16
      /\ Group(text, 4 * m + 2) = (b(m, 1) % 16) * 4 + b(m, 2) \div 64
      /\ Group(text, 4 * m + 3) = b(m, 2) % 64
  BY GroupParts
<1> HIDE DEF b, n
<1>5. 6 * k < 8 * n => Sextet(text, After(n, k)) = Group(text, k)
  <2> SUFFICES ASSUME 6 * k < 8 * n PROVE Sextet(text, After(n, k)) = Group(text, k)
    OBVIOUS
  <2>1. CASE k = 4 * m
    <3>1. 3 * m < n
      BY <1>1, <2>1
    <3> QED
      BY <1>3, <1>4, <2>1, <3>1, Zenon
  <2>2. CASE k = 4 * m + 1
    <3>1. 3 * m < n
      BY <1>1, <2>2
    <3> QED
      BY <1>3, <1>4, <2>2, <3>1, Zenon
  <2>3. CASE k = 4 * m + 2
    <3>1. 3 * m + 1 < n
      BY <1>1, <2>3
    <3> QED
      BY <1>3, <1>4, <2>3, <3>1, Zenon
  <2>4. CASE k = 4 * m + 3
    <3>1. 3 * m + 2 < n
      BY <1>1, <2>4
    <3> QED
      BY <1>3, <1>4, <2>4, <3>1, Zenon
  <2> QED
    BY <1>2, <2>1, <2>2, <2>3, <2>4
<1>6. 6 * k >= 8 * n => Sextet(text, After(n, k)) = 64
  <2> SUFFICES ASSUME 6 * k >= 8 * n PROVE Sextet(text, After(n, k)) = 64
    OBVIOUS
  <2>1. ~((6 * k) \div 8 < n)
    BY <1>1
  <2>2. After(n, k).it = n
    BY <2>1, Zenon DEF After
  <2> QED
    BY <2>2, Zenon DEF Sextet, n
<1> QED
  BY <1>5, <1>6 DEF n

\* size(), by what is left over of three bytes.
LEMMA SizesAre ==
  ASSUME NEW n \in Nat, NEW s, s = (n * 8 + 5) \div 6, NEW p, p = (3 - (n % 3)) % 3
  PROVE  /\ EncodedSize(n, FALSE) = s /\ EncodedSize(n, TRUE) = s + p
         /\ s \in Nat /\ p \in Nat
         /\ \A k \in Nat : /\ k <= s => 6 * (k - 1) < 8 * n
                           /\ k > s => 6 * (k - 1) >= 8 * n
<1>0. \A k \in Nat : /\ k <= s => 6 * (k - 1) < 8 * n
                     /\ k > s => 6 * (k - 1) >= 8 * n
  OBVIOUS
<1> SUFFICES EncodedSize(n, FALSE) = s /\ EncodedSize(n, TRUE) = s + p /\ s \in Nat /\ p \in Nat
  BY <1>0
<1> DEFINE e == EncodedSize(n, FALSE)
           f == EncodedSize(n, TRUE)
<1>1. PICK m \in Nat : n = 3 * m \/ n = 3 * m + 1 \/ n = 3 * m + 2
  <2>1. n \div 3 \in Nat /\ (n = 3 * (n \div 3) \/ n = 3 * (n \div 3) + 1 \/ n = 3 * (n \div 3) + 2)
    OBVIOUS
  <2> QED
    BY <2>1
<1>2. CASE n = 0
  <2>1. e = 0 /\ f = 0
    BY <1>2 DEF EncodedSize
  <2>2. s = 0 /\ p = 0
    BY <1>2
  <2> HIDE DEF e, f
  <2>3. e = s /\ f = s + p /\ s \in Nat /\ p \in Nat
    BY <2>1, <2>2
  <2> QED
    BY <2>3 DEF e, f
<1>3. CASE n = 3 * m /\ n # 0
  <2>1. e = 4 * m /\ f = 4 * m
    BY <1>3 DEF EncodedSize
  <2>2. s = 4 * m /\ p = 0
    BY <1>3
  <2> HIDE DEF e, f
  <2>3. e = s /\ f = s + p /\ s \in Nat /\ p \in Nat
    BY <2>1, <2>2
  <2> QED
    BY <2>3 DEF e, f
<1>4. CASE n = 3 * m + 1
  <2>1. e = 4 * m + 2 /\ f = 4 * m + 4
    BY <1>4 DEF EncodedSize
  <2>2. s = 4 * m + 2 /\ p = 2
    BY <1>4
  <2> HIDE DEF e, f
  <2>3. e = s /\ f = s + p /\ s \in Nat /\ p \in Nat
    BY <2>1, <2>2
  <2> QED
    BY <2>3 DEF e, f
<1>5. CASE n = 3 * m + 2
  <2>1. e = 4 * m + 3 /\ f = 4 * m + 4
    BY <1>5 DEF EncodedSize
  <2>2. s = 4 * m + 3 /\ p = 1
    BY <1>5
  <2> HIDE DEF e, f
  <2>3. e = s /\ f = s + p /\ s \in Nat /\ p \in Nat
    BY <2>1, <2>2
  <2> QED
    BY <2>3 DEF e, f
<1> QED
  BY <1>1, <1>2, <1>3, <1>4, <1>5

(* A text of any length is encoded to the digits of its groups of six bits *)
(* and, where asked for, as much padding as fills up four: as many as      *)
(* size() says, and every one a byte.                                      *)
THEOREM EncodeExact ==
  ASSUME NEW text \in Seq(Octets)
  PROVE  /\ Encode(text, FALSE) = Digits64(text)
         /\ Encode(text, TRUE) = Digits64(text) \o Padding(text)
         /\ Digits64(text) \in Seq(Octets) /\ Padding(text) \in Seq(Octets)
         /\ Len(Encode(text, FALSE)) = EncodedSize(Len(text), FALSE)
         /\ Len(Encode(text, TRUE)) = EncodedSize(Len(text), TRUE)
<1> DEFINE n == Len(text)
           l == (n * 8 + 5) \div 6
           p == (3 - (n % 3)) % 3
           d == Digits64(text)
           a == Padding(text)
           e == Encode(text, TRUE)
           code(k) == Key(Sextet(text, After(n, k - 1)))
<1>1. n \in Nat /\ l \in Nat
  OBVIOUS
<1>2. /\ EncodedSize(n, FALSE) = l /\ p \in Nat /\ EncodedSize(n, TRUE) = l + p
      /\ \A k \in Nat : /\ k <= l => 6 * (k - 1) < 8 * n
                       /\ k > l => 6 * (k - 1) >= 8 * n
  BY <1>1, SizesAre
<1>3. /\ Encode(text, FALSE) = [k \in 1 .. EncodedSize(n, FALSE) |-> code(k)]
      /\ e = [k \in 1 .. EncodedSize(n, TRUE) |-> code(k)]
  BY EncodeIs
<1>4. \A k \in Nat \ {0} : /\ k <= l => code(k) = Key(Group(text, k - 1))
                           /\ k > l => code(k) = Pad
                           /\ code(k) \in Octets
  <2> TAKE k \in Nat \ {0}
  <2>1. k - 1 \in Nat
    OBVIOUS
  <2>2. /\ 6 * (k - 1) < 8 * n => Sextet(text, After(n, k - 1)) = Group(text, k - 1)
        /\ 6 * (k - 1) >= 8 * n => Sextet(text, After(n, k - 1)) = 64
    BY <2>1, DigitIs
  <2>3. After(n, k - 1) \in Encoders(n)
    BY <1>1, <2>1, AfterIn
  <2>4. code(k) \in 0 .. 255
    BY <2>3, SextetIn, KeyIn
  <2>5. Key(64) = Pad
    BY DEF Key
  <2> QED
    BY <1>2, <2>2, <2>4, <2>5 DEF Octets
<1>5. d = [k \in 1 .. l |-> Key(Group(text, k - 1))] /\ a = [k \in 1 .. p |-> Pad]
  BY DEF Digits64, Padding
<1> HIDE DEF l, p, d, a, e, n
<1>6. /\ d \in Seq(Octets) /\ Len(d) = l /\ \A k \in 1 .. l : d[k] = code(k)
  <2>1. \A k \in 1 .. l : Key(Group(text, k - 1)) = code(k) /\ code(k) \in Octets
    BY <1>1, <1>4
  <2> HIDE DEF code
  <2>2. d = [k \in 1 .. l |-> code(k)]
    BY <1>5, <2>1
  <2> QED
    BY <1>1, <2>1, <2>2
<1>7. a \in Seq(Octets) /\ Len(a) = p /\ \A k \in 1 .. p : a[k] = Pad
  BY <1>2, <1>5 DEF Octets, Pad
<1>8. Encode(text, FALSE) = d
  <2>1. \A k \in 1 .. l : Key(Group(text, k - 1)) = code(k)
    BY <1>1, <1>4
  <2> HIDE DEF code
  <2> QED
    BY <1>2, <1>3, <1>5, <2>1
<1>9. /\ e \in Seq(Octets) /\ Len(e) = l + p /\ \A k \in 1 .. l + p : e[k] = code(k)
  <2>1. l + p \in Nat /\ \A k \in 1 .. l + p : code(k) \in Octets
    BY <1>1, <1>2, <1>4
  <2> HIDE DEF code
  <2>2. e = [k \in 1 .. l + p |-> code(k)]
    BY <1>2, <1>3
  <2> QED
    BY <2>1, <2>2
<1>10. /\ d \o a \in Seq(Octets) /\ Len(d \o a) = l + p
       /\ \A k \in 1 .. l + p : (d \o a)[k] = IF k <= l THEN d[k] ELSE a[k - l]
  BY <1>6, <1>7, ConcatProperties
<1>11. \A k \in 1 .. l + p : (d \o a)[k] = e[k]
  <2> TAKE k \in 1 .. l + p
  <2>1. k \in Nat \ {0} /\ (k <= l => k \in 1 .. l) /\ (k > l => k - l \in 1 .. p)
    BY <1>1, <1>2
  <2>2. e[k] = code(k) /\ (d \o a)[k] = IF k <= l THEN d[k] ELSE a[k - l]
    BY <1>9, <1>10
  <2> HIDE DEF code
  <2>3. CASE k <= l
    BY <1>6, <2>1, <2>2, <2>3
  <2>4. CASE ~(k <= l)
    <3>1. k > l
      BY <1>1, <2>1, <2>4
    <3> QED
      BY <1>4, <1>7, <2>1, <2>2, <2>4, <3>1
  <2> QED
    BY <2>3, <2>4
<1> DEFINE c == d \o a
<1>12. c \in Seq(Octets) /\ Len(c) = Len(e) /\ \A k \in 1 .. Len(e) : c[k] = e[k]
  BY <1>9, <1>10, <1>11
<1> HIDE DEF c
<1>13. c = e
  BY <1>9, <1>12, SeqEqual
<1> QED
  BY <1>2, <1>6, <1>7, <1>8, <1>9, <1>13 DEF c, d, a, e, n

-----------------------------------------------------------------------------
(* Decoding.                                                               *)

\* A byte reads as six bits, as the end, or as nothing.
LEMMA RKeyIn == \A ch \in Int : RKey(ch) \in -2 .. 63
<1> TAKE ch \in Int
<1>0. /\ Pad = 61 /\ AtEnd = -2 /\ NoDigit = -1
      /\ \A x \in 65 .. 90 : x \in Int /\ 65 <= x /\ x <= 90
      /\ \A x \in 97 .. 122 : x \in Int /\ 97 <= x /\ x <= 122
      /\ \A x \in 48 .. 57 : x \in Int /\ 48 <= x /\ x <= 57
  BY DEF Pad, AtEnd, NoDigit
<1>1. CASE ch \in 65 .. 90
  <2>1. RKey(ch) = ch - 65
    BY <1>0, <1>1 DEF RKey
  <2> QED
    BY <1>1, <2>1
<1>2. CASE ch \in 97 .. 122
  <2>1. ch \notin 65 .. 90 /\ ch \notin 48 .. 57 /\ ch \notin {45, 43} /\ ch \notin {95, 47} /\ ch # Pad
    BY <1>0, <1>2
  <2>2. RKey(ch) = ch - 97 + 26
    BY <1>2, <2>1 DEF RKey
  <2> QED
    BY <1>2, <2>2
<1>3. CASE ch \in 48 .. 57
  <2>1. ch \notin 65 .. 90 /\ ch \notin 97 .. 122 /\ ch \notin {45, 43} /\ ch \notin {95, 47} /\ ch # Pad
    BY <1>0, <1>3
  <2>2. RKey(ch) = ch - 48 + 52
    BY <1>3, <2>1 DEF RKey
  <2> QED
    BY <1>3, <2>2
<1>4. CASE ch \notin 65 .. 90 /\ ch \notin 97 .. 122 /\ ch \notin 48 .. 57
  BY <1>4 DEF RKey, AtEnd, NoDigit, Pad
<1> QED
  BY <1>1, <1>2, <1>3, <1>4

\* The next byte that is not skipped is behind it, and is a digit or the end.
LEMMA FoundIn ==
  ASSUME NEW code \in Seq(Int), NEW it \in 0 .. Len(code) + 1
  PROVE  /\ Found(code, it) \in 0 .. Len(code) + 1
         /\ it <= Len(code) => it < Found(code, it)
         /\ GetIn(code, it) \in (0 .. 63) \cup {AtEnd}
         /\ GetIn(code, it) # AtEnd => Found(code, it) <= Len(code) /\ it <= Len(code)
<1> DEFINE n == Len(code)
           S == {k \in (it + 1) .. n : RKey(code[k]) # NoDigit}
           f == Found(code, it)
<1>1. n \in Nat /\ it \in Nat /\ S \in SUBSET Nat
  OBVIOUS
<1>2. CASE S = {}
  <2>1. f = n + 1
    BY <1>2 DEF Found
  <2>2. GetIn(code, it) = AtEnd
    BY <1>1, <2>1 DEF GetIn
  <2> HIDE DEF f
  <2> QED
    BY <1>1, <2>1, <2>2 DEF f
<1>3. CASE S # {}
  <2>1. PICK k \in S : \A j \in S : k <= j
    BY <1>1, <1>3, LeastNumber
  <2>2. f = CHOOSE k0 \in S : \A j \in S : k0 <= j
    BY <1>3 DEF Found
  <2>3. f \in S
    <3> HIDE DEF S
    <3> QED
      BY <2>1, <2>2
  <2>4. f \in (it + 1) .. n /\ RKey(code[f]) # NoDigit
    BY <2>3
  <2>5. GetIn(code, it) = RKey(code[f])
    BY <1>1, <2>4 DEF GetIn
  <2>6. code[f] \in Int
    BY <1>1, <2>4
  <2>7. RKey(code[f]) \in -2 .. 63
    BY <2>6, RKeyIn
  <2> QED
    BY <1>1, <2>4, <2>5, <2>7 DEF NoDigit, AtEnd
<1> QED
  BY <1>2, <1>3

\* What a turn of the decoding reads, gives and goes on with.
Decoders(code) == [it : 0 .. Len(code) + 1, bits : {0, 2, 4}, extra : 0 .. 15]
Place(code, i) == IF i.bits = 0 THEN Found(code, i.it) ELSE i.it
LeftBits(i) == IF i.bits = 0 THEN 6 ELSE i.bits
Left(code, i) == IF i.bits = 0 THEN GetIn(code, i.it) ELSE i.extra
Digit(code, i) == GetIn(code, Place(code, i))
Stops(code, i) == Left(code, i) = AtEnd \/ Digit(code, i) = AtEnd
Gives(code, i) == Byte(Left(code, i), LeftBits(i), Digit(code, i))
Turn(code, i) ==
  [it |-> Found(code, Place(code, i)), bits |-> 6 - (8 - LeftBits(i)),
   extra |-> Extra(LeftBits(i), Digit(code, i))]

\* The weights of what is left over.
LEMMA ByteIsInt ==
  ASSUME NEW l \in 0 .. 63, NEW b \in {2, 4, 6}, NEW d \in 0 .. 63
  PROVE  Byte(l, b, d) \in Int /\ Extra(b, d) \in 0 .. 15 /\ (b = 2 => Extra(b, d) = 0)
<1>1. /\ 2^(8 - 6) = 4 /\ 2^(6 - (8 - 6)) = 16
      /\ 2^(8 - 4) = 16 /\ 2^(6 - (8 - 4)) = 4
      /\ 2^(8 - 2) = 64 /\ 2^(6 - (8 - 2)) = 1
  OBVIOUS
<1>2. CASE b = 6
  <2>1. Byte(l, b, d) = l * 4 + d \div 16 /\ Extra(b, d) = d % 16
    BY <1>1, <1>2, Zenon DEF Byte, Extra
  <2> QED
    BY <1>2, <2>1
<1>3. CASE b = 4
  <2>1. Byte(l, b, d) = l * 16 + d \div 4 /\ Extra(b, d) = d % 4
    BY <1>1, <1>3, Zenon DEF Byte, Extra
  <2> QED
    BY <1>3, <2>1
<1>4. CASE b = 2
  <2>1. Byte(l, b, d) = l * 64 + d \div 1 /\ Extra(b, d) = d % 1
    BY <1>1, <1>4, Zenon DEF Byte, Extra
  <2> QED
    BY <1>4, <2>1
<1> QED
  BY <1>2, <1>3, <1>4

\* A turn goes on, or stops.
LEMMA TurnIn ==
  ASSUME NEW code \in Seq(Int), NEW i \in Decoders(code), ~Stops(code, i)
  PROVE  /\ Turn(code, i) \in Decoders(code) /\ i.it < Turn(code, i).it
         /\ Gives(code, i) \in Int
<1> DEFINE n == Len(code)
           p == Place(code, i)
           d == Digit(code, i)
           l == Left(code, i)
           b == LeftBits(i)
<1>1. n \in Nat /\ i.it \in 0 .. n + 1 /\ i.bits \in {0, 2, 4} /\ i.extra \in 0 .. 15
  BY DEF Decoders
<1>2. p \in 0 .. n + 1 /\ i.it <= p /\ l \in 0 .. 63 /\ b \in {2, 4, 6}
  <2>1. CASE i.bits = 0
    <3>1. p = Found(code, i.it) /\ l = GetIn(code, i.it) /\ b = 6 /\ l # AtEnd
      BY <2>1 DEF Place, Left, LeftBits, Stops
    <3>2. /\ Found(code, i.it) \in 0 .. n + 1 /\ (i.it <= n => i.it < Found(code, i.it))
          /\ GetIn(code, i.it) \in (0 .. 63) \cup {AtEnd}
          /\ GetIn(code, i.it) # AtEnd => i.it <= n
      BY <1>1, FoundIn
    <3> HIDE DEF p, l, b, n
    <3> QED
      BY <1>1, <3>1, <3>2
  <2>2. CASE i.bits # 0
    <3>1. p = i.it /\ l = i.extra /\ b = i.bits
      BY <2>2 DEF Place, Left, LeftBits
    <3> HIDE DEF p, l, b, n
    <3> QED
      BY <1>1, <2>2, <3>1
  <2> QED
    BY <2>1, <2>2
<1>3. d = GetIn(code, p) /\ d # AtEnd
  BY DEF Digit, Stops
<1> HIDE DEF p, l, b
<1>4. /\ Found(code, p) \in 0 .. n + 1 /\ (p <= n => p < Found(code, p))
      /\ GetIn(code, p) \in (0 .. 63) \cup {AtEnd}
      /\ GetIn(code, p) # AtEnd => p <= n
  BY <1>2, FoundIn
<1> HIDE DEF d, n
<1>5. d \in 0 .. 63 /\ p < Found(code, p)
  BY <1>3, <1>4
<1>6. Byte(l, b, d) \in Int /\ Extra(b, d) \in 0 .. 15
  BY <1>2, <1>5, ByteIsInt
<1>7. 6 - (8 - b) \in {0, 2, 4}
  BY <1>2
<1>8. Turn(code, i) = [it |-> Found(code, p), bits |-> 6 - (8 - b), extra |-> Extra(b, d)]
  BY DEF Turn, p, b, d
<1>9. Turn(code, i).it = Found(code, p) /\ Turn(code, i) \in Decoders(code)
  BY <1>4, <1>6, <1>7, <1>8 DEF Decoders, n
<1>10. i.it < Found(code, p)
  BY <1>1, <1>2, <1>4, <1>5
<1> QED
  BY <1>6, <1>9, <1>10 DEF Gives, l, b, d

\* The n turns of decoding a text.
DecodesBy(code, n, at) ==
  /\ at \in [0 .. n -> Decoders(code)]
  /\ at[0] = [it |-> 0, bits |-> 0, extra |-> 0]
  /\ \A k \in 0 .. n - 1 : ~Stops(code, at[k]) /\ Turn(code, at[k]) = at[k + 1]
  /\ Stops(code, at[n])

\* What comes of them.
LEMMA DecodeIs ==
  ASSUME NEW code \in Seq(Int), NEW n \in Nat, NEW at, DecodesBy(code, n, at)
  PROVE  Decode(code) = [k \in 1 .. n |-> Gives(code, at[k - 1])]
<1> DEFINE D == Decoders(code)
           Start0 == [it |-> 0, bits |-> 0, extra |-> 0]
           Is(f) == f = [i \in [it : 0 .. Len(code) + 1, bits : {0, 2, 4}, extra : 0 .. 15] |->
              LET first == GetIn(code, i.it)
                  it == IF i.bits = 0 THEN Found(code, i.it) ELSE i.it
                  bits == IF i.bits = 0 THEN 6 ELSE i.bits
                  left == IF i.bits = 0 THEN first ELSE i.extra
                  digit == GetIn(code, it)
              IN IF left = AtEnd \/ digit = AtEnd THEN <<>>
                 ELSE <<Byte(left, bits, digit)>>
                        \o f[[it |-> Found(code, it), bits |-> 6 - (8 - bits),
                              extra |-> Extra(bits, digit)]]]
           from == CHOOSE f : Is(f)
           Fits(f) == f = [i \in D |-> IF Stops(code, i) THEN <<>>
                                       ELSE <<Gives(code, i)>> \o f[Turn(code, i)]]
           Stop == {i \in D : Stops(code, i)}
           next == [i \in D |-> IF Stops(code, i) THEN i ELSE Turn(code, i)]
           head == [i \in D |-> IF Stops(code, i) THEN 0 ELSE Gives(code, i)]
           N == Len(code) + 1
           rank == [i \in D |-> N - i.it]
<1>1. Decode(code) = from[Start0]
  BY DEF Decode
<1>2. \A f : Is(f) <=> Fits(f)
  BY DEF Decoders, Place, LeftBits, Left, Digit, Stops, Gives, Turn
<1>3. Len(code) \in Nat /\ N \in Nat
  OBVIOUS
<1>4. next \in [D -> D] /\ head \in [D -> Int]
  <2>1. \A i \in D : ~Stops(code, i) => Turn(code, i) \in D /\ Gives(code, i) \in Int
    BY TurnIn
  <2> HIDE DEF D
  <2> QED
    BY <2>1
<1>5. rank \in [D -> 0 .. N]
  <2>1. \A i \in D : i.it \in 0 .. N
    BY DEF Decoders
  <2>2. \A i \in D : N - i.it \in 0 .. N
    <3> HIDE DEF N, D
    <3> QED
      BY <1>3, <2>1
  <2> QED
    BY <2>2
<1>6. \A i \in D \ Stop : rank[next[i]] < rank[i]
  <2> TAKE i \in D \ Stop
  <2>1. ~Stops(code, i) /\ i \in D /\ i.it \in 0 .. N
    BY DEF Decoders
  <2>2. PICK j \in D : j = Turn(code, i) /\ next[i] = j /\ i.it < j.it /\ j.it \in 0 .. N
    <3>1. Turn(code, i) \in D /\ i.it < Turn(code, i).it
      BY <2>1, TurnIn
    <3>2. \A j \in D : j.it \in 0 .. N
      BY DEF Decoders
    <3> HIDE DEF D, N
    <3> QED
      BY <2>1, <3>1, <3>2
  <2>3. rank[j] = N - j.it /\ rank[i] = N - i.it
    BY <2>1
  <2> HIDE DEF N, rank, next, D
  <2> QED
    BY <1>3, <2>1, <2>2, <2>3
<1> HIDE DEF rank, N
<1>7. PICK g \in [D -> Seq(Int)] :
        \A i \in D : g[i] = IF i \in Stop THEN <<>> ELSE <<head[i]>> \o g[next[i]]
  <2> HIDE DEF D, Stop, next, head
  <2>1. Ends(Int, D, Stop, next, head, N, rank)
    BY <1>3, <1>4, <1>5, <1>6 DEF Ends
  <2>2. Emitters(Int, D, Stop, next, head) # {}
    BY <2>1, RunsOut
  <2> QED
    BY <2>2 DEF Emitters
<1>8. \A i \in D : /\ i \in Stop <=> Stops(code, i)
                   /\ ~Stops(code, i) => head[i] = Gives(code, i) /\ next[i] = Turn(code, i)
  OBVIOUS
<1> HIDE DEF D, Stop, next, head
<1>9. Fits(g)
  <2> DEFINE h == [i \in D |-> IF Stops(code, i) THEN <<>>
                               ELSE <<Gives(code, i)>> \o g[Turn(code, i)]]
  <2>1. \A i \in D : h[i] = g[i]
    <3> TAKE i \in D
    <3>1. h[i] = IF Stops(code, i) THEN <<>> ELSE <<Gives(code, i)>> \o g[Turn(code, i)]
      OBVIOUS
    <3> HIDE DEF h
    <3> QED
      BY <1>7, <1>8, <3>1, Zenon
  <2>2. h = [i \in D |-> h[i]] /\ g = [i \in D |-> g[i]]
    BY <1>7
  <2>3. g = h
    <3> HIDE DEF h
    <3> QED
      BY <2>1, <2>2
  <2> QED
    BY <2>3
<1>10. Fits(from)
  <2>1. Is(g)
    <3> HIDE DEF Is, Fits
    <3> QED
      BY <1>2, <1>9
  <2>2. Is(from)
    <3> HIDE DEF Is
    <3> QED
      BY <2>1, Zenon
  <2> HIDE DEF Is, Fits, from
  <2> QED
    BY <1>2, <2>2
<1> HIDE DEF from
<1>11. \A i \in D : from[i] = IF i \in Stop THEN <<>> ELSE <<head[i]>> \o from[next[i]]
  <2> TAKE i \in D
  <2>1. from[i] = IF Stops(code, i) THEN <<>> ELSE <<Gives(code, i)>> \o from[Turn(code, i)]
    BY <1>10
  <2> QED
    BY <1>8, <2>1, Zenon
<1> HIDE DEF Fits, Is
<1>12. /\ at \in [0 .. n -> D] /\ at[0] = Start0 /\ Stops(code, at[n])
       /\ \A k \in 0 .. n - 1 : ~Stops(code, at[k]) /\ Turn(code, at[k]) = at[k + 1]
  BY DEF DecodesBy, D
<1>13. /\ at[n] \in Stop
       /\ \A k \in 0 .. n - 1 : at[k] \notin Stop /\ next[at[k]] = at[k + 1]
  <2>1. \A k \in 0 .. n : at[k] \in D
    BY <1>12
  <2>2. n \in 0 .. n /\ \A k \in 0 .. n - 1 : k \in 0 .. n
    OBVIOUS
  <2> QED
    BY <1>8, <1>12, <2>1, <2>2
<1>14. Turns(Int, D, Stop, next, head, from, n, at)
  BY <1>4, <1>11, <1>12, <1>13 DEF Turns
<1>15. from[at[0]] = [k \in 1 .. n |-> head[at[k - 1]]]
  BY <1>14, Emitted
<1>16. \A k \in 1 .. n : head[at[k - 1]] = Gives(code, at[k - 1])
  <2> TAKE k \in 1 .. n
  <2>1. k - 1 \in 0 .. n - 1 /\ k - 1 \in 0 .. n
    OBVIOUS
  <2>2. at[k - 1] \in D /\ ~Stops(code, at[k - 1])
    BY <1>12, <2>1
  <2> QED
    BY <1>8, <2>2
<1> QED
  BY <1>1, <1>12, <1>15, <1>16

-----------------------------------------------------------------------------
(* Combining hashes.                                                       *)

\* Without the wrapping: what is over a word's largest value starts at one.
LEMMA CombineWordIs ==
  ASSUME NEW a \in Words, NEW b \in Words
  PROVE  /\ CombineWord(a, b) = IF a + b >= Word THEN a + b - Word + 1 ELSE a + b
         /\ CombineWord(a, b) \in Words
<1>1. Word \in Nat /\ Word > 0 /\ a \in Nat /\ b \in Nat /\ a < Word /\ b < Word
  BY WordAssumption DEF Words
<1>2. CASE a + b < Word
  <2>1. (a + b) % Word = a + b
    BY <1>1, <1>2
  <2> QED
    BY <1>1, <1>2, <2>1 DEF CombineWord, Words
<1>3. CASE a + b >= Word
  <2>1. PICK d \in Nat : d = a + b - Word /\ d + 1 < Word
    BY <1>1, <1>3
  <2>2. (a + b) % Word = d
    BY <1>1, <2>1
  <2>3. (d + 1) % Word = d + 1
    BY <1>1, <2>1
  <2> QED
    BY <1>1, <1>3, <2>1, <2>2, <2>3 DEF CombineWord, Words
<1> QED
  BY <1>1, <1>2, <1>3

(* The combination of hashes does not depend on their order or grouping,   *)
(* an empty collection adds nothing, and words that are not zero do not    *)
(* cancel out, as they would with xor or a plain sum.                      *)
THEOREM CombineIsUnordered ==
  ASSUME NEW a \in Words, NEW b \in Words, NEW c \in Words
  PROVE  /\ CombineWord(a, b) = CombineWord(b, a)
         /\ CombineWord(CombineWord(a, b), c) = CombineWord(a, CombineWord(b, c))
         /\ CombineWord(CombineWord(a, b), c) = CombineWord(CombineWord(a, c), b)
         /\ CombineWord(0, a) = a
         /\ CombineWord(a, b) = 0 => a = 0 /\ b = 0
<1>1. Word \in Nat /\ Word > 0 /\ 0 \in Words
      /\ \A x \in Words : x \in Nat /\ x < Word
  BY WordAssumption DEF Words
<1>2. \A x, y \in Words :
        /\ CombineWord(x, y) = IF x + y >= Word THEN x + y - Word + 1 ELSE x + y
        /\ CombineWord(x, y) \in Words
  BY CombineWordIs
<1>3. CombineWord(a, b) = CombineWord(b, a) /\ CombineWord(b, c) = CombineWord(c, b)
  BY <1>1, <1>2
<1>4. \A x, y, z \in Words :
        CombineWord(CombineWord(x, y), z) = CombineWord(x, CombineWord(y, z))
  BY <1>1, <1>2
<1>5. CombineWord(0, a) = a /\ (CombineWord(a, b) = 0 => a = 0 /\ b = 0)
  BY <1>1, <1>2
<1> QED
  BY <1>3, <1>4, <1>5

(* In the loop over a collection two neighbours may change places.         *)
THEOREM NeighboursSwap ==
  ASSUME NEW r \in Words \X Words, NEW g \in Words \X Words, NEW h \in Words \X Words
  PROVE  UnorderedCombineWith(UnorderedCombineWith(r, g), h)
           = UnorderedCombineWith(UnorderedCombineWith(r, h), g)
<1>1. \A i \in 1 .. 2 : r[i] \in Words /\ g[i] \in Words /\ h[i] \in Words
  OBVIOUS
<1>2. \A i \in 1 .. 2 : CombineWord(CombineWord(r[i], g[i]), h[i])
                          = CombineWord(CombineWord(r[i], h[i]), g[i])
  BY <1>1, CombineIsUnordered
<1> QED
  BY <1>2 DEF UnorderedCombineWith

-----------------------------------------------------------------------------
(* Lists of texts: what FlattenSeq() and a mestring_cat make of them.      *)

\* Induction over sequences, for a set instead of a predicate.
LEMMA BySequence ==
  ASSUME NEW D, NEW S, <<>> \in S,
         \A s \in Seq(D) : \A x \in D : s \in S => Append(s, x) \in S
  PROVE  Seq(D) \subseteq S
<1> DEFINE T == {n \in Nat : \A s \in Seq(D) : Len(s) = n => s \in S}
<1>1. 0 \in T
  BY EmptySeq
<1>2. ASSUME NEW n \in Nat, n \in T PROVE n + 1 \in T
  <2> SUFFICES ASSUME NEW s \in Seq(D), Len(s) = n + 1 PROVE s \in S
    OBVIOUS
  <2>1. s # <<>>
    OBVIOUS
  <2>2. PICK t \in Seq(D), x \in D : s = Append(t, x)
    BY <2>1, SequenceEmptyOrAppend
  <2>3. Len(t) = n
    BY <2>2, AppendProperties
  <2> QED
    BY <1>2, <2>2, <2>3
<1>3. Nat \subseteq T
  <2> HIDE DEF T
  <2> QED
    BY <1>1, <1>2, ByInduction
<1> QED
  BY <1>3

\* FlattenSeq() goes through the concatenations of the first members.
LEMMA FlattenTrace ==
  ASSUME NEW D, NEW s \in Seq(Seq(D))
  PROVE  \E v : /\ v[0] = <<>>
                /\ \A k \in 1 .. Len(s) : v[k] = v[k - 1] \o s[k] /\ v[k] \in Seq(D)
                /\ FlattenSeq(s) = v[Len(s)]
<1> DEFINE n == Len(s)
<1>1. n \in Nat /\ \A i \in 1 .. n : s[i] \in Seq(D)
  OBVIOUS
<1>2. CASE n = 0
  <2> DEFINE v == [k \in 0 .. 0 |-> <<>>]
  <2>1. s = <<>> /\ FlattenSeq(s) = s
    BY <1>2, EmptySeq DEF FlattenSeq
  <2>2. v[0] = <<>> /\ 1 .. n = {}
    BY <1>2
  <2> HIDE DEF v
  <2> QED
    BY <1>2, <2>1, <2>2
<1>3. CASE n # 0
  <2> DEFINE Is(f) == f = [i \in 1 .. n |-> IF i = 1 THEN s[i] ELSE f[i - 1] \o s[i]]
             flatten == CHOOSE f : Is(f)
             G == [i \in 1 .. n |-> [x \in Seq(D) |-> x \o s[i]]]
             h(iter) == [i \in 0 .. n |-> iter[1 .. i]]
  <2>1. FlattenSeq(s) = flatten[n]
    BY <1>3 DEF FlattenSeq
  <2> HIDE DEF n
  <2>2. G \in [1 .. n -> [Seq(D) -> Seq(D)]]
    <3>1. \A i \in 1 .. n, x \in Seq(D) : x \o s[i] \in Seq(D)
      BY <1>1, ConcatProperties
    <3> QED
      BY <3>1
  <2>3. \A i \in 1 .. n, x \in Seq(D) : G[i][x] = x \o s[i]
    OBVIOUS
  <2> HIDE DEF G
  <2>4. PICK iter \in [SUBSET (1 .. n) -> Seq(D)] :
          \A t \in SUBSET (1 .. n) :
            iter[t] = IF t = {} THEN <<>> ELSE G[Max(t)][iter[t \ {Max(t)}]]
    <3>1. <<>> \in Seq(D)
      BY EmptySeq
    <3>2. Iterations(Seq(D), <<>>, n, G) # {}
      BY <1>1, <2>2, <3>1, Iterates
    <3> QED
      BY <3>2, Zenon DEF Iterations
  <2>5. h(iter)[0] = <<>>
    <3>1. h(iter)[0] = iter[{}] /\ {} \in SUBSET (1 .. n)
      BY <1>1
    <3> QED
      BY <2>4, <3>1
  <2>6. ASSUME NEW k \in 1 .. n
        PROVE  h(iter)[k] = h(iter)[k - 1] \o s[k] /\ h(iter)[k] \in Seq(D)
    <3>1. /\ Max(1 .. k) = k /\ (1 .. k) \ {k} = 1 .. k - 1
          /\ 1 .. k \in SUBSET (1 .. n) /\ 1 .. k # {}
          /\ 1 .. k - 1 \in SUBSET (1 .. n)
      <4>1. k \in Nat /\ k > 0 /\ k <= n /\ k \in 1 .. k
        BY <1>1
      <4>2. 1 .. k \in SUBSET (1 .. n) /\ 1 .. k - 1 \in SUBSET (1 .. n)
        BY <1>1, <4>1
      <4> QED
        BY <4>1, <4>2, LargestOfInterval
    <3>2. h(iter)[k] = iter[1 .. k] /\ h(iter)[k - 1] = iter[1 .. k - 1]
      BY <1>1
    <3>3. iter[1 .. k] = G[k][iter[1 .. k - 1]]
      BY <2>4, <3>1
    <3> QED
      BY <2>3, <2>4, <3>1, <3>2, <3>3
  <2>7. PICK w : /\ w[0] = <<>>
                 /\ \A k \in 1 .. n : w[k] = w[k - 1] \o s[k] /\ w[k] \in Seq(D)
    <3>1. \A k \in 1 .. n : h(iter)[k] = h(iter)[k - 1] \o s[k] /\ h(iter)[k] \in Seq(D)
      BY <2>6
    <3> HIDE DEF h
    <3> QED
      BY <2>5, <3>1, Zenon
  <2> DEFINE f == [i \in 1 .. n |-> w[i]]
  <2>8. Is(f)
    <3>1. ASSUME NEW i \in 1 .. n
          PROVE  f[i] = IF i = 1 THEN s[i] ELSE f[i - 1] \o s[i]
      <4>1. f[i] = w[i - 1] \o s[i]
        BY <2>7
      <4>2. CASE i = 1
        <5>1. w[i - 1] = <<>> /\ s[i] \in Seq(D)
          BY <1>1, <2>7, <4>2
        <5> QED
          BY <4>1, <4>2, <5>1, ConcatEmptySeq
      <4>3. CASE i # 1
        <5>1. i - 1 \in 1 .. n
          BY <1>1, <4>3
        <5>2. f[i - 1] = w[i - 1]
          BY <5>1
        <5> HIDE DEF f
        <5> QED
          BY <4>1, <4>3, <5>2
      <4> QED
        BY <4>2, <4>3
    <3> QED
      BY <3>1
  <2>9. Is(flatten)
    BY <2>8, Zenon
  <2> DEFINE v == [i \in 0 .. n |-> IF i = 0 THEN <<>> ELSE flatten[i]]
  <2> HIDE DEF flatten, f
  <2>10. \A i \in 1 .. n : flatten[i] = IF i = 1 THEN s[i] ELSE flatten[i - 1] \o s[i]
    BY <2>9
  <2>11. v[0] = <<>> /\ \A i \in 1 .. n : v[i] = flatten[i]
    BY <1>1
  <2> HIDE DEF v, Is
  <2>12. ASSUME NEW k \in 1 .. n PROVE v[k] = v[k - 1] \o s[k]
    <3>1. CASE k = 1
      <4>1. v[k - 1] = <<>> /\ s[k] \in Seq(D) /\ v[k] = s[k]
        BY <1>1, <2>10, <2>11, <3>1
      <4> QED
        BY <4>1, ConcatEmptySeq
    <3>2. CASE k # 1
      <4>1. k - 1 \in 1 .. n
        BY <1>1, <3>2
      <4> QED
        BY <2>10, <2>11, <3>2, <4>1
    <3> QED
      BY <3>1, <3>2
  <2> DEFINE S == {k \in 0 .. n : v[k] \in Seq(D)}
  <2>13. 0 .. n \subseteq S
    <3>1. 0 \in S
      <4>1. v[0] \in Seq(D) /\ 0 \in 0 .. n
        BY <1>1, <2>11, EmptySeq
      <4> QED
        BY <4>1
    <3>2. ASSUME NEW k \in 1 .. n, k - 1 \in S PROVE k \in S
      <4>1. v[k - 1] \in Seq(D) /\ s[k] \in Seq(D) /\ k \in 0 .. n
        BY <1>1, <3>2
      <4>2. v[k] \in Seq(D)
        BY <2>12, <4>1, ConcatProperties
      <4> QED
        BY <4>1, <4>2
    <3> HIDE DEF S
    <3> QED
      BY <1>1, <3>1, <3>2, Upwards
  <2>14. \A k \in 1 .. n : v[k] \in Seq(D)
    BY <1>1, <2>13
  <2>15. v[n] = flatten[n]
    BY <1>1, <1>3, <2>11
  <2> QED
    BY <2>1, <2>11, <2>12, <2>14, <2>15 DEF n
<1> QED
  BY <1>2, <1>3

LEMMA FlattenAppend ==
  ASSUME NEW D, NEW s \in Seq(Seq(D)), NEW x \in Seq(D)
  PROVE  /\ FlattenSeq(s) \in Seq(D)
         /\ FlattenSeq(Append(s, x)) = FlattenSeq(s) \o x
         /\ FlattenSeq(<<>>) = <<>>
<1> DEFINE n == Len(s)
           t == Append(s, x)
<1>1. PICK v : /\ v[0] = <<>>
               /\ \A k \in 1 .. n : v[k] = v[k - 1] \o s[k] /\ v[k] \in Seq(D)
               /\ FlattenSeq(s) = v[n]
  BY FlattenTrace
<1>2. /\ t \in Seq(Seq(D)) /\ Len(t) = n + 1 /\ n \in Nat
      /\ (\A i \in 1 .. n : t[i] = s[i]) /\ t[n + 1] = x
  BY AppendProperties
<1>3. PICK w : /\ w[0] = <<>>
               /\ \A k \in 1 .. Len(t) : w[k] = w[k - 1] \o t[k] /\ w[k] \in Seq(D)
               /\ FlattenSeq(t) = w[Len(t)]
  <2>1. t \in Seq(Seq(D))
    BY <1>2
  <2> HIDE DEF t, n
  <2> QED
    BY <2>1, FlattenTrace
<1>0. n \in Nat
  OBVIOUS
<1> HIDE DEF n, t
<1>4. FlattenSeq(s) \in Seq(D)
  <2>1. CASE n = 0
    BY <1>1, <2>1, EmptySeq
  <2>2. CASE n # 0
    <3>1. n \in 1 .. n
      BY <1>2, <2>2
    <3> QED
      BY <1>1, <3>1
  <2> QED
    BY <2>1, <2>2
<1>5. FlattenSeq(t) = FlattenSeq(s) \o x
  <2> DEFINE S == {k \in 0 .. n : w[k] = v[k]}
  <2>1. 0 \in S
    BY <1>1, <1>2, <1>3
  <2>2. ASSUME NEW k \in 1 .. n, k - 1 \in S PROVE k \in S
    <3>1. k \in 1 .. Len(t) /\ k \in 0 .. n
      BY <1>2
    <3>2. w[k] = w[k - 1] \o t[k] /\ v[k] = v[k - 1] \o s[k] /\ t[k] = s[k]
      BY <1>1, <1>2, <1>3, <3>1
    <3>3. w[k - 1] = v[k - 1]
      BY <2>2
    <3> QED
      BY <3>1, <3>2, <3>3
  <2> HIDE DEF S
  <2>3. 0 .. n \subseteq S
    BY <1>2, <2>1, <2>2, Upwards
  <2>4. n \in 0 .. n /\ Len(t) \in 1 .. Len(t) /\ Len(t) - 1 = n
    BY <1>0, <1>2
  <2>5. w[n] = v[n]
    BY <2>3, <2>4 DEF S
  <2> QED
    BY <1>1, <1>2, <1>3, <2>4, <2>5
<1>6. FlattenSeq(<<>>) = <<>>
  BY DEF FlattenSeq
<1> QED
  BY <1>4, <1>5, <1>6 DEF t

LEMMA FlattenConcat ==
  ASSUME NEW D, NEW s \in Seq(Seq(D)), NEW t \in Seq(Seq(D))
  PROVE  FlattenSeq(s \o t) = FlattenSeq(s) \o FlattenSeq(t)
<1> DEFINE S == {u \in Seq(Seq(D)) : FlattenSeq(s \o u) = FlattenSeq(s) \o FlattenSeq(u)}
<1>1. <<>> \in S
  <2>1. s \o <<>> = s /\ FlattenSeq(s) \in Seq(D) /\ FlattenSeq(<<>>) = <<>>
    BY EmptySeq, ConcatEmptySeq, FlattenAppend
  <2>2. FlattenSeq(s) \o <<>> = FlattenSeq(s)
    BY <2>1, ConcatEmptySeq
  <2>3. <<>> \in Seq(Seq(D))
    BY EmptySeq
  <2> QED
    BY <2>1, <2>2, <2>3
<1>2. ASSUME NEW u \in Seq(Seq(D)), NEW x \in Seq(D), u \in S PROVE Append(u, x) \in S
  <2>1. s \o Append(u, x) = Append(s \o u, x)
    <3> DEFINE E == Seq(D)
    <3>1. s \in Seq(E) /\ u \in Seq(E) /\ x \in E
      OBVIOUS
    <3> HIDE DEF E
    <3>2. s \o u \in Seq(E) /\ <<x>> \in Seq(E) /\ Append(u, x) = u \o <<x>>
      BY <3>1, ConcatProperties, AppendIsConcat
    <3>3. Append(s \o u, x) = (s \o u) \o <<x>>
      BY <3>1, <3>2, AppendIsConcat
    <3> QED
      BY <3>1, <3>2, <3>3, ConcatAssociative, SMTT(30)
  <2>2. s \o u \in Seq(Seq(D)) /\ Append(u, x) \in Seq(Seq(D))
    BY ConcatProperties, AppendProperties
  <2>3. /\ FlattenSeq(Append(s \o u, x)) = FlattenSeq(s \o u) \o x
        /\ FlattenSeq(Append(u, x)) = FlattenSeq(u) \o x
        /\ FlattenSeq(s) \in Seq(D) /\ FlattenSeq(u) \in Seq(D)
    BY <2>2, FlattenAppend
  <2>4. FlattenSeq(s \o u) = FlattenSeq(s) \o FlattenSeq(u)
    BY <1>2
  <2>5. (FlattenSeq(s) \o FlattenSeq(u)) \o x = FlattenSeq(s) \o (FlattenSeq(u) \o x)
    BY <2>3, ConcatAssociative, SMTT(30)
  <2> QED
    BY <2>1, <2>2, <2>3, <2>4, <2>5
<1> HIDE DEF S
<1>3. Seq(Seq(D)) \subseteq S
  BY <1>1, <1>2, BySequence
<1> QED
  BY <1>3 DEF S

LEMMA FlattenFirst ==
  ASSUME NEW D, NEW s \in Seq(Seq(D)), s # <<>>
  PROVE  /\ s[1] \in Seq(D) /\ Tail(s) \in Seq(Seq(D))
         /\ FlattenSeq(s) = s[1] \o FlattenSeq(Tail(s))
<1> DEFINE E == Seq(D)
<1>1. s \in Seq(E) /\ s[1] \in E /\ Tail(s) \in Seq(E) /\ <<s[1]>> \in Seq(E) /\ Len(s) \in Nat /\ Len(s) >= 1
  <2>1. s \in Seq(E)
    OBVIOUS
  <2> HIDE DEF E
  <2> QED
    BY <2>1
<1>2. s = <<s[1]>> \o Tail(s)
  <2> HIDE DEF E
  <2> QED
    BY <1>1
<1>3. FlattenSeq(<<s[1]>>) = s[1]
  <2>1. <<s[1]>> = Append(<<>>, s[1]) /\ <<>> \in Seq(Seq(D))
    BY <1>1, EmptySeq
  <2>2. FlattenSeq(<<s[1]>>) = <<>> \o s[1]
    BY <1>1, <2>1, FlattenAppend
  <2> QED
    BY <1>1, <2>2, ConcatEmptySeq
<1> QED
  BY <1>1, <1>2, <1>3, FlattenConcat

LEMMA FlattenIsSeq ==
  ASSUME NEW D, NEW s \in Seq(Seq(D))
  PROVE  FlattenSeq(s) \in Seq(D)
<1>1. <<>> \in Seq(D)
  BY EmptySeq
<1> QED
  BY <1>1, FlattenAppend

\* AddCat() adds one piece after the other, and none that is empty.
LEMMA AddCatIs ==
  ASSUME NEW D, NEW cat \in Seq(Seq(D)), NEW other \in Seq(Seq(D))
  PROVE  /\ AddCat(cat, other) \in Seq(Seq(D))
         /\ FlattenSeq(AddCat(cat, other)) = FlattenSeq(cat) \o FlattenSeq(other)
         /\ (\A k \in DOMAIN cat : cat[k] # <<>>) =>
              \A k \in DOMAIN AddCat(cat, other) : AddCat(cat, other)[k] # <<>>
<1>1. PICK v : /\ v[0] = cat
               /\ \A k \in 1 .. Len(other) : v[k] = AddMestring(v[k - 1], other[k])
               /\ AddCat(cat, other) = v[Len(other)]
  <2> DEFINE n == Len(other)
             Op(x, i) == AddMestring(x, other[i])
             Is(iter) == iter = [s \in SUBSET DOMAIN other |->
                                   IF s = {} THEN cat
                                   ELSE Op(iter[s \ {Max(s)}], Max(s))]
             it == CHOOSE iter : Is(iter)
  <2>1. n \in Nat /\ DOMAIN other = 1 .. n
    OBVIOUS
  <2>2. \A i \in 1 .. n, x \in Seq(Seq(D)) : Op(x, i) \in Seq(Seq(D))
    <3>1. \A i \in 1 .. n : other[i] \in Seq(D)
      OBVIOUS
    <3> HIDE DEF n
    <3>2. \A x \in Seq(Seq(D)), m \in Seq(D) : AddMestring(x, m) \in Seq(Seq(D))
      BY AppendProperties DEF AddMestring
    <3> QED
      BY <3>1, <3>2
  <2>3. AddCat(cat, other) = it[DOMAIN other]
    BY DEF AddCat, FoldLeft, MapThenFoldSet
  <2> HIDE DEF n, Op
  <2>4. PICK iter : \A s \in SUBSET (1 .. n) :
            iter[s] = IF s = {} THEN cat ELSE Op(iter[s \ {Max(s)}], Max(s))
    <3> DEFINE G == [i \in 1 .. n |-> [x \in Seq(Seq(D)) |-> Op(x, i)]]
    <3>1. G \in [1 .. n -> [Seq(Seq(D)) -> Seq(Seq(D))]]
      BY <2>2
    <3>2. \A i \in 1 .. n : \A x \in Seq(Seq(D)) : G[i][x] = Op(x, i)
      OBVIOUS
    <3>3. cat \in Seq(Seq(D)) /\ n \in Nat
      BY <2>1
    <3> HIDE DEF G
    <3>4. PICK iter \in [SUBSET (1 .. n) -> Seq(Seq(D))] :
          \A s \in SUBSET (1 .. n) :
            iter[s] = IF s = {} THEN cat ELSE G[Max(s)][iter[s \ {Max(s)}]]
      <4>1. Iterations(Seq(Seq(D)), cat, n, G) # {}
        BY <3>1, <3>3, Iterates
      <4> QED
        BY <4>1, Zenon DEF Iterations
    <3>5. \A s \in SUBSET (1 .. n) : s # {} =>
              Max(s) \in 1 .. n /\ s \ {Max(s)} \in SUBSET (1 .. n)
      BY <2>1, LargestMember
    <3>6. \A s \in SUBSET (1 .. n) : s # {} => iter[s] = Op(iter[s \ {Max(s)}], Max(s))
      BY <3>2, <3>4, <3>5
    <3>7. \A s \in SUBSET (1 .. n) :
            iter[s] = IF s = {} THEN cat ELSE Op(iter[s \ {Max(s)}], Max(s))
      BY <3>4, <3>6
    <3> QED
      BY <3>7, Zenon
  <2>5. \E f : Is(f)
    <3> DEFINE f == [s \in SUBSET (1 .. n) |-> iter[s]]
    <3>1. \A s \in SUBSET (1 .. n) : f[s] = iter[s] /\ f[s \ {Max(s)}] = iter[s \ {Max(s)}]
      BY Zenon
    <3>2. f = [s \in SUBSET (1 .. n) |->
                                   IF s = {} THEN cat
                                   ELSE Op(f[s \ {Max(s)}], Max(s))]
      BY <2>4, <3>1
    <3> HIDE DEF f
    <3> QED
      BY <2>1, <3>2
  <2>6. it = [s \in SUBSET (1 .. n) |->
                IF s = {} THEN cat ELSE Op(it[s \ {Max(s)}], Max(s))]
    BY <2>1, <2>5, Zenon
  <2> HIDE DEF it
  <2> DEFINE v == [k \in 0 .. n |-> it[1 .. k]]
  <2>7. v[0] = cat /\ v[n] = it[DOMAIN other]
    <3>1. v[0] = it[{}] /\ v[n] = it[1 .. n] /\ {} \in SUBSET (1 .. n)
      BY <2>1
    <3>2. it[{}] = cat
      BY <2>6, <3>1
    <3> QED
      BY <2>1, <3>1, <3>2
  <2>8. ASSUME NEW k \in 1 .. n PROVE v[k] = Op(v[k - 1], k)
    <3>1. /\ Max(1 .. k) = k /\ (1 .. k) \ {k} = 1 .. k - 1
          /\ 1 .. k \in SUBSET (1 .. n) /\ 1 .. k # {}
      <4>1. k \in Nat /\ k > 0 /\ k <= n
        BY <2>1
      <4>2. 1 .. k \in SUBSET (1 .. n) /\ k \in 1 .. k
        BY <2>1, <4>1
      <4> QED
        BY <4>1, <4>2, LargestOfInterval
    <3>2. v[k] = it[1 .. k] /\ v[k - 1] = it[1 .. k - 1]
      BY <2>1
    <3> HIDE DEF v
    <3>3. it[1 .. k] = Op(it[(1 .. k) \ {Max(1 .. k)}], Max(1 .. k))
      BY <2>6, <3>1
    <3> QED
      BY <3>1, <3>2, <3>3
  <2> HIDE DEF v
  <2> QED
    BY <2>3, <2>7, <2>8 DEF n, Op
<1> DEFINE n == Len(other)
           E == Seq(D)
           Full(c) == \A k \in DOMAIN c : c[k] # <<>>
<1>2. n \in Nat /\ (\A k \in 1 .. n : other[k] \in E) /\ SubSeq(other, 1, n) = other
  OBVIOUS
<1>3. ASSUME NEW c \in Seq(E), NEW m \in E
      PROVE  /\ AddMestring(c, m) \in Seq(E)
             /\ FlattenSeq(AddMestring(c, m)) = FlattenSeq(c) \o m
             /\ Full(c) => Full(AddMestring(c, m))
  <2>1. FlattenSeq(c) \in Seq(D) /\ FlattenSeq(Append(c, m)) = FlattenSeq(c) \o m
    BY FlattenAppend
  <2>2. CASE m = <<>>
    <3>1. FlattenSeq(c) \o <<>> = FlattenSeq(c)
      BY <2>1, ConcatEmptySeq
    <3> QED
      BY <2>2, <3>1 DEF AddMestring
  <2>3. CASE m # <<>>
    <3>1. AddMestring(c, m) = Append(c, m)
      BY <2>3 DEF AddMestring
    <3> HIDE DEF E
    <3>2. Append(c, m) \in Seq(E)
      BY AppendProperties
    <3>3. Full(c) => Full(Append(c, m))
      BY <2>3
    <3> QED
      BY <2>1, <3>1, <3>2, <3>3
  <2> QED
    BY <2>2, <2>3
<1> DEFINE Good(k) == /\ v[k] \in Seq(E)
                      /\ FlattenSeq(v[k]) = FlattenSeq(cat) \o FlattenSeq(SubSeq(other, 1, k))
                      /\ Full(cat) => Full(v[k])
<1>4. Good(0)
  <2>1. SubSeq(other, 1, 0) = <<>>
    BY SubSeqEmpty
  <2>2. FlattenSeq(<<>>) = <<>> /\ FlattenSeq(cat) \in Seq(D)
    BY FlattenAppend, EmptySeq
  <2>3. FlattenSeq(cat) \o <<>> = FlattenSeq(cat)
    BY <2>2, ConcatEmptySeq
  <2> QED
    BY <1>1, <2>1, <2>2, <2>3
<1>5. ASSUME NEW k \in 1 .. n, Good(k - 1) PROVE Good(k)
  <2> DEFINE rest == SubSeq(other, 1, k - 1)
  <2>1. other[k] \in E /\ v[k] = AddMestring(v[k - 1], other[k]) /\ v[k - 1] \in Seq(E)
    BY <1>1, <1>2, <1>5
  <2>2. rest \in Seq(E) /\ SubSeq(other, 1, k) = Append(rest, other[k])
    <3>1. other \in Seq(E) /\ n = Len(other)
      OBVIOUS
    <3> HIDE DEF E, n
    <3>2. k \in Nat /\ k >= 1 /\ k <= Len(other)
      BY <1>2, <3>1
    <3> QED
      BY <3>1, <3>2
  <2> HIDE DEF rest
  <2>3. FlattenSeq(SubSeq(other, 1, k)) = FlattenSeq(rest) \o other[k]
    BY <2>1, <2>2, FlattenAppend
  <2>4. FlattenSeq(v[k]) = (FlattenSeq(cat) \o FlattenSeq(rest)) \o other[k]
    BY <1>3, <1>5, <2>1 DEF rest
  <2>5. FlattenSeq(cat) \in Seq(D) /\ FlattenSeq(rest) \in Seq(D) /\ other[k] \in Seq(D)
    <3>1. rest \in Seq(Seq(D)) /\ other[k] \in Seq(D)
      BY <2>1, <2>2
    <3> HIDE DEF E
    <3> QED
      BY <3>1, FlattenIsSeq
  <2>6. FlattenSeq(v[k]) = FlattenSeq(cat) \o (FlattenSeq(rest) \o other[k])
    <3> DEFINE x1 == FlattenSeq(cat)
               x2 == FlattenSeq(rest)
               x3 == other[k]
    <3>1. x1 \in Seq(D) /\ x2 \in Seq(D) /\ x3 \in Seq(D)
      BY <2>5
    <3>2. FlattenSeq(v[k]) = (x1 \o x2) \o x3
      BY <2>4
    <3> HIDE DEF x1, x2, x3, Good, Full, E, n
    <3>3. (x1 \o x2) \o x3 = x1 \o (x2 \o x3)
      BY <3>1, ConcatAssociative, SMTT(30)
    <3>4. FlattenSeq(v[k]) = x1 \o (x2 \o x3)
      BY <3>2, <3>3
    <3> QED
      BY <3>4 DEF x1, x2, x3
  <2>7. v[k] \in Seq(E) /\ (Full(cat) => Full(v[k]))
    <3> HIDE DEF E, Full
    <3> QED
      BY <1>3, <1>5, <2>1
  <2> QED
    BY <2>3, <2>6, <2>7
<1> HIDE DEF Good
<1> DEFINE S == {k \in 0 .. n : Good(k)}
<1>6. 0 \in S
  BY <1>2, <1>4
<1>7. \A k \in 1 .. n : k - 1 \in S => k \in S
  BY <1>2, <1>5
<1> HIDE DEF n
<1>8. n \in 0 .. n
  BY <1>2
<1> HIDE DEF S
<1>9. 0 .. n \subseteq S
  BY <1>2, <1>6, <1>7, Upwards
<1>10. Good(n)
  BY <1>8, <1>9 DEF S
<1>11. /\ v[n] \in Seq(E)
       /\ FlattenSeq(v[n]) = FlattenSeq(cat) \o FlattenSeq(SubSeq(other, 1, n))
       /\ Full(cat) => Full(v[n])
  BY <1>10 DEF Good
<1>12. AddCat(cat, other) = v[n]
  BY <1>1 DEF n
<1> QED
  BY <1>2, <1>11, <1>12

LEMMA PartIsSeq ==
  ASSUME NEW D, NEW s \in Seq(D), NEW m \in Int, NEW n \in Int, m >= 1, n <= Len(s)
  PROVE  SubSeq(s, m, n) \in Seq(D)
<1>1. \A i \in m .. n : s[i] \in D
  OBVIOUS
<1> QED
  BY <1>1, SubSeqProperties

LEMMA FindIndexIn ==
  ASSUME NEW text \in Seq(Int), NEW m \in Seq(Int)
  PROVE  /\ FindIndex(text, m) \in -1 .. Len(text)
         /\ m # <<>> => FindIndex(text, m) < Len(text) \/ text = <<>>
<1>1. Hits(text, m) \in SUBSET (1 .. Len(text)) /\ Len(text) \in Nat
  BY DEF Hits
<1>2. ASSUME Hits(text, m) # {} PROVE Min(Hits(text, m)) \in 1 .. Len(text)
  <2> DEFINE H == Hits(text, m)
  <2>1. H \in SUBSET Nat
    BY <1>1
  <2>2. PICK x \in H : \A y \in H : x <= y
    BY <1>2, <2>1, LeastNumber
  <2>3. Min(H) \in H
    BY <2>2 DEF Min
  <2> QED
    BY <1>1, <2>3
<1> QED
  BY <1>1, <1>2, SMTT(30) DEF FindIndex

\* Part of a text, byte by byte.
LEMMA PartIs ==
  ASSUME NEW t \in Seq(Int), NEW a \in Nat, NEW b \in a .. Len(t)
  PROVE  /\ SubSeq(t, a + 1, b) \in Seq(Int) /\ Len(SubSeq(t, a + 1, b)) = b - a
         /\ \A i \in 1 .. b - a : SubSeq(t, a + 1, b)[i] = t[a + i]
<1>1. /\ Len(t) \in Nat /\ a + 1 \in Int /\ b \in Int /\ a + 1 >= 1 /\ a + 1 <= b + 1
      /\ b - (a + 1) + 1 = b - a
      /\ \A i \in a + 1 .. b : t[i] \in Int
  BY LenProperties
<1>2. /\ SubSeq(t, a + 1, b) \in Seq(Int)
      /\ Len(SubSeq(t, a + 1, b)) = IF a + 1 <= b THEN b - (a + 1) + 1 ELSE 0
      /\ \A i \in 1 .. b - (a + 1) + 1 : SubSeq(t, a + 1, b)[i] = t[(a + 1) + i - 1]
  BY <1>1, SubSeqProperties
<1> QED
  BY <1>1, <1>2

\* A text has m at k when it has its bytes from there on.
LEMMA HitIs ==
  ASSUME NEW t \in Seq(Int), NEW m \in Seq(Int), NEW k \in 1 .. Len(t)
  PROVE  k \in Hits(t, m) <=> /\ k + Len(m) - 1 <= Len(t)
                              /\ \A j \in 1 .. Len(m) : t[k + j - 1] = m[j]
<1> DEFINE u == SubSeq(t, k, Len(t))
           n == Len(m)
           v == SubSeq(u, 1, n)
<1>1. Len(t) \in Nat /\ n \in Nat /\ k \in Nat
  BY LenProperties
<1>2. /\ u \in Seq(Int) /\ Len(u) = Len(t) - k + 1
      /\ \A i \in 1 .. Len(t) - k + 1 : u[i] = t[k + i - 1]
  <2>1. PICK a \in Nat : k = a + 1
    <3>1. k - 1 \in Nat /\ k = (k - 1) + 1
      BY <1>1
    <3> QED
      BY <3>1
  <2> DEFINE w == SubSeq(t, a + 1, Len(t))
  <2>2. Len(t) \in a .. Len(t)
    BY <1>1, <2>1
  <2>3. w \in Seq(Int) /\ Len(w) = Len(t) - a /\ \A i \in 1 .. Len(t) - a : w[i] = t[a + i]
    BY <2>2, PartIs
  <2>4. u = w
    BY <2>1
  <2> HIDE DEF u, w
  <2>5. Len(t) - a = Len(t) - k + 1
    BY <1>1, <2>1
  <2>6. ASSUME NEW i \in 1 .. Len(t) - k + 1 PROVE u[i] = t[k + i - 1]
    <3>1. i \in 1 .. Len(t) - a /\ a + i = k + i - 1
      BY <1>1, <2>1
    <3> QED
      BY <2>3, <2>4, <3>1
  <2> QED
    BY <2>3, <2>4, <2>5, <2>6
<1> HIDE DEF u, n
<1>3. IsPrefix(m, u) <=> n <= Len(u) /\ SubSeq(m, 1, n) = v
  BY DEF IsPrefix, n
<1>4. SubSeq(m, 1, n) = m
  BY SubSeqFull DEF n
<1>5. ASSUME n <= Len(u)
      PROVE  m = v <=> \A j \in 1 .. n : t[k + j - 1] = m[j]
  <2>1. /\ v \in Seq(Int) /\ Len(v) = n /\ \A i \in 1 .. n : v[i] = u[i]
    <3>1. 0 \in Nat /\ n \in 0 .. Len(u) /\ 0 + 1 = 1 /\ n - 0 = n /\ \A i \in Int : 0 + i = i
      BY <1>1, <1>2, <1>5
    <3> QED
      BY <1>2, <3>1, PartIs
  <2> HIDE DEF v
  <2>2. \A i \in 1 .. n : i \in 1 .. Len(t) - k + 1
    BY <1>1, <1>2, <1>5
  <2>3. \A i \in 1 .. n : v[i] = t[k + i - 1]
    BY <1>2, <2>1, <2>2
  <2>4. (\A i \in 1 .. n : v[i] = m[i]) => v = m
    BY <2>1, SeqEqual DEF n
  <2> QED
    BY <2>3, <2>4
<1>6. n <= Len(u) <=> k + n - 1 <= Len(t)
  BY <1>1, <1>2
<1>7. k \in Hits(t, m) <=> IsPrefix(m, u)
  BY DEF Hits, u
<1> QED
  BY <1>3, <1>4, <1>5, <1>6, <1>7 DEF n

\* The first hit.
LEMMA FoundAt ==
  ASSUME NEW t \in Seq(Int), NEW m \in Seq(Int), m # <<>>, NEW k \in Hits(t, m),
         \A j \in Hits(t, m) : k <= j
  PROVE  FindIndex(t, m) = k - 1
<1>1. Hits(t, m) \subseteq Int
  BY DEF Hits
<1>2. Min(Hits(t, m)) = k
  BY <1>1 DEF Min
<1> QED
  BY <1>2 DEF FindIndex

\* What is found in the beginning of a text is what is found in the text.
LEMMA FoundInPart ==
  ASSUME NEW t \in Seq(Int), NEW m \in Seq(Int), m # <<>>, NEW a \in Nat, NEW b \in a .. Len(t),
         FindIndex(SubSeq(t, a + 1, b), m) # -1
  PROVE  /\ FindIndex(SubSeq(t, a + 1, Len(t)), m) = FindIndex(SubSeq(t, a + 1, b), m)
         /\ FindIndex(SubSeq(t, a + 1, b), m) \in 0 .. b - a - Len(m)
<1> DEFINE p == SubSeq(t, a + 1, b)
           r == SubSeq(t, a + 1, Len(t))
           H == Hits(p, m)
<1>1. /\ p \in Seq(Int) /\ Len(p) = b - a /\ \A i \in 1 .. b - a : p[i] = t[a + i]
      /\ r \in Seq(Int) /\ Len(r) = Len(t) - a /\ \A i \in 1 .. Len(t) - a : r[i] = t[a + i]
      /\ Len(t) \in Nat /\ Len(m) \in Nat /\ Len(t) \in a .. Len(t)
  <2>1. Len(t) \in Nat /\ Len(t) \in a .. Len(t) /\ Len(m) \in Nat
    BY LenProperties
  <2> QED
    BY <2>1, PartIs
<1> HIDE DEF p, r, H
<1>2. H # {} /\ H \subseteq 1 .. Len(p) /\ H \subseteq Nat
  <2>1. FindIndex(p, m) # -1
    BY DEF p
  <2>2. Hits(p, m) # {}
    BY <2>1 DEF FindIndex
  <2>3. Hits(p, m) \subseteq 1 .. Len(p) /\ 1 .. Len(p) \subseteq Nat
    BY <1>1 DEF Hits
  <2> QED
    BY <2>2, <2>3 DEF H
<1>3. PICK k \in H : \A j \in H : k <= j
  BY <1>2, LeastNumber
<1>4. FindIndex(p, m) = k - 1
  BY <1>1, <1>3, FoundAt DEF H
<1>5. k \in 1 .. b - a /\ k + Len(m) - 1 <= b - a
      /\ \A j \in 1 .. Len(m) : p[k + j - 1] = m[j]
  BY <1>1, <1>2, <1>3, HitIs DEF H
<1> DEFINE n == Len(m)
           l == Len(t)
<1>0. /\ n \in Nat /\ l \in Nat /\ a \in Nat /\ b \in a .. l /\ k \in 1 .. b - a
      /\ k + n - 1 <= b - a /\ Len(p) = b - a /\ Len(r) = l - a
  BY <1>1, <1>5
<1> HIDE DEF n, l
<1>6. k \in Hits(r, m)
  <2>1. k \in 1 .. Len(r) /\ k + n - 1 <= Len(r)
    BY <1>0
  <2>2. ASSUME NEW j \in 1 .. Len(m) PROVE r[k + j - 1] = m[j]
    <3>1. j \in 1 .. n
      BY DEF n
    <3>2. k + j - 1 \in 1 .. b - a /\ k + j - 1 \in 1 .. l - a
      BY <1>0, <3>1
    <3> QED
      BY <1>1, <1>5, <3>2 DEF l
  <2> QED
    BY <1>1, <2>1, <2>2, HitIs DEF n
<1>7. ASSUME NEW j \in Hits(r, m) PROVE k <= j
  <2> SUFFICES ASSUME j < k PROVE FALSE
    <3>1. j \in Int /\ k \in Int
      BY <1>5 DEF Hits
    <3> QED
      BY <3>1
  <2>1. j \in 1 .. Len(r) /\ \A i \in 1 .. n : r[j + i - 1] = m[i]
    <3>1. j \in 1 .. Len(r)
      BY <1>7 DEF Hits
    <3> QED
      BY <1>1, <1>7, <3>1, HitIs DEF n
  <2>2. j \in 1 .. Len(p) /\ j + n - 1 <= Len(p)
    BY <1>0, <2>1
  <2>3. ASSUME NEW i \in 1 .. n PROVE p[j + i - 1] = m[i]
    <3>1. j + i - 1 \in 1 .. b - a /\ j + i - 1 \in 1 .. l - a
      BY <1>0, <2>1, <2>2
    <3> QED
      BY <1>1, <2>1, <3>1 DEF l
  <2>4. j \in H
    BY <1>1, <2>2, <2>3, HitIs DEF H, n
  <2> QED
    BY <1>0, <1>3, <2>1, <2>4
<1>8. FindIndex(r, m) = k - 1
  BY <1>1, <1>6, <1>7, FoundAt
<1>9. k - 1 \in 0 .. b - a - Len(m)
  BY <1>0 DEF n
<1> QED
  BY <1>4, <1>8, <1>9 DEF p, r

-----------------------------------------------------------------------------
(* Folds, step by step.                                                    *)

\* As far as it stays in D, it recurs in that way.
Recurs(it, D, base, n, G) ==
  \A s \in SUBSET (1 .. n) :
    IF s = {} THEN it[s] = base
    ELSE it[s \ {Max(s)}] \in D => it[s] = G[Max(s)][it[s \ {Max(s)}]]

\* The values it then goes through, one member after the other.
GoesThrough(it, D, base, n, G) ==
  {v \in [0 .. n -> D] : /\ v[0] = base
                         /\ \A k \in 1 .. n : v[k] = G[k][v[k - 1]]
                         /\ it[1 .. n] = v[n]}

\* A fold whose steps stay in D goes through such values.
LEMMA FoldGoes ==
  ASSUME NEW D, NEW base \in D, NEW n \in Nat, NEW G \in [1 .. n -> [D -> D]], NEW it,
         Recurs(it, D, base, n, G)
  PROVE  GoesThrough(it, D, base, n, G) # {}
<1> DEFINE v == [k \in 0 .. n |-> it[1 .. k]]
           S == {k \in 0 .. n : v[k] \in D}
<1>1. 1 .. 0 = {} /\ {} \in SUBSET (1 .. n)
  OBVIOUS
<1>2. v[0] = base /\ v[n] = it[1 .. n]
  <2>1. it[{}] = base
    BY <1>1 DEF Recurs
  <2>2. v[0] = it[1 .. 0] /\ v[n] = it[1 .. n]
    OBVIOUS
  <2> QED
    BY <1>1, <2>1, <2>2
<1>3. ASSUME NEW k \in 1 .. n, k - 1 \in S PROVE k \in S /\ v[k] = G[k][v[k - 1]]
  <2>1. k \in Nat /\ k > 0 /\ k <= n
    OBVIOUS
  <2>2. /\ Max(1 .. k) = k /\ (1 .. k) \ {k} = 1 .. k - 1
        /\ 1 .. k \in SUBSET (1 .. n) /\ 1 .. k # {}
    <3>1. 1 .. k \in SUBSET (1 .. n) /\ k \in 1 .. k
      BY <2>1
    <3> QED
      BY <2>1, <3>1, LargestOfInterval
  <2>3. v[k] = it[1 .. k] /\ v[k - 1] = it[1 .. k - 1] /\ v[k - 1] \in D
    BY <1>3, <2>1
  <2> HIDE DEF v
  <2>4. it[1 .. k] = G[k][it[1 .. k - 1]]
    BY <2>2, <2>3 DEF Recurs
  <2> QED
    BY <2>1, <2>3, <2>4
<1>4. 0 .. n \subseteq S
  <2>1. 0 \in S
    BY <1>2
  <2> HIDE DEF S
  <2> QED
    BY <1>3, <2>1, Upwards
<1>5. v \in [0 .. n -> D]
  BY <1>4
<1>6. \A k \in 1 .. n : v[k] = G[k][v[k - 1]]
  <2>1. \A k \in 1 .. n : k - 1 \in 0 .. n
    OBVIOUS
  <2> HIDE DEF v
  <2> QED
    BY <1>3, <1>4, <2>1
<1> HIDE DEF v
<1> QED
  BY <1>2, <1>5, <1>6 DEF GoesThrough

\* size() goes through the sizes of the first pieces.
LEMMA SizeTrace ==
  ASSUME NEW D, NEW c \in Seq(Seq(D))
  PROVE  \E v : /\ v[0] = 0
                /\ \A k \in 1 .. Len(c) : v[k] \in Nat /\ v[k] = v[k - 1] + Len(c[k])
                /\ Size(c) = v[Len(c)]
<1> DEFINE n == Len(c)
           Op(x, i) == x + Len(c[i])
           Is(iter) == iter = [s \in SUBSET DOMAIN c |->
                                 IF s = {} THEN 0
                                 ELSE Op(iter[s \ {Max(s)}], Max(s))]
           it == CHOOSE iter : Is(iter)
           G == [i \in 1 .. n |-> [x \in Nat |-> Op(x, i)]]
<1>1. n \in Nat /\ DOMAIN c = 1 .. n
  OBVIOUS
<1>2. \A i \in 1 .. n, x \in Nat : Op(x, i) \in Nat
  <2>1. \A i \in 1 .. n : Len(c[i]) \in Nat
    OBVIOUS
  <2> QED
    BY <2>1
<1>3. Size(c) = it[DOMAIN c]
  BY DEF Size, FoldLeft, MapThenFoldSet
<1> HIDE DEF n, Op
<1>4. G \in [1 .. n -> [Nat -> Nat]] /\ \A i \in 1 .. n : \A x \in Nat : G[i][x] = Op(x, i)
  BY <1>2
<1> HIDE DEF G
<1>5. \A s \in SUBSET (1 .. n) : s # {} => Max(s) \in 1 .. n /\ s \ {Max(s)} \in SUBSET (1 .. n)
  BY <1>1, LargestMember
<1>6. PICK fold \in [SUBSET (1 .. n) -> Nat] :
        \A s \in SUBSET (1 .. n) :
          fold[s] = IF s = {} THEN 0 ELSE G[Max(s)][fold[s \ {Max(s)}]]
  <2>1. Iterations(Nat, 0, n, G) # {}
    BY <1>1, <1>4, Iterates
  <2> QED
    BY <2>1, Zenon DEF Iterations
<1>7. Is(fold)
  <2>1. \A s \in SUBSET (1 .. n) :
          fold[s] = IF s = {} THEN 0 ELSE Op(fold[s \ {Max(s)}], Max(s))
    BY <1>4, <1>5, <1>6
  <2>2. fold = [s \in SUBSET (1 .. n) |->
                  IF s = {} THEN 0 ELSE Op(fold[s \ {Max(s)}], Max(s))]
    BY <1>6, <2>1
  <2> QED
    BY <1>1, <2>2
<1>8. it = [s \in SUBSET (1 .. n) |->
              IF s = {} THEN 0 ELSE Op(it[s \ {Max(s)}], Max(s))]
  BY <1>1, <1>7, Zenon
<1> HIDE DEF it
<1>9. PICK v \in [0 .. n -> Nat] :
        /\ v[0] = 0 /\ it[1 .. n] = v[n]
        /\ \A k \in 1 .. n : v[k] = G[k][v[k - 1]]
  <2>1. Recurs(it, Nat, 0, n, G)
    <3>1. ASSUME NEW s \in SUBSET (1 .. n)
          PROVE  it[s] = IF s = {} THEN 0 ELSE Op(it[s \ {Max(s)}], Max(s))
      BY <1>8
    <3>2. ASSUME NEW s \in SUBSET (1 .. n), s # {}, it[s \ {Max(s)}] \in Nat
          PROVE  it[s] = G[Max(s)][it[s \ {Max(s)}]]
      BY <1>4, <1>5, <3>1, <3>2
    <3> QED
      BY <3>1, <3>2 DEF Recurs
  <2>2. GoesThrough(it, Nat, 0, n, G) # {}
    BY <1>1, <1>4, <2>1, FoldGoes
  <2> QED
    BY <2>2 DEF GoesThrough
<1>10. \A k \in 1 .. n : v[k] \in Nat /\ v[k] = v[k - 1] + Len(c[k])
  <2>1. \A k \in 1 .. n : k - 1 \in 0 .. n /\ k \in 0 .. n
    BY <1>1
  <2> QED
    BY <1>4, <1>9, <2>1 DEF Op
<1> QED
  BY <1>1, <1>3, <1>9, <1>10 DEF n

\* size() is the length of the text.
LEMMA SizeIs ==
  ASSUME NEW D, NEW c \in Seq(Seq(D))
  PROVE  Size(c) = Len(FlattenSeq(c))
<1> DEFINE n == Len(c)
<1>1. PICK v : /\ v[0] = 0
               /\ \A k \in 1 .. n : v[k] \in Nat /\ v[k] = v[k - 1] + Len(c[k])
               /\ Size(c) = v[n]
  BY SizeTrace
<1>2. PICK w : /\ w[0] = <<>>
               /\ \A k \in 1 .. n : w[k] = w[k - 1] \o c[k] /\ w[k] \in Seq(D)
               /\ FlattenSeq(c) = w[n]
  BY FlattenTrace
<1>3. n \in Nat /\ \A k \in 1 .. n : c[k] \in Seq(D)
  OBVIOUS
<1> HIDE DEF n
<1> DEFINE S == {k \in 0 .. n : v[k] = Len(w[k]) /\ w[k] \in Seq(D)}
<1>4. 0 \in S
  <2>1. w[0] \in Seq(D) /\ Len(w[0]) = 0 /\ v[0] = 0
    BY <1>1, <1>2, EmptySeq
  <2> QED
    BY <1>3, <2>1
<1>5. ASSUME NEW k \in 1 .. n, k - 1 \in S PROVE k \in S
  <2>1. /\ w[k - 1] \in Seq(D) /\ v[k - 1] = Len(w[k - 1]) /\ c[k] \in Seq(D)
        /\ w[k] = w[k - 1] \o c[k] /\ v[k] = v[k - 1] + Len(c[k]) /\ w[k] \in Seq(D)
    BY <1>1, <1>2, <1>3, <1>5
  <2>2. Len(w[k - 1] \o c[k]) = Len(w[k - 1]) + Len(c[k])
    BY <2>1, ConcatProperties
  <2>3. v[k] = Len(w[k]) /\ k \in 0 .. n
    BY <1>3, <2>1, <2>2
  <2> QED
    BY <2>1, <2>3
<1>6. 0 .. n \subseteq S
  <2> HIDE DEF S
  <2> QED
    BY <1>3, <1>4, <1>5, Upwards
<1>7. v[n] = Len(w[n])
  <2>1. n \in 0 .. n
    BY <1>3
  <2>2. n \in S
    BY <1>6, <2>1
  <2> QED
    BY <2>2
<1> QED
  BY <1>1, <1>2, <1>7 DEF n


-----------------------------------------------------------------------------
(* Cats: pieces, the places in them, and what is cut out of them.          *)

\* A cat of one piece reads as that piece.
LEMMA FlattenOne ==
  ASSUME NEW D, NEW x \in Seq(D)
  PROVE  FlattenSeq(<<x>>) = x
<1>1. <<x>> = Append(<<>>, x) /\ <<>> \in Seq(Seq(D))
  BY EmptySeq
<1>2. FlattenSeq(<<x>>) = <<>> \o x
  BY <1>1, FlattenAppend
<1> QED
  BY <1>2, ConcatEmptySeq

\* A list is what is before a member, the member and what is behind it.
LEMMA SplitList ==
  ASSUME NEW E, NEW c \in Seq(E), NEW k \in 1 .. Len(c)
  PROVE  /\ SubSeq(c, 1, k - 1) \in Seq(E) /\ SubSeq(c, k + 1, Len(c)) \in Seq(E)
         /\ SubSeq(c, 1, k) \in Seq(E) /\ c[k] \in E
         /\ SubSeq(c, 1, k) = Append(SubSeq(c, 1, k - 1), c[k])
         /\ c = SubSeq(c, 1, k) \o SubSeq(c, k + 1, Len(c))
<1>1. Len(c) \in Nat /\ k \in Int /\ k >= 1 /\ k <= Len(c) /\ c[k] \in E
  OBVIOUS
<1>2. /\ SubSeq(c, 1, k - 1) \in Seq(E) /\ SubSeq(c, k + 1, Len(c)) \in Seq(E)
      /\ SubSeq(c, 1, k) \in Seq(E)
  BY <1>1, PartIsSeq
<1>3. SubSeq(c, 1, k) = SubSeq(c, 1, k - 1) \o <<c[k]>>
  BY <1>1, SubSeqRecursiveSecond
<1>4. SubSeq(c, 1, k) = Append(SubSeq(c, 1, k - 1), c[k])
  BY <1>1, <1>2, <1>3, AppendIsConcat
<1>5. SubSeq(c, 1, Len(c)) = SubSeq(c, 1, k) \o SubSeq(c, k + 1, Len(c))
  BY <1>1, ConcatAdjacentSubSeq
<1> QED
  BY <1>1, <1>2, <1>4, <1>5, SubSeqFull

\* A cat reads as the pieces before one, that one, and those behind it.
LEMMA CutAt ==
  ASSUME NEW D, NEW c \in Seq(Seq(D)), NEW k \in 1 .. Len(c)
  PROVE  /\ FlattenSeq(SubSeq(c, 1, k - 1)) \in Seq(D) /\ c[k] \in Seq(D)
         /\ FlattenSeq(SubSeq(c, k + 1, Len(c))) \in Seq(D)
         /\ FlattenSeq(SubSeq(c, 1, k)) = FlattenSeq(SubSeq(c, 1, k - 1)) \o c[k]
         /\ FlattenSeq(c) = FlattenSeq(SubSeq(c, 1, k)) \o FlattenSeq(SubSeq(c, k + 1, Len(c)))
<1> DEFINE E == Seq(D)
<1>1. /\ SubSeq(c, 1, k - 1) \in Seq(E) /\ SubSeq(c, k + 1, Len(c)) \in Seq(E)
      /\ SubSeq(c, 1, k) \in Seq(E) /\ c[k] \in E
      /\ SubSeq(c, 1, k) = Append(SubSeq(c, 1, k - 1), c[k])
      /\ c = SubSeq(c, 1, k) \o SubSeq(c, k + 1, Len(c))
  <2>1. c \in Seq(E)
    OBVIOUS
  <2> HIDE DEF E
  <2> QED
    BY <2>1, SplitList
<1> DEFINE a == SubSeq(c, 1, k - 1)
           b == SubSeq(c, k + 1, Len(c))
           d == SubSeq(c, 1, k)
           x == c[k]
<1>2. a \in Seq(Seq(D)) /\ b \in Seq(Seq(D)) /\ d \in Seq(Seq(D)) /\ x \in Seq(D)
      /\ d = Append(a, x) /\ c = d \o b
  BY <1>1
<1> HIDE DEF a, b, d, x, E
<1>3. FlattenSeq(a) \in Seq(D) /\ FlattenSeq(b) \in Seq(D)
  BY <1>2, FlattenIsSeq
<1>4. FlattenSeq(d) = FlattenSeq(a) \o x
  BY <1>2, FlattenAppend
<1>5. FlattenSeq(c) = FlattenSeq(d) \o FlattenSeq(b)
  BY <1>2, FlattenConcat
<1> QED
  BY <1>2, <1>3, <1>4, <1>5 DEF a, b, d, x

\* What Before() counts is the text of the pieces before.
LEMMA BeforeIs ==
  ASSUME NEW D, NEW c \in Seq(Seq(D)), NEW k \in 1 .. Len(c) + 1
  PROVE  /\ SubSeq(c, 1, k - 1) \in Seq(Seq(D))
         /\ Before(c, k) = Len(FlattenSeq(SubSeq(c, 1, k - 1)))
         /\ Before(c, k) \in Nat
<1> DEFINE E == Seq(D)
<1>1. SubSeq(c, 1, k - 1) \in Seq(E)
  <2>1. c \in Seq(E)
    OBVIOUS
  <2> HIDE DEF E
  <2> QED
    BY <2>1, PartIsSeq
<1>2. Before(c, k) = Len(FlattenSeq(SubSeq(c, 1, k - 1)))
  BY <1>1, SizeIs DEF Before
<1>3. FlattenSeq(SubSeq(c, 1, k - 1)) \in Seq(D)
  BY <1>1, FlattenIsSeq
<1> QED
  BY <1>1, <1>2, <1>3, LenProperties

\* It begins with none, and each piece adds its length.
LEMMA BeforeFacts ==
  ASSUME NEW D, NEW c \in Seq(Seq(D))
  PROVE  /\ Len(c) \in Nat /\ Size(c) \in Nat
         /\ Before(c, 1) = 0
         /\ Before(c, Len(c) + 1) = Size(c)
         /\ \A k \in 1 .. Len(c) : /\ Before(c, k) \in Nat /\ Len(c[k]) \in Nat
                                   /\ Before(c, k + 1) = Before(c, k) + Len(c[k])
<1>1. Len(c) \in Nat
  OBVIOUS
<1>2. FlattenSeq(c) \in Seq(D) /\ Size(c) = Len(FlattenSeq(c))
  BY FlattenIsSeq, SizeIs
<1>3. Before(c, 1) = 0
  <2>1. Before(c, 1) = Len(FlattenSeq(SubSeq(c, 1, 0)))
    BY <1>1, BeforeIs
  <2>2. SubSeq(c, 1, 0) = <<>> /\ <<>> \in Seq(Seq(D)) /\ <<>> \in Seq(D)
    BY SubSeqEmpty, EmptySeq
  <2>3. FlattenSeq(<<>>) = <<>>
    BY <2>2, FlattenAppend
  <2> QED
    BY <2>1, <2>2, <2>3, EmptySeq
<1>4. Before(c, Len(c) + 1) = Size(c)
  <2> DEFINE E == Seq(D)
  <2>1. SubSeq(c, 1, Len(c)) = c
    <3>1. c \in Seq(E)
      OBVIOUS
    <3> HIDE DEF E
    <3> QED
      BY <3>1, SubSeqFull
  <2>2. (Len(c) + 1) - 1 = Len(c)
    BY <1>1
  <2>3. Before(c, Len(c) + 1) = Size(SubSeq(c, 1, (Len(c) + 1) - 1))
    BY Zenon DEF Before
  <2> QED
    BY <2>1, <2>2, <2>3, Zenon
<1>5. ASSUME NEW k \in 1 .. Len(c)
      PROVE  /\ Before(c, k) \in Nat /\ Len(c[k]) \in Nat
             /\ Before(c, k + 1) = Before(c, k) + Len(c[k])
  <2> DEFINE f(j) == FlattenSeq(SubSeq(c, 1, j))
  <2>1. k \in 1 .. Len(c) + 1 /\ k + 1 \in 1 .. Len(c) + 1 /\ (k + 1) - 1 = k
    BY <1>1
  <2>2. Before(c, k) = Len(f(k - 1)) /\ Before(c, k) \in Nat
    BY <2>1, BeforeIs
  <2>5. Before(c, k + 1) = Len(f((k + 1) - 1))
    BY <2>1, BeforeIs
  <2>3. f(k - 1) \in Seq(D) /\ c[k] \in Seq(D) /\ f(k) = f(k - 1) \o c[k]
    BY CutAt
  <2> HIDE DEF f
  <2>4. Len(f(k)) = Len(f(k - 1)) + Len(c[k]) /\ Len(c[k]) \in Nat
    BY <2>3, ConcatProperties, LenProperties
  <2> QED
    BY <2>1, <2>2, <2>4, <2>5
<1> QED
  BY <1>1, <1>2, <1>3, <1>4, <1>5, LenProperties

\* What is before a piece grows from piece to piece.
LEMMA BeforeGrows ==
  ASSUME NEW D, NEW c \in Seq(Seq(D)), NEW i \in 1 .. Len(c) + 1, NEW j \in i .. Len(c) + 1
  PROVE  Before(c, i) <= Before(c, j)
<1>1. /\ Len(c) \in Nat
      /\ \A k \in 1 .. Len(c) : /\ Before(c, k) \in Nat /\ Len(c[k]) \in Nat
                                /\ Before(c, k + 1) = Before(c, k) + Len(c[k])
  BY BeforeFacts
<1>2. Before(c, i) \in Nat
  BY BeforeIs
<1> DEFINE n == j - i
           S == {m \in 0 .. n : Before(c, i + m) \in Nat /\ Before(c, i) <= Before(c, i + m)}
<1>3. n \in Nat /\ i + n = j /\ i + 0 = i
  BY <1>1
<1>4. 0 \in S
  BY <1>2, <1>3
<1>5. ASSUME NEW m \in 1 .. n, m - 1 \in S PROVE m \in S
  <2>1. i + (m - 1) \in 1 .. Len(c) /\ (i + (m - 1)) + 1 = i + m
    BY <1>1, <1>3
  <2>2. /\ Before(c, i + m) = Before(c, i + (m - 1)) + Len(c[i + (m - 1)])
        /\ Len(c[i + (m - 1)]) \in Nat
    BY <1>1, <2>1
  <2>3. Before(c, i + (m - 1)) \in Nat /\ Before(c, i) <= Before(c, i + (m - 1))
    BY <1>5
  <2>4. Before(c, i + m) \in Nat /\ Before(c, i) <= Before(c, i + m)
    <3> DEFINE a == Before(c, i)
               b == Before(c, i + (m - 1))
               l == Len(c[i + (m - 1)])
               x == Before(c, i + m)
    <3>1. a \in Nat /\ b \in Nat /\ l \in Nat /\ x = b + l /\ a <= b
      BY <1>2, <2>2, <2>3
    <3> HIDE DEF a, b, l, x
    <3>2. x \in Nat /\ a <= x
      BY <3>1
    <3> QED
      BY <3>2 DEF a, x
  <2>5. m \in 0 .. n
    BY <1>3
  <2> QED
    BY <2>4, <2>5
<1>6. 0 .. n \subseteq S
  <2> HIDE DEF S, n
  <2> QED
    BY <1>3, <1>4, <1>5, Upwards
<1>7. n \in 0 .. n
  BY <1>3
<1>8. n \in S
  BY <1>6, <1>7
<1> QED
  BY <1>3, <1>8

\* Min() of numbers that exist.
LEMMA LeastIs ==
  ASSUME NEW S \in SUBSET Nat, S # {}
  PROVE  Min(S) \in S /\ \A k \in S : Min(S) <= k
<1>1. PICK m \in S : \A k \in S : m <= k
  BY LeastNumber
<1> QED
  BY <1>1 DEF Min

\* The piece that the first p bytes of a cat end in.
PieceAt(c, p) == Min({i \in DOMAIN c : Before(c, i) + Len(c[i]) >= p})

\* It exists, and those bytes end behind its beginning.
LEMMA PieceAtIs ==
  ASSUME NEW D, NEW c \in Seq(Seq(D)), c # <<>>, NEW p \in 0 .. Size(c)
  PROVE  /\ PieceAt(c, p) \in 1 .. Len(c)
         /\ p <= Before(c, PieceAt(c, p)) + Len(c[PieceAt(c, p)])
         /\ Before(c, PieceAt(c, p)) <= p
         /\ p # 0 => Before(c, PieceAt(c, p)) < p
<1> DEFINE H == {i \in DOMAIN c : Before(c, i) + Len(c[i]) >= p}
           K == PieceAt(c, p)
<1>1. /\ Len(c) \in Nat /\ Size(c) \in Nat /\ Before(c, 1) = 0
      /\ Before(c, Len(c) + 1) = Size(c)
      /\ \A k \in 1 .. Len(c) : /\ Before(c, k) \in Nat /\ Len(c[k]) \in Nat
                                /\ Before(c, k + 1) = Before(c, k) + Len(c[k])
  BY BeforeFacts
<1>2. DOMAIN c = 1 .. Len(c) /\ Len(c) \in 1 .. Len(c)
  OBVIOUS
<1>3. p \in Nat /\ p <= Size(c)
  BY <1>1
<1>4. Len(c) \in H
  BY <1>1, <1>2, <1>3
<1>5. H \in SUBSET Nat
  BY <1>2
<1>6. K = Min(H)
  BY DEF PieceAt
<1>7. K \in H /\ \A i \in H : K <= i
  <2> HIDE DEF H, K
  <2> QED
    BY <1>4, <1>5, <1>6, LeastIs
<1>8. K \in 1 .. Len(c) /\ p <= Before(c, K) + Len(c[K])
  BY <1>1, <1>2, <1>3, <1>7
<1> HIDE DEF K
<1>9. K # 1 => Before(c, K) < p
  <2>1. SUFFICES ASSUME K # 1 PROVE Before(c, K) < p
    OBVIOUS
  <2>2. K - 1 \in 1 .. Len(c) /\ (K - 1) + 1 = K /\ ~(K <= K - 1)
    BY <1>8, <2>1
  <2>3. K - 1 \notin H
    BY <1>7, <2>2
  <2>4. ~(Before(c, K - 1) + Len(c[K - 1]) >= p)
    BY <1>2, <2>2, <2>3
  <2> QED
    BY <1>1, <1>3, <2>2, <2>4
<1>10. Before(c, K) \in Nat
  BY <1>1, <1>8
<1> QED
  BY <1>1, <1>3, <1>8, <1>9, <1>10 DEF K


\* What a cat that is built by its operators never has: an empty piece.
Full(c) == \A k \in DOMAIN c : c[k] # <<>>

\* operator<< appends the text and no empty piece.
LEMMA AddMestringIs ==
  ASSUME NEW D, NEW c \in Seq(Seq(D)), NEW m \in Seq(D)
  PROVE  /\ AddMestring(c, m) \in Seq(Seq(D))
         /\ FlattenSeq(AddMestring(c, m)) = FlattenSeq(c) \o m
         /\ Full(c) => Full(AddMestring(c, m))
<1>1. CASE m = <<>>
  <2>1. AddMestring(c, m) = c /\ FlattenSeq(c) \in Seq(D)
    BY <1>1, FlattenIsSeq DEF AddMestring
  <2> QED
    BY <1>1, <2>1, ConcatEmptySeq
<1>2. CASE m # <<>>
  <2> DEFINE E == Seq(D)
             t == Append(c, m)
  <2>1. AddMestring(c, m) = t
    BY <1>2 DEF AddMestring
  <2>2. t \in Seq(E) /\ \A k \in DOMAIN t : t[k] = m \/ (k \in DOMAIN c /\ t[k] = c[k])
    <3>1. c \in Seq(E) /\ m \in E
      OBVIOUS
    <3> HIDE DEF E
    <3>2. /\ t \in Seq(E) /\ Len(t) = Len(c) + 1 /\ t[Len(c) + 1] = m
          /\ \A k \in 1 .. Len(c) : t[k] = c[k]
      BY <3>1, AppendProperties
    <3>3. Len(c) \in Nat /\ DOMAIN c = 1 .. Len(c) /\ DOMAIN t = 1 .. Len(t)
      BY <3>1, <3>2, LenProperties
    <3> HIDE DEF t
    <3>4. ASSUME NEW k \in DOMAIN t PROVE t[k] = m \/ (k \in DOMAIN c /\ t[k] = c[k])
      <4>1. k = Len(c) + 1 \/ k \in 1 .. Len(c)
        BY <3>2, <3>3
      <4> QED
        BY <3>2, <3>3, <4>1
    <3> QED
      BY <3>2, <3>4
  <2>3. FlattenSeq(t) = FlattenSeq(c) \o m
    BY FlattenAppend
  <2> HIDE DEF t
  <2>4. Full(c) => Full(t)
    BY <1>2, <2>2 DEF Full
  <2> QED
    BY <2>1, <2>2, <2>3, <2>4
<1> QED
  BY <1>1, <1>2

-----------------------------------------------------------------------------
(* Parts of a text.                                                        *)

LEMMA PrefixOf ==
  ASSUME NEW D, NEW u \in Seq(D), NEW v \in Seq(D)
  PROVE  SubSeq(u \o v, 1, Len(u)) = u
<1>1. u \o v \in Seq(D) /\ Len(u \o v) = Len(u) + Len(v) /\ Len(u) \in Nat /\ Len(v) \in Nat
  BY ConcatProperties, LenProperties
<1>2. \A i \in 1 .. Len(u) : (u \o v)[i] = u[i]
  BY <1>1, ConcatProperties
<1> DEFINE w == u \o v
           r == SubSeq(w, 1, Len(u))
<1>3. w \in Seq(D) /\ Len(w) >= Len(u) /\ \A i \in 1 .. Len(u) : w[i] = u[i]
  BY <1>1, <1>2
<1> HIDE DEF w
<1>4. r \in Seq(D) /\ Len(r) = Len(u) /\ \A i \in 1 .. Len(u) : r[i] = w[i]
  BY <1>1, <1>3
<1> HIDE DEF r
<1>5. r = u
  BY <1>1, <1>3, <1>4, SeqEqual
<1> QED
  BY <1>5 DEF r, w

\* A text is its first n bytes and the others.
LEMMA TwoParts ==
  ASSUME NEW D, NEW x \in Seq(D), NEW n \in 0 .. Len(x)
  PROVE  /\ x = SubSeq(x, 1, n) \o SubSeq(x, n + 1, Len(x))
         /\ SubSeq(x, 1, n) \in Seq(D) /\ SubSeq(x, n + 1, Len(x)) \in Seq(D)
         /\ Len(SubSeq(x, 1, n)) = n
<1>1. Len(x) \in Nat /\ n \in 1 - 1 .. Len(x) /\ Len(x) \in n .. Len(x) /\ 1 \in 1 .. Len(x) + 1
  OBVIOUS
<1>2. SubSeq(x, 1, Len(x)) = SubSeq(x, 1, n) \o SubSeq(x, n + 1, Len(x))
  BY <1>1, ConcatAdjacentSubSeq
<1>3. SubSeq(x, 1, Len(x)) = x
  BY SubSeqFull
<1>4. SubSeq(x, 1, n) \in Seq(D) /\ SubSeq(x, n + 1, Len(x)) \in Seq(D) /\ Len(SubSeq(x, 1, n)) = n
  BY <1>1
<1> QED
  BY <1>2, <1>3, <1>4

\* Concatenation, in the forms in which the lemmas below cite it.
Associates(a, s, t) == (a \o s) \o t = a \o (s \o t)

LEMMA AnyThree ==
  ASSUME NEW D, NEW a \in Seq(D), NEW s \in Seq(D), NEW t \in Seq(D)
  PROVE  Associates(a, s, t)
BY ConcatAssociative DEF Associates

\* And four of them.
Moved(a, s, t, b) == (a \o (s \o t)) \o b = (a \o s) \o (t \o b)

LEMMA Between ==
  ASSUME NEW D, NEW a \in Seq(D), NEW s \in Seq(D), NEW t \in Seq(D), NEW b \in Seq(D)
  PROVE  Moved(a, s, t, b)
<1> DEFINE x == a \o s
<1>1. x \in Seq(D)
  BY ConcatProperties
<1> HIDE DEF x
<1>2. Associates(a, s, t)
  BY AnyThree
<1>3. Associates(x, t, b)
  BY <1>1, AnyThree
<1> QED
  BY <1>2, <1>3 DEF Moved, Associates, x

\* The first q members are u and r, and u has p.
Splits(f, q, u, r, p) == SubSeq(f, 1, q) = u \o r /\ Len(u) = p

\* The part of a text that follows a beginning of it.
LEMMA RestOf ==
  ASSUME NEW D, NEW f \in Seq(D), NEW q \in 0 .. Len(f), NEW p \in 0 .. q,
         NEW u \in Seq(D), NEW r \in Seq(D),
         Splits(f, q, u, r, p)
  PROVE  SubSeq(f, p + 1, q) = r
<1>0. SubSeq(f, 1, q) = u \o r /\ Len(u) = p
  BY DEF Splits
<1>1. Len(f) \in Nat /\ q \in Nat /\ p \in Nat /\ p <= q /\ q <= Len(f)
  OBVIOUS
<1>2. Len(r) = q - p
  <2>1. Len(u \o r) = Len(u) + Len(r) /\ Len(r) \in Nat
    BY ConcatProperties, LenProperties
  <2>2. Len(SubSeq(f, 1, q)) = q
    BY <1>1
  <2> QED
    BY <1>0, <1>1, <2>1, <2>2
<1>3. ASSUME NEW i \in 1 .. q - p PROVE SubSeq(f, p + 1, q)[i] = r[i]
  <2>1. /\ p + i \in 1 .. q /\ p + i \in 1 .. Len(u) + Len(r)
        /\ ~(p + i <= Len(u)) /\ (p + i) - Len(u) = i
    BY <1>0, <1>1, <1>2
  <2>2. (u \o r)[p + i] = r[i]
    BY <2>1, ConcatProperties
  <2>3. SubSeq(f, 1, q)[p + i] = f[p + i]
    BY <1>1, <2>1
  <2>4. SubSeq(f, p + 1, q)[i] = f[p + i]
    BY <1>1
  <2> QED
    BY <1>0, <2>2, <2>3, <2>4
<1>4. SubSeq(f, p + 1, q) \in Seq(D) /\ Len(SubSeq(f, p + 1, q)) = q - p
  BY <1>1
<1> DEFINE s == SubSeq(f, p + 1, q)
<1>5. s \in Seq(D) /\ Len(s) = Len(r) /\ \A i \in 1 .. Len(s) : s[i] = r[i]
  BY <1>2, <1>3, <1>4
<1> HIDE DEF s
<1>6. s = r
  BY <1>5, SeqEqual
<1> QED
  BY <1>6 DEF s

\* A text f, and a part x of it that is cut in s and t.
Joins(f, a, x, b, s, t) == x = s \o t /\ f = (a \o x) \o b

\* What such a text begins with.
LEMMA PrefixBetween ==
  ASSUME NEW D, NEW a \in Seq(D), NEW s \in Seq(D), NEW t \in Seq(D), NEW b \in Seq(D),
         NEW x, NEW f, Joins(f, a, x, b, s, t)
  PROVE  /\ a \o s \in Seq(D) /\ Len(a \o s) = Len(a) + Len(s)
         /\ SubSeq(f, 1, Len(a) + Len(s)) = a \o s
         /\ Len(a) + Len(s) <= Len(f)
<1> DEFINE u == a \o s
           v == t \o b
<1>1. /\ u \in Seq(D) /\ v \in Seq(D) /\ Len(u) = Len(a) + Len(s)
      /\ Len(u) \in Nat /\ Len(v) \in Nat
  BY ConcatProperties, LenProperties
<1>2. f = u \o v
  <2>1. Moved(a, s, t, b)
    BY Between
  <2> QED
    BY <2>1 DEF Moved, Joins
<1> HIDE DEF u, v
<1>3. SubSeq(u \o v, 1, Len(u)) = u /\ Len(u \o v) = Len(u) + Len(v)
  BY <1>1, PrefixOf, ConcatProperties
<1>4. Len(u) <= Len(u \o v)
  BY <1>1, <1>3
<1> QED
  BY <1>1, <1>2, <1>3, <1>4 DEF u

-----------------------------------------------------------------------------
(* What truncated() leaves.                                                *)

\* The pieces before one and the first n bytes of that one are a beginning.
LEMMA BeginningIs ==
  ASSUME NEW D, NEW c \in Seq(Seq(D)), NEW k \in 1 .. Len(c), NEW n \in 0 .. Len(c[k])
  PROVE  /\ FlattenSeq(SubSeq(c, 1, k - 1)) \o SubSeq(c[k], 1, n)
              = SubSeq(FlattenSeq(c), 1, Before(c, k) + n)
         /\ FlattenSeq(SubSeq(c, 1, k - 1)) \in Seq(D) /\ SubSeq(c[k], 1, n) \in Seq(D)
         /\ Len(FlattenSeq(SubSeq(c, 1, k - 1)) \o SubSeq(c[k], 1, n)) = Before(c, k) + n
         /\ Before(c, k) + n \in 0 .. Size(c)
<1> DEFINE a == FlattenSeq(SubSeq(c, 1, k - 1))
           b == FlattenSeq(SubSeq(c, k + 1, Len(c)))
           x == c[k]
           s == SubSeq(x, 1, n)
           t == SubSeq(x, n + 1, Len(x))
<1>1. /\ a \in Seq(D) /\ b \in Seq(D) /\ x \in Seq(D)
      /\ FlattenSeq(c) = (a \o x) \o b
  BY CutAt
<1>2. Len(a) = Before(c, k)
  <2>1. Len(c) \in Nat /\ k \in 1 .. Len(c) + 1
    OBVIOUS
  <2> QED
    BY <2>1, BeforeIs
<1>3. n \in 0 .. Len(x)
  OBVIOUS
<1>4. Size(c) = Len(FlattenSeq(c))
  BY SizeIs
<1> HIDE DEF a, b, x
<1>5. Len(x) \in Nat /\ n \in Nat /\ n <= Len(x)
  BY <1>1, <1>3
<1>6. s \in Seq(D) /\ t \in Seq(D) /\ Len(s) = n /\ x = s \o t
  BY <1>1, <1>3, TwoParts
<1> HIDE DEF s, t
<1>7. /\ a \o s \in Seq(D) /\ Len(a \o s) = Len(a) + n
      /\ SubSeq(FlattenSeq(c), 1, Len(a) + n) = a \o s
      /\ Len(a) + n <= Len(FlattenSeq(c))
  <2>1. Joins(FlattenSeq(c), a, x, b, s, t)
    BY <1>1, <1>6 DEF Joins
  <2>2. a \in Seq(D) /\ s \in Seq(D) /\ t \in Seq(D) /\ b \in Seq(D)
    BY <1>1, <1>6
  <2>3. /\ a \o s \in Seq(D) /\ Len(a \o s) = Len(a) + Len(s)
        /\ SubSeq(FlattenSeq(c), 1, Len(a) + Len(s)) = a \o s
        /\ Len(a) + Len(s) <= Len(FlattenSeq(c))
    BY <2>1, <2>2, PrefixBetween, Zenon
  <2> QED
    BY <1>6, <2>3
<1>8. /\ SubSeq(FlattenSeq(c), 1, Len(a) + n) = a \o s
      /\ Len(a) + n <= Size(c)
  BY <1>1, <1>4, <1>6, <1>7
<1>9. Before(c, k) + n \in 0 .. Size(c)
  <2>1. Len(a) \in Nat /\ Size(c) \in Nat
    BY <1>1, LenProperties, BeforeFacts
  <2> QED
    BY <1>2, <1>5, <1>8, <2>1
<1> QED
  BY <1>1, <1>2, <1>6, <1>7, <1>8, <1>9 DEF a, s, x

\* truncated() keeps the first bytes.
LEMMA TruncatedIs ==
  ASSUME NEW D, NEW c \in Seq(Seq(D)), c # <<>>, NEW size \in Int, CanTruncate(c, size)
  PROVE  /\ Truncated(c, size) \in Seq(Seq(D))
         /\ FlattenSeq(Truncated(c, size)) = SubSeq(FlattenSeq(c), 1, TruncatedSize(c, size))
         /\ Full(c) => Full(Truncated(c, size))
<1> DEFINE n == TruncatedSize(c, size)
           k == PieceAt(c, n)
           a == SubSeq(c, 1, k - 1)
           s == SubSeq(c[k], 1, n - Before(c, k))
<1>1. n \in 0 .. Size(c) /\ Size(c) \in Nat
  BY BeforeFacts DEF CanTruncate
<1>2. Truncated(c, size) = AddMestring(a, s)
  BY Zenon DEF Truncated, PieceAt
<1> HIDE DEF n
<1>3. k \in 1 .. Len(c) /\ n <= Before(c, k) + Len(c[k]) /\ Before(c, k) <= n
  BY <1>1, PieceAtIs
<1> HIDE DEF k
<1>4. /\ Len(c) \in Nat /\ Before(c, k) \in Nat /\ Len(c[k]) \in Nat
      /\ n \in Nat
  BY <1>1, <1>3, BeforeFacts
<1>5. n - Before(c, k) \in 0 .. Len(c[k]) /\ Before(c, k) + (n - Before(c, k)) = n
  BY <1>3, <1>4
<1>6. FlattenSeq(a) \o s = SubSeq(FlattenSeq(c), 1, n) /\ s \in Seq(D)
  BY <1>3, <1>5, BeginningIs
<1>7. a \in Seq(Seq(D)) /\ (Full(c) => Full(a))
  <2> DEFINE E == Seq(D)
  <2>1. c \in Seq(E)
    OBVIOUS
  <2> HIDE DEF E
  <2>2. a \in Seq(E) /\ \A i \in DOMAIN a : i \in DOMAIN c /\ a[i] = c[i]
    BY <1>3, <1>4, <2>1, SMTT(30)
  <2> QED
    BY <2>2 DEF Full, E
<1> HIDE DEF a, s
<1> QED
  BY <1>2, <1>6, <1>7, AddMestringIs DEF n

-----------------------------------------------------------------------------
(* Numbers printed and read back.                                          *)

\* The same when a member may need all the numbers below it.
LEMMA FromBelow ==
  ASSUME NEW n \in Nat, NEW S, \A k \in 0 .. n : 0 .. k - 1 \subseteq S => k \in S
  PROVE  0 .. n \subseteq S
<1> DEFINE T == {k \in 0 .. n : 0 .. k \subseteq S}
<1>1. 0 \in T
  <2>1. 0 .. 0 - 1 = {} /\ 0 .. 0 = {0} /\ 0 \in 0 .. n
    OBVIOUS
  <2> QED
    BY <2>1
<1>2. ASSUME NEW k \in 1 .. n, k - 1 \in T PROVE k \in T
  <2>1. 0 .. k - 1 \subseteq S /\ k \in 0 .. n /\ 0 .. k = (0 .. k - 1) \cup {k}
    BY <1>2
  <2> QED
    BY <2>1
<1>3. 0 .. n \subseteq T
  <2> HIDE DEF T
  <2> QED
    BY <1>1, <1>2, Upwards
<1> QED
  BY <1>3

\* The function of Decimal(n), with its values.
Numerals(n) ==
  {d \in [0 .. n -> Seq(Int)] :
     \A k \in 0 .. n :
       d[k] = IF k < 10 THEN <<48 + k>> ELSE d[k \div 10] \o <<48 + (k % 10)>>}

LEMMA TenthIsLess ==
  ASSUME NEW k \in Nat, k >= 10
  PROVE  k \div 10 \in 0 .. k - 1 /\ k % 10 \in 0 .. 9 /\ k = ((k \div 10) * 10) + (k % 10)
OBVIOUS

LEMMA NumeralsExist == \A n \in Nat : Numerals(n) # {}
<1> DEFINE S == {m \in Nat : Numerals(m) # {}}
<1>1. 0 \in S
  <2> DEFINE f == [k \in 0 .. 0 |-> <<48 + k>>]
  <2>1. f \in [0 .. 0 -> Seq(Int)] /\ \A k \in 0 .. 0 : k < 10 /\ f[k] = <<48 + k>>
    OBVIOUS
  <2> HIDE DEF f
  <2>2. f \in Numerals(0)
    BY <2>1 DEF Numerals
  <2> QED
    BY <2>2
<1>2. ASSUME NEW m \in Nat, m \in S PROVE m + 1 \in S
  <2>1. PICK f : f \in Numerals(m)
    BY <1>2
  <2>2. /\ f \in [0 .. m -> Seq(Int)]
        /\ \A k \in 0 .. m :
             f[k] = IF k < 10 THEN <<48 + k>> ELSE f[k \div 10] \o <<48 + (k % 10)>>
    BY <2>1 DEF Numerals
  <2> DEFINE last == IF m + 1 < 10 THEN <<48 + (m + 1)>>
                     ELSE f[(m + 1) \div 10] \o <<48 + ((m + 1) % 10)>>
             g == [k \in 0 .. m + 1 |-> IF k <= m THEN f[k] ELSE last]
  <2>3. last \in Seq(Int)
    <3>1. CASE m + 1 < 10
      BY <3>1
    <3>2. CASE m + 1 >= 10
      <4>1. (m + 1) \div 10 \in 0 .. m /\ (m + 1) % 10 \in Int
        BY <3>2, TenthIsLess
      <4>2. f[(m + 1) \div 10] \in Seq(Int) /\ <<48 + ((m + 1) % 10)>> \in Seq(Int)
        BY <2>2, <4>1
      <4> QED
        BY <3>2, <4>2, ConcatProperties
    <3> QED
      BY <3>1, <3>2
  <2>4. g \in [0 .. m + 1 -> Seq(Int)]
    <3> HIDE DEF last
    <3> QED
      BY <2>2, <2>3
  <2>5. (\A k \in 0 .. m : g[k] = f[k]) /\ g[m + 1] = last
    <3> HIDE DEF last
    <3> QED
      OBVIOUS
  <2> HIDE DEF g
  <2>6. ASSUME NEW k \in 0 .. m + 1
        PROVE  g[k] = IF k < 10 THEN <<48 + k>> ELSE g[k \div 10] \o <<48 + (k % 10)>>
    <3>1. CASE k = m + 1 /\ k < 10
      BY <2>5, <3>1
    <3>2. CASE k = m + 1 /\ k >= 10
      <4>1. k \div 10 \in 0 .. m
        BY <3>2, TenthIsLess
      <4> QED
        BY <2>5, <3>2, <4>1
    <3>3. CASE k # m + 1 /\ k < 10
      <4>1. k \in 0 .. m
        BY <3>3
      <4> QED
        BY <2>2, <2>5, <3>3, <4>1
    <3>4. CASE k # m + 1 /\ k >= 10
      <4>1. k \in 0 .. m /\ k \div 10 \in 0 .. m
        BY <3>4, TenthIsLess
      <4> QED
        BY <2>2, <2>5, <3>4, <4>1
    <3> QED
      BY <3>1, <3>2, <3>3, <3>4
  <2> HIDE DEF last
  <2>7. g \in Numerals(m + 1)
    BY <2>4, <2>6 DEF Numerals
  <2> QED
    BY <2>7
<1>3. Nat \subseteq S
  <2> HIDE DEF S
  <2> QED
    BY <1>1, <1>2, ByInduction
<1> QED
  BY <1>3

LEMMA DecimalIsNumeral ==
  ASSUME NEW n \in Nat
  PROVE  Decimal(n) \in {d[n] : d \in Numerals(n)}
<1> DEFINE Is(f) == f = [k \in 0 .. n |->
                           IF k < 10 THEN <<48 + k>> ELSE f[k \div 10] \o <<48 + (k % 10)>>]
           d == CHOOSE f : Is(f)
<1>1. Decimal(n) = d[n]
  BY DEF Decimal
<1>2. PICK f : f \in Numerals(n)
  BY NumeralsExist
<1>3. Is(f)
  <2>1. /\ f \in [0 .. n -> Seq(Int)]
        /\ \A k \in 0 .. n :
             f[k] = IF k < 10 THEN <<48 + k>> ELSE f[k \div 10] \o <<48 + (k % 10)>>
    BY <1>2 DEF Numerals
  <2> QED
    BY <2>1
<1>4. Is(d)
  BY <1>3, Zenon
<1> HIDE DEF d
<1>5. /\ DOMAIN d = 0 .. n
      /\ \A k \in 0 .. n :
           d[k] = IF k < 10 THEN <<48 + k>> ELSE d[k \div 10] \o <<48 + (k % 10)>>
  BY <1>4
<1>6. d = [k \in 0 .. n |-> d[k]]
  <2>1. d = [k \in 0 .. n |->
                           IF k < 10 THEN <<48 + k>> ELSE d[k \div 10] \o <<48 + (k % 10)>>]
    BY <1>4
  <2> QED
    BY <1>5, <2>1
<1> HIDE DEF Is
<1> DEFINE S == {k \in 0 .. n : d[k] \in Seq(Int)}
<1>7. 0 .. n \subseteq S
  <2>1. ASSUME NEW k \in 0 .. n, 0 .. k - 1 \subseteq S PROVE k \in S
    <3>1. CASE k < 10
      <4>1. d[k] = IF k < 10 THEN <<48 + k>> ELSE d[k \div 10] \o <<48 + (k % 10)>>
        BY <1>5
      <4>2. <<48 + k>> \in Seq(Int)
        OBVIOUS
      <4> QED
        BY <3>1, <4>1, <4>2
    <3>2. CASE k >= 10
      <4>1. k \div 10 \in 0 .. k - 1 /\ k % 10 \in Int
        BY <3>2, TenthIsLess
      <4>2. d[k \div 10] \in Seq(Int) /\ <<48 + (k % 10)>> \in Seq(Int)
        BY <2>1, <4>1
      <4>3. d[k] = d[k \div 10] \o <<48 + (k % 10)>>
        <5>1. d[k] = IF k < 10 THEN <<48 + k>> ELSE d[k \div 10] \o <<48 + (k % 10)>>
          BY <1>5
        <5>2. ~(k < 10)
          BY <3>2
        <5> QED
          BY <5>1, <5>2
      <4>4. d[k] \in Seq(Int)
        BY <4>2, <4>3, ConcatProperties
      <4> QED
        BY <4>4
    <3> QED
      BY <3>1, <3>2
  <2> HIDE DEF S
  <2> QED
    BY <2>1, FromBelow
<1>8. d \in [0 .. n -> Seq(Int)]
  <2>1. \A k \in 0 .. n : d[k] \in Seq(Int)
    BY <1>7
  <2> QED
    BY <1>6, <2>1
<1>9. d \in Numerals(n)
  BY <1>5, <1>8 DEF Numerals
<1> QED
  BY <1>1, <1>9

\* A digit behind a text.
LEMMA MagnitudeAppend ==
  ASSUME NEW t \in Seq(Int), NEW ch \in Int, NEW base \in {10, 16}
  PROVE  /\ Magnitude(Append(t, ch), base) = Magnitude(t, base) * base + Value(ch)
         /\ Magnitude(<<>>, base) = 0
<1> DEFINE n == Len(t)
           u == Append(t, ch)
<1>1. base \in Int /\ <<>> \in Seq(Int) /\ Len(<<>>) = 0
  BY EmptySeq
<1>2. PICK v : /\ v[0] = 0
               /\ \A k \in 1 .. n : v[k] = v[k - 1] * base + Value(t[k])
               /\ Magnitude(t, base) = v[n]
  BY <1>1, MagnitudeTrace
<1>3. u \in Seq(Int) /\ Len(u) = n + 1 /\ n \in Nat /\ (\A i \in 1 .. n : u[i] = t[i]) /\ u[n + 1] = ch
  BY AppendProperties
<1> HIDE DEF u
<1>4. PICK w : /\ w[0] = 0
               /\ \A k \in 1 .. Len(u) : w[k] = w[k - 1] * base + Value(u[k])
               /\ Magnitude(u, base) = w[Len(u)]
  BY <1>1, <1>3, MagnitudeTrace
<1>5. Magnitude(<<>>, base) = 0
  <2>1. PICK z : /\ z[0] = 0
                 /\ \A k \in 1 .. Len(<<>>) : z[k] = z[k - 1] * base + Value(<<>>[k])
                 /\ Magnitude(<<>>, base) = z[Len(<<>>)]
    BY <1>1, MagnitudeTrace
  <2> QED
    BY <1>1, <2>1
<1> HIDE DEF n
<1> DEFINE S == {k \in 0 .. n : w[k] = v[k]}
<1>6. 0 \in S
  BY <1>2, <1>3, <1>4
<1>7. ASSUME NEW k \in 1 .. n, k - 1 \in S PROVE k \in S
  <2>1. k \in 1 .. Len(u) /\ k \in 0 .. n
    BY <1>3
  <2>2. w[k] = w[k - 1] * base + Value(u[k]) /\ v[k] = v[k - 1] * base + Value(t[k])
    BY <1>2, <1>4, <2>1
  <2>3. w[k - 1] = v[k - 1] /\ u[k] = t[k]
    BY <1>3, <1>7
  <2>4. w[k] = v[k]
    BY <2>2, <2>3
  <2> QED
    BY <2>1, <2>4
<1> HIDE DEF S
<1>8. 0 .. n \subseteq S
  BY <1>3, <1>6, <1>7, Upwards
<1>9. n \in 0 .. n /\ Len(u) \in 1 .. Len(u) /\ Len(u) - 1 = n
  BY <1>3
<1>10. w[n] = v[n]
  BY <1>8, <1>9 DEF S
<1>11. w[Len(u)] = w[n] * base + Value(ch)
  BY <1>3, <1>4, <1>9
<1> QED
  BY <1>2, <1>4, <1>5, <1>10, <1>11 DEF u

LEMMA DecimalIs ==
  ASSUME NEW n \in Nat
  PROVE  /\ Decimal(n) \in Seq(Int) /\ Decimal(n) # <<>> /\ Decimal(n)[1] # Minus
         /\ \A i \in DOMAIN Decimal(n) : IsDigit(Decimal(n)[i], 10)
         /\ Magnitude(Decimal(n), 10) = n
<1> DEFINE Good(s, k) == /\ s \in Seq(Int) /\ s # <<>>
                         /\ \A i \in 1 .. Len(s) : s[i] \in 48 .. 57
                         /\ Magnitude(s, 10) = k
<1>1. PICK d : d \in Numerals(n) /\ Decimal(n) = d[n]
  BY DecimalIsNumeral
<1>2. /\ d \in [0 .. n -> Seq(Int)]
      /\ \A k \in 0 .. n :
           d[k] = IF k < 10 THEN <<48 + k>> ELSE d[k \div 10] \o <<48 + (k % 10)>>
  BY <1>1 DEF Numerals
<1>3. ASSUME NEW s \in Seq(Int), NEW v \in 0 .. 9,
             \A i \in 1 .. Len(s) : s[i] \in 48 .. 57
      PROVE  Good(Append(s, 48 + v), Magnitude(s, 10) * 10 + v)
  <2>1. 48 + v \in Int /\ 48 + v \in 48 .. 57 /\ Value(48 + v) = v
    BY DEF Value
  <2>2. Magnitude(Append(s, 48 + v), 10) = Magnitude(s, 10) * 10 + v
    BY <2>1, MagnitudeAppend
  <2> DEFINE u == Append(s, 48 + v)
  <2>3. /\ u \in Seq(Int) /\ Len(u) = Len(s) + 1 /\ Len(s) \in Nat
        /\ (\A i \in 1 .. Len(s) : u[i] = s[i]) /\ u[Len(s) + 1] = 48 + v
    BY <2>1, AppendProperties
  <2> HIDE DEF u
  <2>4. u # <<>> /\ \A i \in 1 .. Len(u) : u[i] \in 48 .. 57
    <3>1. u # <<>>
      BY <2>3, EmptySeq
    <3>2. ASSUME NEW i \in 1 .. Len(u) PROVE u[i] \in 48 .. 57
      <4>1. i \in 1 .. Len(s) \/ i = Len(s) + 1
        BY <2>3
      <4> QED
        BY <1>3, <2>1, <2>3, <4>1
    <3> QED
      BY <3>1, <3>2
  <2> QED
    BY <2>2, <2>3, <2>4 DEF u
<1> DEFINE S == {k \in 0 .. n : Good(d[k], k)}
<1>4. ASSUME NEW k \in 0 .. n, 0 .. k - 1 \subseteq S PROVE k \in S
  <2>1. CASE k < 10
    <3>1. <<>> \in Seq(Int) /\ Len(<<>>) = 0 /\ Magnitude(<<>>, 10) = 0 /\ 1 .. 0 = {}
      <4>1. <<>> \in Seq(Int) /\ Len(<<>>) = 0 /\ 1 .. 0 = {} /\ 10 \in {10, 16} /\ 48 \in Int
        BY EmptySeq
      <4>2. Magnitude(<<>>, 10) = 0
        BY <4>1, MagnitudeAppend
      <4> QED
        BY <4>1, <4>2
    <3>2. k \in 0 .. 9 /\ 0 * 10 + k = k
      BY <2>1
    <3> HIDE DEF Good
    <3>3. Good(Append(<<>>, 48 + k), Magnitude(<<>>, 10) * 10 + k)
      BY <1>3, <3>1, <3>2
    <3>4. Good(Append(<<>>, 48 + k), k)
      BY <3>1, <3>2, <3>3
    <3>5. Append(<<>>, 48 + k) = <<48 + k>>
      OBVIOUS
    <3>6. d[k] = <<48 + k>>
      BY <1>2, <2>1
    <3> QED
      BY <3>4, <3>5, <3>6
  <2>2. CASE k >= 10
    <3> DEFINE q == k \div 10
               r == k % 10
    <3>1. q \in 0 .. k - 1 /\ q \in 0 .. n /\ r \in 0 .. 9 /\ k = q * 10 + r
      BY <2>2, TenthIsLess
    <3>2. d[k] = d[q] \o <<48 + r>>
      <4>1. d[k] = IF k < 10 THEN <<48 + k>> ELSE d[k \div 10] \o <<48 + (k % 10)>>
        BY <1>2
      <4>2. ~(k < 10)
        BY <2>2
      <4> QED
        BY <4>1, <4>2
    <3> HIDE DEF q, r
    <3>3. Good(d[q], q)
      BY <1>4, <3>1
    <3>4. d[k] = Append(d[q], 48 + r)
      <4>1. d[q] \in Seq(Int) /\ 48 + r \in Int
        BY <3>1, <3>3
      <4> QED
        BY <3>2, <4>1, AppendIsConcat
    <3>5. Good(Append(d[q], 48 + r), Magnitude(d[q], 10) * 10 + r)
      BY <1>3, <3>1, <3>3
    <3>6. Good(d[k], k)
      <4>1. Magnitude(d[q], 10) * 10 + r = k
        BY <3>1, <3>3
      <4> HIDE DEF Good
      <4> QED
        BY <3>4, <3>5, <4>1
    <3> QED
      BY <3>6
  <2>3. k < 10 \/ k >= 10
    OBVIOUS
  <2> QED
    BY <2>1, <2>2, <2>3, Zenon
<1>5. 0 .. n \subseteq S
  <2> HIDE DEF S
  <2> QED
    BY <1>4, FromBelow
<1>6. Good(d[n], n)
  <2>1. n \in 0 .. n
    OBVIOUS
  <2> HIDE DEF Good
  <2> QED
    BY <1>5, <2>1
<1> DEFINE s == d[n]
<1>7. /\ s \in Seq(Int) /\ s # <<>> /\ Magnitude(s, 10) = n
      /\ \A i \in 1 .. Len(s) : s[i] \in 48 .. 57
  BY <1>6
<1>8. Decimal(n) = s
  BY <1>1
<1> HIDE DEF s, Good
<1>9. DOMAIN s = 1 .. Len(s) /\ Len(s) \in Nat /\ Len(s) >= 1
  BY <1>7
<1>10. s[1] # Minus /\ \A i \in DOMAIN s : IsDigit(s[i], 10)
  BY <1>7, <1>9, SMTT(30) DEF IsDigit, Minus
<1> QED
  BY <1>7, <1>8, <1>10

(* What is printed as a decimal number, a port or a Content-Length, is     *)
(* parsed to the same number, if it is in the range of int at all.         *)
THEOREM PrintedIsParsed ==
  ASSUME NEW n \in Nat
  PROVE  ParseIntIn(Decimal(n), 10) = IF n <= IntMax THEN {n} ELSE {}
<1> DEFINE s == Decimal(n)
<1>1. /\ s \in Seq(Int) /\ s # <<>> /\ s[1] # Minus /\ Magnitude(s, 10) = n
      /\ \A i \in DOMAIN s : IsDigit(s[i], 10)
  BY DecimalIs
<1> HIDE DEF s
<1>2. ParseIntIn(s, 10) = Meaning(s, 10)
  BY <1>1, ParseIntExact
<1>3. Meaning(s, 10) = IF IsInt(n) THEN {n} ELSE {}
  BY <1>1 DEF Meaning
<1>4. IsInt(n) <=> n <= IntMax
  BY IntAssumption DEF IsInt, IntMin
<1> QED
  BY <1>2, <1>3, <1>4 DEF s

-----------------------------------------------------------------------------
(* A text that was encoded is decoded.                                     *)

\* Six bits make a number up to 63.
LEMMA GroupIn ==
  ASSUME NEW text \in Seq(Octets), NEW j \in Nat
  PROVE  Group(text, j) \in 0 .. 63
<1>1. ASSUME NEW b \in Nat PROVE Bit(text, b) \in {0, 1}
  <2>1. PICK q \in Nat, r \in 0 .. 7 : b = 8 * q + r
    <3>1. b \div 8 \in Nat /\ b % 8 \in 0 .. 7 /\ b = 8 * (b \div 8) + (b % 8)
      OBVIOUS
    <3> QED
      BY <3>1
  <2> DEFINE x == IF q < Len(text) THEN text[q + 1] ELSE 0
  <2>2. x \in Octets
    <3>1. Len(text) \in Nat /\ \A i \in 1 .. Len(text) : text[i] \in Octets
      BY LenProperties, ElementOfSeq
    <3>2. 0 \in Octets /\ (q < Len(text) => q + 1 \in 1 .. Len(text))
      BY <3>1 DEF Octets
    <3> QED
      BY <3>1, <3>2
  <2>3. Bit(text, b) = (x \div 2^(7 - r)) % 2
    BY <2>1, BitAt
  <2> HIDE DEF x
  <2>4. PICK w \in [0 .. 7 -> {0, 1}] : \A i \in 0 .. 7 : w[i] = (x \div 2^(7 - i)) % 2
    BY <2>2, OctetBits
  <2>5. Bit(text, b) = w[r] /\ w[r] \in {0, 1}
    <3>1. w[r] = (x \div 2^(7 - r)) % 2
      BY <2>4, Zenon
    <3>2. w[r] \in {0, 1}
      BY <2>4
    <3> QED
      BY <2>3, <3>1, <3>2, Zenon
  <2> QED
    BY <2>5
<1>2. /\ 6 * j \in Nat /\ 6 * j + 1 \in Nat /\ 6 * j + 2 \in Nat /\ 6 * j + 3 \in Nat
      /\ 6 * j + 4 \in Nat /\ 6 * j + 5 \in Nat
  OBVIOUS
<1>3. PICK a0 \in {0, 1}, a1 \in {0, 1}, a2 \in {0, 1}, a3 \in {0, 1}, a4 \in {0, 1}, a5 \in {0, 1} :
        /\ Bit(text, 6 * j) = a0 /\ Bit(text, 6 * j + 1) = a1 /\ Bit(text, 6 * j + 2) = a2
        /\ Bit(text, 6 * j + 3) = a3 /\ Bit(text, 6 * j + 4) = a4 /\ Bit(text, 6 * j + 5) = a5
  BY <1>1, <1>2, Zenon
<1>4. Group(text, j) = 32 * a0 + 16 * a1 + 8 * a2 + 4 * a3 + 2 * a4 + a5
  BY <1>3, Zenon DEF Group
<1> QED
  BY <1>4

\* The bytes of word are in code, stops[j] is where the j-th is, and what
\* else is there is skipped.  All of them index rkey as a char does that is
\* not below zero.
Spread(code, word, stops) ==
  /\ code \in Seq(Int) /\ word \in Seq(Int)
  /\ \A k \in 1 .. Len(code) : code[k] \in 0 .. 127
  /\ stops \in [0 .. Len(word) -> 0 .. Len(code)] /\ stops[0] = 0
  /\ \A j \in 1 .. Len(word) :
       /\ stops[j - 1] < stops[j] /\ code[stops[j]] = word[j] /\ RKey(word[j]) # NoDigit
       /\ \A k \in stops[j - 1] + 1 .. stops[j] - 1 : RKey(code[k]) = NoDigit
  /\ \A k \in stops[Len(word)] + 1 .. Len(code) : RKey(code[k]) = NoDigit

\* get_in() goes from one to the next, and then finds the end.
LEMMA NextStop ==
  ASSUME NEW code, NEW word, NEW stops, Spread(code, word, stops)
  PROVE  /\ \A j \in 1 .. Len(word) : /\ Found(code, stops[j - 1]) = stops[j]
                                      /\ GetIn(code, stops[j - 1]) = RKey(word[j])
         /\ GetIn(code, stops[Len(word)]) = AtEnd
<1> DEFINE n == Len(code)
           m == Len(word)
           S(it) == {k \in (it + 1) .. n : RKey(code[k]) # NoDigit}
<1>0. n \in Nat /\ m \in Nat /\ \A j \in 0 .. m : stops[j] \in 0 .. n
  <2>1. code \in Seq(Int) /\ word \in Seq(Int) /\ stops \in [0 .. m -> 0 .. n]
    BY Zenon DEF Spread
  <2>2. n \in Nat /\ m \in Nat
    BY <2>1, LenProperties
  <2> HIDE DEF n, m
  <2> QED
    BY <2>1, <2>2
<1>1. ASSUME NEW j \in 1 .. m
      PROVE  /\ Found(code, stops[j - 1]) = stops[j]
             /\ GetIn(code, stops[j - 1]) = RKey(word[j])
  <2>1. PICK p \in 0 .. n, q \in 0 .. n : p = stops[j - 1] /\ q = stops[j]
    <3>1. j - 1 \in 0 .. m /\ j \in 0 .. m
      BY <1>0
    <3> QED
      BY <1>0, <3>1
  <2>2. /\ p < q /\ code[q] = word[j] /\ RKey(code[q]) # NoDigit
        /\ \A k \in p + 1 .. q - 1 : RKey(code[k]) = NoDigit
    BY <2>1 DEF Spread
  <2> HIDE DEF n, m
  <2>3. q \in S(p) /\ \A k \in S(p) : q <= k
    BY <1>0, <2>2
  <2>4. S(p) # {} /\ \A k \in S(p) : k \in Nat
    BY <1>0, <2>1, <2>3
  <2>5. Found(code, p) = CHOOSE k \in S(p) : \A l \in S(p) : k <= l
    BY <2>4 DEF Found, n
  <2> HIDE DEF S
  <2>6. Found(code, p) \in S(p) /\ \A l \in S(p) : Found(code, p) <= l
    BY <2>3, <2>5
  <2>7. Found(code, p) = q
    <3>1. Found(code, p) \in Nat /\ q \in Nat
      BY <2>3, <2>4, <2>6
    <3>2. q <= Found(code, p) /\ Found(code, p) <= q
      BY <2>3, <2>6
    <3> QED
      BY <3>1, <3>2
  <2>8. GetIn(code, p) = RKey(code[q])
    BY <1>0, <2>7 DEF GetIn, n
  <2> QED
    BY <2>1, <2>2, <2>7, <2>8
<1>2. GetIn(code, stops[m]) = AtEnd
  <2>1. PICK p \in 0 .. n : p = stops[m] /\ S(p) = {}
    <3>1. stops[m] \in 0 .. n
      <4> HIDE DEF m, n
      <4> QED
        BY <1>0
    <3>2. S(stops[m]) = {}
      BY Zenon DEF Spread
    <3> QED
      BY <3>1, <3>2
  <2>2. Found(code, p) = n + 1
    BY <2>1 DEF Found
  <2>3. GetIn(code, p) = AtEnd
    <3> HIDE DEF n
    <3> QED
      BY <1>0, <2>2 DEF GetIn, n
  <2> QED
    BY <2>1, <2>3
<1> QED
  BY <1>1, <1>2

\* The digit number j of a text, counted from zero.
Six(text, j) == Sextet(text, After(Len(text), j))

\* The bytes of code that are not skipped are the digits of text, stops[j]
\* of them number j - 1, and then there is the end or padding.
DigitsIn(code, text, stops, m) ==
  /\ code \in Seq(Int) /\ text \in Seq(Octets) /\ m \in Nat
  /\ stops \in [0 .. m -> 0 .. Len(code)] /\ stops[0] = 0
  /\ \A j \in Nat :
       /\ 6 * j < 8 * Len(text) =>
            /\ j < m /\ Six(text, j) \in 0 .. 63
            /\ Found(code, stops[j]) = stops[j + 1] /\ GetIn(code, stops[j]) = Six(text, j)
       /\ 6 * j >= 8 * Len(text) /\ j <= m => GetIn(code, stops[j]) = AtEnd

\* So it is with an encoded text, padded or not.
LEMMA EncodedDigits ==
  ASSUME NEW text \in Seq(Octets), NEW eqs \in BOOLEAN, NEW code, NEW stops, NEW word,
         word = Encode(text, eqs), Spread(code, word, stops)
  PROVE  DigitsIn(code, text, stops, Len(word))
<1> DEFINE n == Len(text)
           m == EncodedSize(n, eqs)
           s == (n * 8 + 5) \div 6
           p == (3 - (n % 3)) % 3
<1>1. n \in Nat
  BY LenProperties
<1>2. m \in Nat /\ word = [k \in 1 .. m |-> Key(Six(text, k - 1))]
  BY EncodeIs DEF Six
<1>3. Len(word) = m /\ \A k \in 1 .. m : word[k] = Key(Six(text, k - 1))
  <2> HIDE DEF m
  <2> QED
    BY <1>2
<1>4. /\ m = s \/ m = s + p
      /\ s \in Nat /\ p \in Nat
      /\ \A k \in Nat : /\ k <= s => 6 * (k - 1) < 8 * n
                        /\ k > s => 6 * (k - 1) >= 8 * n
  <2> DEFINE e0 == EncodedSize(n, FALSE)
             e1 == EncodedSize(n, TRUE)
  <2>1. /\ e0 = s /\ e1 = s + p
        /\ s \in Nat /\ p \in Nat
        /\ \A k \in Nat : /\ k <= s => 6 * (k - 1) < 8 * n
                          /\ k > s => 6 * (k - 1) >= 8 * n
    BY <1>1, SizesAre
  <2>2. m = e0 \/ m = e1
    BY Zenon
  <2> HIDE DEF e0, e1, m, s, p
  <2> QED
    BY <2>1, <2>2
<1> HIDE DEF m, s, p
<1>5. \A j \in Nat : /\ 6 * j < 8 * n => j < m
                     /\ 6 * j < 8 * n => Six(text, j) \in 0 .. 63
                     /\ 6 * j >= 8 * n => Six(text, j) = 64
  <2> TAKE j \in Nat
  <2>1. 6 * j < 8 * n => j < m
    <3>1. j + 1 > s => 6 * (j + 1 - 1) >= 8 * n
      BY <1>4
    <3> HIDE DEF n
    <3> QED
      BY <1>1, <1>4, <3>1
  <2>2. After(n, j) \in Encoders(n)
    BY <1>1, AfterIn
  <2>3. Six(text, j) \in 0 .. 64
    BY <2>2, SextetIn DEF Six
  <2>4. /\ 6 * j < 8 * n => Six(text, j) = Group(text, j)
        /\ 6 * j >= 8 * n => Six(text, j) = 64
    BY DigitIs DEF Six
  <2>5. 6 * j < 8 * n => Six(text, j) # 64
    <3> SUFFICES ASSUME 6 * j < 8 * n, Six(text, j) = 64 PROVE FALSE
      OBVIOUS
    <3>1. j + 1 \in 1 .. m
      BY <1>1, <1>2, <2>1
    <3>2. n \in Nat
      BY <1>1
    <3>3. Group(text, j) \in 0 .. 63
      BY <3>2, GroupIn
    <3>4. Group(text, j) = 64
      BY <2>4
    <3> QED
      BY <3>3, <3>4
  <2> HIDE DEF n
  <2> QED
    BY <2>1, <2>3, <2>4, <2>5
<1>6. /\ \A j \in 1 .. m : /\ Found(code, stops[j - 1]) = stops[j]
                           /\ GetIn(code, stops[j - 1]) = RKey(word[j])
      /\ GetIn(code, stops[m]) = AtEnd
  BY <1>3, NextStop
<1>7. /\ code \in Seq(Int) /\ stops \in [0 .. m -> 0 .. Len(code)] /\ stops[0] = 0
  BY <1>3 DEF Spread
<1>8. ASSUME NEW j \in Nat
      PROVE  /\ 6 * j < 8 * n =>
                  /\ j < m /\ Six(text, j) \in 0 .. 63
                  /\ Found(code, stops[j]) = stops[j + 1] /\ GetIn(code, stops[j]) = Six(text, j)
             /\ 6 * j >= 8 * n /\ j <= m => GetIn(code, stops[j]) = AtEnd
  <2>1. j < m => /\ Found(code, stops[j]) = stops[j + 1]
                 /\ GetIn(code, stops[j]) = RKey(Key(Six(text, j)))
    <3> SUFFICES ASSUME j < m PROVE /\ Found(code, stops[j]) = stops[j + 1]
                                    /\ GetIn(code, stops[j]) = RKey(Key(Six(text, j)))
      OBVIOUS
    <3>1. PICK k \in 1 .. m : k = j + 1 /\ k - 1 = j
      BY <1>2
    <3> QED
      BY <1>3, <1>6, <3>1
  <2>2. 6 * j < 8 * n => j < m /\ Six(text, j) \in 0 .. 63
    BY <1>5
  <2>3. 6 * j < 8 * n => RKey(Key(Six(text, j))) = Six(text, j)
    BY <2>2, KeyReadBack
  <2>4. 6 * j >= 8 * n => RKey(Key(Six(text, j))) = AtEnd
    BY <1>5, KeyReadBack
  <2>5. j <= m => j < m \/ j = m
    BY <1>2
  <2> HIDE DEF n
  <2> QED
    BY <1>6, <2>1, <2>2, <2>3, <2>4, <2>5
<1> QED
  BY <1>2, <1>3, <1>7, <1>8 DEF DigitsIn

\* Where decoding is after 3 * m bytes, and after one and two more.
First(stops, m) == [it |-> stops[4 * m], bits |-> 0, extra |-> 0]
Second(text, stops, m) ==
  [it |-> stops[4 * m + 2], bits |-> 4, extra |-> Extra(6, Six(text, 4 * m + 1))]
Third(text, stops, m) ==
  [it |-> stops[4 * m + 3], bits |-> 2, extra |-> Extra(4, Six(text, 4 * m + 2))]

\* A byte out of two digits.
LEMMA TurnFirst ==
  ASSUME NEW code, NEW text, NEW stops, NEW z, DigitsIn(code, text, stops, z),
         NEW m \in Nat, 3 * m <= Len(text)
  PROVE  /\ First(stops, m) \in Decoders(code)
         /\ 3 * m = Len(text) => Stops(code, First(stops, m))
         /\ 3 * m < Len(text) =>
              /\ ~Stops(code, First(stops, m))
              /\ Turn(code, First(stops, m)) = Second(text, stops, m)
              /\ Gives(code, First(stops, m)) = text[3 * m + 1]
<1> DEFINE n == Len(text)
           i == First(stops, m)
           a == Six(text, 4 * m)
           b == Six(text, 4 * m + 1)
<1>1. n \in Nat /\ z \in Nat /\ 4 * m \in Nat /\ 4 * m + 1 \in Nat
      /\ Len(code) \in Nat /\ text \in Seq(Octets)
      /\ \A j \in 0 .. z : stops[j] \in 0 .. Len(code)
  <2>1. /\ code \in Seq(Int) /\ text \in Seq(Octets) /\ z \in Nat
        /\ stops \in [0 .. z -> 0 .. Len(code)]
    BY Zenon DEF DigitsIn
  <2>2. n \in Nat /\ Len(code) \in Nat
    BY <2>1, LenProperties
  <2> HIDE DEF n
  <2> QED
    BY <2>1, <2>2
<1>2. \A j \in Nat :
        /\ 6 * j < 8 * n =>
             /\ j < z /\ Six(text, j) \in 0 .. 63
             /\ Found(code, stops[j]) = stops[j + 1] /\ GetIn(code, stops[j]) = Six(text, j)
        /\ 6 * j >= 8 * n /\ j <= z => GetIn(code, stops[j]) = AtEnd
  BY DEF DigitsIn
<1> HIDE DEF n
<1>3. 4 * m <= z
  <2>1. CASE m = 0
    BY <1>1, <2>1
  <2>2. CASE m > 0
    <3>1. 4 * m - 1 \in Nat /\ 6 * (4 * m - 1) < 8 * n
      BY <2>2 DEF n
    <3> QED
      BY <1>1, <1>2, <3>1
  <2> QED
    BY <2>1, <2>2
<1>4. stops[4 * m] \in 0 .. Len(code)
  BY <1>1, <1>3
<1>5. i \in Decoders(code)
  BY <1>1, <1>4 DEF Decoders, First
<1>6. i.it = stops[4 * m] /\ i.bits = 0 /\ i.extra = 0
  BY DEF First
<1>7. /\ Place(code, i) = Found(code, stops[4 * m])
      /\ LeftBits(i) = 6 /\ Left(code, i) = GetIn(code, stops[4 * m])
  BY <1>6 DEF Place, LeftBits, Left
<1>8. ASSUME 3 * m = n PROVE Stops(code, i)
  <2>1. 6 * (4 * m) >= 8 * n
    BY <1>1, <1>8
  <2> QED
    BY <1>1, <1>2, <1>3, <1>7, <2>1 DEF Stops
<1>9. ASSUME 3 * m < n
      PROVE  /\ ~Stops(code, i)
             /\ Turn(code, i) = Second(text, stops, m)
             /\ Gives(code, i) = text[3 * m + 1]
  <2>1. 6 * (4 * m) < 8 * n /\ 6 * (4 * m + 1) < 8 * n /\ 4 * m + 1 + 1 = 4 * m + 2
    BY <1>1, <1>9
  <2>2. /\ a \in 0 .. 63 /\ Found(code, stops[4 * m]) = stops[4 * m + 1]
        /\ GetIn(code, stops[4 * m]) = a
    BY <1>1, <1>2, <2>1
  <2>3. /\ b \in 0 .. 63 /\ Found(code, stops[4 * m + 1]) = stops[4 * m + 2]
        /\ GetIn(code, stops[4 * m + 1]) = b
    <3>1. /\ b \in 0 .. 63 /\ Found(code, stops[4 * m + 1]) = stops[4 * m + 1 + 1]
          /\ GetIn(code, stops[4 * m + 1]) = b
      BY <1>1, <1>2, <2>1
    <3> QED
      BY <2>1, <3>1
  <2>4. Place(code, i) = stops[4 * m + 1] /\ Left(code, i) = a /\ Digit(code, i) = b
    BY <1>7, <2>2, <2>3 DEF Digit
  <2>5. a # AtEnd /\ b # AtEnd
    <3> HIDE DEF a, b
    <3> QED
      BY <2>2, <2>3 DEF AtEnd
  <2>6. Byte(a, 6, b) = text[3 * m + 1]
    <3>1. 4 * m + 0 = 4 * m
      OBVIOUS
    <3>2. Byte(Six(text, 4 * m + 0), 6, Six(text, 4 * m + 1)) = text[3 * m + 1]
      BY <1>1, <1>9, BytesComeBack DEF Six, n
    <3> QED
      BY <3>1, <3>2
  <2>7. 6 - (8 - 6) = 4
    OBVIOUS
  <2> HIDE DEF a, i
  <2> QED
    BY <1>7, <2>3, <2>4, <2>5, <2>6, <2>7, Zenon DEF Stops, Turn, Gives, Second
<1> QED
  BY <1>5, <1>8, <1>9 DEF n

\* A byte out of what was left over and a digit.
LEMMA TurnSecond ==
  ASSUME NEW code, NEW text, NEW stops, NEW z, DigitsIn(code, text, stops, z),
         NEW m \in Nat, 3 * m + 1 <= Len(text)
  PROVE  /\ Second(text, stops, m) \in Decoders(code)
         /\ 3 * m + 1 = Len(text) => Stops(code, Second(text, stops, m))
         /\ 3 * m + 1 < Len(text) =>
              /\ ~Stops(code, Second(text, stops, m))
              /\ Turn(code, Second(text, stops, m)) = Third(text, stops, m)
              /\ Gives(code, Second(text, stops, m)) = text[3 * m + 2]
<1> DEFINE n == Len(text)
           i == Second(text, stops, m)
           b == Six(text, 4 * m + 1)
           c == Six(text, 4 * m + 2)
           x == Extra(6, b)
<1>1. n \in Nat /\ z \in Nat /\ 4 * m + 1 \in Nat /\ 4 * m + 2 \in Nat
      /\ Len(code) \in Nat /\ text \in Seq(Octets)
      /\ \A j \in 0 .. z : stops[j] \in 0 .. Len(code)
  <2>1. /\ code \in Seq(Int) /\ text \in Seq(Octets) /\ z \in Nat
        /\ stops \in [0 .. z -> 0 .. Len(code)]
    BY Zenon DEF DigitsIn
  <2>2. n \in Nat /\ Len(code) \in Nat
    BY <2>1, LenProperties
  <2> HIDE DEF n
  <2> QED
    BY <2>1, <2>2
<1>2. \A j \in Nat :
        /\ 6 * j < 8 * n =>
             /\ j < z /\ Six(text, j) \in 0 .. 63
             /\ Found(code, stops[j]) = stops[j + 1] /\ GetIn(code, stops[j]) = Six(text, j)
        /\ 6 * j >= 8 * n /\ j <= z => GetIn(code, stops[j]) = AtEnd
  BY DEF DigitsIn
<1>0. 3 * m + 1 <= n
  OBVIOUS
<1> HIDE DEF n
<1>3. 4 * m + 2 <= z /\ b \in 0 .. 63
  <2>1. 6 * (4 * m + 1) < 8 * n
    BY <1>0, <1>1
  <2>2. 4 * m + 1 < z /\ b \in 0 .. 63
    BY <1>1, <1>2, <2>1
  <2> QED
    BY <1>1, <2>2
<1>4. stops[4 * m + 2] \in 0 .. Len(code)
  BY <1>1, <1>3
<1>5. x \in 0 .. 15
  <2> HIDE DEF b
  <2>1. 0 \in 0 .. 63
    OBVIOUS
  <2> QED
    BY <1>3, <2>1, ByteIsInt
<1>6. i \in Decoders(code) /\ i.it = stops[4 * m + 2] /\ i.bits = 4 /\ i.extra = x
  <2> HIDE DEF b
  <2> QED
    BY <1>1, <1>4, <1>5 DEF Decoders, Second, b
<1>7. Place(code, i) = stops[4 * m + 2] /\ LeftBits(i) = 4 /\ Left(code, i) = x
  <2> HIDE DEF i, x
  <2> QED
    BY <1>6 DEF Place, LeftBits, Left
<1>8. Digit(code, i) = GetIn(code, stops[4 * m + 2])
  BY <1>7 DEF Digit
<1>9. ASSUME 3 * m + 1 = n PROVE Stops(code, i)
  <2>1. 6 * (4 * m + 2) >= 8 * n
    BY <1>1, <1>9
  <2> QED
    BY <1>1, <1>2, <1>3, <1>8, <2>1 DEF Stops
<1>10. ASSUME 3 * m + 1 < n
       PROVE  /\ ~Stops(code, i)
              /\ Turn(code, i) = Third(text, stops, m)
              /\ Gives(code, i) = text[3 * m + 2]
  <2>1. 6 * (4 * m + 2) < 8 * n /\ 4 * m + 2 + 1 = 4 * m + 3
    BY <1>1, <1>10
  <2>2. /\ c \in 0 .. 63 /\ Found(code, stops[4 * m + 2]) = stops[4 * m + 3]
        /\ GetIn(code, stops[4 * m + 2]) = c
    <3>1. /\ c \in 0 .. 63 /\ Found(code, stops[4 * m + 2]) = stops[4 * m + 2 + 1]
          /\ GetIn(code, stops[4 * m + 2]) = c
      BY <1>1, <1>2, <2>1
    <3> QED
      BY <2>1, <3>1
  <2>3. Digit(code, i) = c
    BY <1>8, <2>2
  <2>4. x # AtEnd /\ c # AtEnd
    <3> HIDE DEF x, c
    <3> QED
      BY <1>5, <2>2 DEF AtEnd
  <2>5. Byte(x, 4, c) = text[3 * m + 2]
    BY <1>1, <1>10, BytesComeBack DEF Six, n
  <2>6. 6 - (8 - 4) = 2
    OBVIOUS
  <2> HIDE DEF i, x
  <2> QED
    BY <1>7, <2>2, <2>3, <2>4, <2>5, <2>6, Zenon DEF Stops, Turn, Gives, Third
<1> QED
  BY <1>6, <1>9, <1>10 DEF n

\* Then nothing is left over.
LEMMA TurnThird ==
  ASSUME NEW code, NEW text, NEW stops, NEW z, DigitsIn(code, text, stops, z),
         NEW m \in Nat, 3 * m + 2 <= Len(text)
  PROVE  /\ Third(text, stops, m) \in Decoders(code)
         /\ 3 * m + 2 = Len(text) => Stops(code, Third(text, stops, m))
         /\ 3 * m + 2 < Len(text) =>
              /\ ~Stops(code, Third(text, stops, m))
              /\ Turn(code, Third(text, stops, m)) = First(stops, m + 1)
              /\ Gives(code, Third(text, stops, m)) = text[3 * m + 3]
<1> DEFINE n == Len(text)
           i == Third(text, stops, m)
           c == Six(text, 4 * m + 2)
           d == Six(text, 4 * m + 3)
           x == Extra(4, c)
<1>1. n \in Nat /\ z \in Nat /\ 4 * m + 2 \in Nat /\ 4 * m + 3 \in Nat
      /\ Len(code) \in Nat /\ text \in Seq(Octets)
      /\ \A j \in 0 .. z : stops[j] \in 0 .. Len(code)
  <2>1. /\ code \in Seq(Int) /\ text \in Seq(Octets) /\ z \in Nat
        /\ stops \in [0 .. z -> 0 .. Len(code)]
    BY Zenon DEF DigitsIn
  <2>2. n \in Nat /\ Len(code) \in Nat
    BY <2>1, LenProperties
  <2> HIDE DEF n
  <2> QED
    BY <2>1, <2>2
<1>2. \A j \in Nat :
        /\ 6 * j < 8 * n =>
             /\ j < z /\ Six(text, j) \in 0 .. 63
             /\ Found(code, stops[j]) = stops[j + 1] /\ GetIn(code, stops[j]) = Six(text, j)
        /\ 6 * j >= 8 * n /\ j <= z => GetIn(code, stops[j]) = AtEnd
  BY DEF DigitsIn
<1>0. 3 * m + 2 <= n
  OBVIOUS
<1> HIDE DEF n
<1>3. 4 * m + 3 <= z /\ c \in 0 .. 63
  <2>1. 6 * (4 * m + 2) < 8 * n
    BY <1>0, <1>1
  <2>2. 4 * m + 2 < z /\ c \in 0 .. 63
    BY <1>1, <1>2, <2>1
  <2> QED
    BY <1>1, <2>2
<1>4. stops[4 * m + 3] \in 0 .. Len(code)
  BY <1>1, <1>3
<1>5. x \in 0 .. 15
  <2> HIDE DEF c
  <2>1. 0 \in 0 .. 63
    OBVIOUS
  <2> QED
    BY <1>3, <2>1, ByteIsInt
<1>6. i \in Decoders(code) /\ i.it = stops[4 * m + 3] /\ i.bits = 2 /\ i.extra = x
  <2> HIDE DEF c
  <2> QED
    BY <1>1, <1>4, <1>5 DEF Decoders, Third, c
<1>7. Place(code, i) = stops[4 * m + 3] /\ LeftBits(i) = 2 /\ Left(code, i) = x
  <2> HIDE DEF i, x
  <2> QED
    BY <1>6 DEF Place, LeftBits, Left
<1>8. Digit(code, i) = GetIn(code, stops[4 * m + 3])
  BY <1>7 DEF Digit
<1>9. ASSUME 3 * m + 2 = n PROVE Stops(code, i)
  <2>1. 6 * (4 * m + 3) >= 8 * n
    BY <1>1, <1>9
  <2> QED
    BY <1>1, <1>2, <1>3, <1>8, <2>1 DEF Stops
<1>10. ASSUME 3 * m + 2 < n
       PROVE  /\ ~Stops(code, i)
              /\ Turn(code, i) = First(stops, m + 1)
              /\ Gives(code, i) = text[3 * m + 3]
  <2>1. 6 * (4 * m + 3) < 8 * n /\ 4 * m + 3 + 1 = 4 * (m + 1)
    BY <1>1, <1>10
  <2>2. /\ d \in 0 .. 63 /\ Found(code, stops[4 * m + 3]) = stops[4 * (m + 1)]
        /\ GetIn(code, stops[4 * m + 3]) = d
    <3>1. /\ d \in 0 .. 63 /\ Found(code, stops[4 * m + 3]) = stops[4 * m + 3 + 1]
          /\ GetIn(code, stops[4 * m + 3]) = d
      BY <1>1, <1>2, <2>1
    <3> QED
      BY <2>1, <3>1
  <2>3. Digit(code, i) = d
    BY <1>8, <2>2
  <2>4. x # AtEnd /\ d # AtEnd /\ Extra(2, d) = 0
    <3> HIDE DEF x, d
    <3>1. 0 \in 0 .. 63 /\ 2 \in {2, 4, 6} /\ d \in 0 .. 63
      BY <2>2
    <3>2. Extra(2, d) = 0
      BY <3>1, ByteIsInt
    <3> QED
      BY <1>5, <3>1, <3>2 DEF AtEnd
  <2>5. Byte(x, 2, d) = text[3 * m + 3]
    BY <1>1, <1>10, BytesComeBack DEF Six, n
  <2>6. 6 - (8 - 2) = 0
    OBVIOUS
  <2> HIDE DEF i, x
  <2> QED
    BY <1>7, <2>2, <2>3, <2>4, <2>5, <2>6, Zenon DEF Stops, Turn, Gives, First
<1> QED
  BY <1>6, <1>9, <1>10 DEF n

\* So it comes back.
LEMMA DigitsDecode ==
  ASSUME NEW code, NEW text, NEW stops, NEW z, DigitsIn(code, text, stops, z)
  PROVE  Decode(code) = text
<1> DEFINE n == Len(text)
           at == [k \in 0 .. n |-> IF k % 3 = 0 THEN First(stops, k \div 3)
                                   ELSE IF k % 3 = 1 THEN Second(text, stops, k \div 3)
                                   ELSE Third(text, stops, k \div 3)]
           D == Decoders(code)
<1>1. n \in Nat /\ code \in Seq(Int) /\ text \in Seq(Octets) /\ stops[0] = 0
  BY DEF DigitsIn
<1>2. ASSUME NEW k \in Nat
      PROVE  \E m \in Nat :
               \/ k = 3 * m /\ k % 3 = 0 /\ k \div 3 = m
               \/ k = 3 * m + 1 /\ k % 3 = 1 /\ k \div 3 = m
               \/ k = 3 * m + 2 /\ k % 3 = 2 /\ k \div 3 = m
  <2>1. k \div 3 \in Nat /\ k % 3 \in 0 .. 2 /\ k = 3 * (k \div 3) + (k % 3)
    OBVIOUS
  <2> QED
    BY <2>1
<1>3. \A m \in Nat :
        /\ 3 * m \in 0 .. n => at[3 * m] = First(stops, m)
        /\ 3 * m + 1 \in 0 .. n => at[3 * m + 1] = Second(text, stops, m)
        /\ 3 * m + 2 \in 0 .. n => at[3 * m + 2] = Third(text, stops, m)
  <2> TAKE m \in Nat
  <2>1. /\ (3 * m) % 3 = 0 /\ (3 * m) \div 3 = m
        /\ (3 * m + 1) % 3 = 1 /\ (3 * m + 1) \div 3 = m
        /\ (3 * m + 2) % 3 = 2 /\ (3 * m + 2) \div 3 = m
    OBVIOUS
  <2>2. 1 # 0 /\ 2 # 0 /\ 2 # 1
    OBVIOUS
  <2> HIDE DEF n
  <2> QED
    BY <2>1, <2>2, Zenon
<1> HIDE DEF at, n
<1>4. ASSUME NEW k \in 0 .. n
      PROVE  /\ at[k] \in D
             /\ k = n => Stops(code, at[k])
             /\ k < n => /\ ~Stops(code, at[k]) /\ Turn(code, at[k]) = at[k + 1]
                         /\ Gives(code, at[k]) = text[k + 1]
  <2>1. PICK m \in Nat : \/ k = 3 * m
                         \/ k = 3 * m + 1
                         \/ k = 3 * m + 2
    <3>1. k \in Nat
      BY <1>1
    <3>2. \E m \in Nat :
             \/ k = 3 * m /\ k % 3 = 0 /\ k \div 3 = m
             \/ k = 3 * m + 1 /\ k % 3 = 1 /\ k \div 3 = m
             \/ k = 3 * m + 2 /\ k % 3 = 2 /\ k \div 3 = m
      BY <1>2, <3>1
    <3> QED
      BY <3>2, Zenon
  <2>2. CASE k = 3 * m
    <3>1. at[k] = First(stops, m) /\ (k < n => at[k + 1] = Second(text, stops, m))
      BY <1>1, <1>3, <2>2
    <3>2. 3 * m <= n
      BY <2>2, <1>1
    <3>3. /\ First(stops, m) \in D
          /\ 3 * m = n => Stops(code, First(stops, m))
          /\ 3 * m < n => /\ ~Stops(code, First(stops, m))
                          /\ Turn(code, First(stops, m)) = Second(text, stops, m)
                          /\ Gives(code, First(stops, m)) = text[3 * m + 1]
      BY <3>2, TurnFirst DEF n
    <3> HIDE DEF D
    <3> QED
      BY <2>2, <3>1, <3>3, Zenon
  <2>3. CASE k = 3 * m + 1
    <3>1. at[k] = Second(text, stops, m) /\ (k < n => at[k + 1] = Third(text, stops, m))
          /\ k + 1 = 3 * m + 2
      <4>1. k + 1 = 3 * m + 2 /\ (k < n => k + 1 \in 0 .. n)
        BY <1>1, <2>3
      <4> QED
        BY <1>3, <2>3, <4>1
    <3>2. 3 * m + 1 <= n
      BY <2>3, <1>1
    <3>3. /\ Second(text, stops, m) \in D
          /\ 3 * m + 1 = n => Stops(code, Second(text, stops, m))
          /\ 3 * m + 1 < n => /\ ~Stops(code, Second(text, stops, m))
                              /\ Turn(code, Second(text, stops, m)) = Third(text, stops, m)
                              /\ Gives(code, Second(text, stops, m)) = text[3 * m + 2]
      BY <3>2, TurnSecond DEF n
    <3> HIDE DEF D
    <3> QED
      BY <2>3, <3>1, <3>3, Zenon
  <2>4. CASE k = 3 * m + 2
    <3>1. at[k] = Third(text, stops, m) /\ (k < n => at[k + 1] = First(stops, m + 1))
          /\ k + 1 = 3 * m + 3
      <4>1. k + 1 = 3 * m + 3 /\ k + 1 = 3 * (m + 1) /\ m + 1 \in Nat
            /\ (k < n => k + 1 \in 0 .. n)
        BY <1>1, <2>4
      <4> QED
        BY <1>3, <2>4, <4>1
    <3>2. 3 * m + 2 <= n
      BY <2>4, <1>1
    <3>3. /\ Third(text, stops, m) \in D
          /\ 3 * m + 2 = n => Stops(code, Third(text, stops, m))
          /\ 3 * m + 2 < n => /\ ~Stops(code, Third(text, stops, m))
                              /\ Turn(code, Third(text, stops, m)) = First(stops, m + 1)
                              /\ Gives(code, Third(text, stops, m)) = text[3 * m + 3]
      BY <3>2, TurnThird DEF n
    <3> HIDE DEF D
    <3> QED
      BY <2>4, <3>1, <3>3, Zenon
  <2> QED
    BY <2>1, <2>2, <2>3, <2>4
<1>5. DecodesBy(code, n, at)
  <2>1. at \in [0 .. n -> D]
    <3>1. at = [k \in 0 .. n |-> at[k]]
      BY DEF at
    <3> HIDE DEF D
    <3> QED
      BY <1>4, <3>1
  <2>2. at[0] = [it |-> 0, bits |-> 0, extra |-> 0]
    <3>1. 0 = 3 * 0 /\ 0 \in Nat /\ 0 \in 0 .. n /\ 4 * 0 = 0
      BY <1>1
    <3>2. at[0] = First(stops, 0)
      BY <1>3, <3>1
    <3> QED
      BY <1>1, <3>1, <3>2 DEF First
  <2>3. \A k \in 0 .. n - 1 : ~Stops(code, at[k]) /\ Turn(code, at[k]) = at[k + 1]
    BY <1>1, <1>4
  <2>4. Stops(code, at[n])
    BY <1>1, <1>4
  <2> HIDE DEF D
  <2> QED
    BY <2>1, <2>2, <2>3, <2>4 DEF DecodesBy, D
<1>6. Decode(code) = [k \in 1 .. n |-> Gives(code, at[k - 1])]
  BY <1>1, <1>5, DecodeIs
<1>7. \A k \in 1 .. n : Gives(code, at[k - 1]) = text[k]
  <2> TAKE k \in 1 .. n
  <2>1. k - 1 \in 0 .. n /\ k - 1 < n /\ k - 1 + 1 = k
    BY <1>1
  <2> QED
    BY <1>4, <2>1
<1>8. text = [k \in 1 .. n |-> text[k]]
  BY <1>1 DEF n
<1> QED
  BY <1>6, <1>7, <1>8

(* What was encoded, with or without padding, is decoded to the same text, *)
(* whatever bytes below 128 that are no digits are in between, as newlines *)
(* are: get_in() skips them, and what is left over behind the last digit   *)
(* makes no byte.  (A byte from 128 on is a negative index into rkey.)     *)
THEOREM DecodeExact ==
  ASSUME NEW text \in Seq(Octets), NEW eqs \in BOOLEAN, NEW code, NEW stops,
         Spread(code, Encode(text, eqs), stops)
  PROVE  Decode(code) = text
<1> DEFINE word == Encode(text, eqs)
<1>1. DigitsIn(code, text, stops, Len(word))
  BY EncodedDigits
<1> QED
  BY <1>1, DigitsDecode

\* An encoded text is bytes below 128, and each of them is read.
LEMMA EncodedReads ==
  ASSUME NEW text \in Seq(Octets), NEW eqs \in BOOLEAN
  PROVE  /\ Encode(text, eqs) \in Seq(Octets) /\ Encode(text, eqs) \in Seq(Int)
         /\ \A k \in 1 .. Len(Encode(text, eqs)) : /\ RKey(Encode(text, eqs)[k]) # NoDigit
                                                   /\ Encode(text, eqs)[k] \in 0 .. 127
<1> DEFINE n == Len(text)
           m == EncodedSize(n, eqs)
           word == Encode(text, eqs)
<1>1. m \in Nat /\ word = [k \in 1 .. m |-> Key(Six(text, k - 1))]
  BY EncodeIs DEF Six
<1>2. ASSUME NEW k \in 1 .. m
      PROVE  /\ Key(Six(text, k - 1)) \in Octets /\ Key(Six(text, k - 1)) \in 0 .. 127
             /\ RKey(Key(Six(text, k - 1))) # NoDigit
  <2>1. k - 1 \in Nat
    BY <1>1
  <2>2. Six(text, k - 1) \in 0 .. 64
    BY <2>1, LenProperties, AfterIn, SextetIn DEF Six
  <2> DEFINE x == Six(text, k - 1)
  <2>3. x \in 0 .. 64 /\ (x \in 0 .. 63 \/ x = 64)
    BY <2>2
  <2> HIDE DEF x
  <2>4. RKey(Key(x)) # NoDigit
    <3>1. /\ x \in 0 .. 63 => RKey(Key(x)) = x
          /\ x = 64 => RKey(Key(x)) = AtEnd
      BY KeyReadBack
    <3>2. CASE x \in 0 .. 63
      BY <3>1, <3>2 DEF NoDigit
    <3>3. CASE x = 64
      BY <3>1, <3>3 DEF AtEnd, NoDigit
    <3> QED
      BY <2>3, <3>2, <3>3
  <2>5. Key(x) \in 0 .. 255
    BY <2>3, KeyIn
  <2>6. Key(x) \in 0 .. 127
    BY <2>3, KeyBelow
  <2> QED
    BY <2>4, <2>5, <2>6 DEF x, Octets
<1> HIDE DEF m, word
<1>3. Len(word) = m /\ word \in Seq(Octets)
  BY <1>1, <1>2
<1>4. Octets \subseteq Int
  BY DEF Octets
<1>5. word \in Seq(Int)
  BY <1>3, <1>4, SeqMonotonic
<1> QED
  BY <1>1, <1>2, <1>3, <1>5 DEF word

\* A byte that is skipped behind each one.
Spaced(s) == [k \in DOMAIN s |-> <<s[k], 32>>]

\* Where the bytes are then.
LEMMA SpacedIs ==
  ASSUME NEW s \in Seq(Octets)
  PROVE  LET t == FlattenSeq(Spaced(s))
         IN /\ t \in Seq(Octets) /\ Len(t) = 2 * Len(s)
            /\ \A k \in 1 .. Len(s) : t[2 * k - 1] = s[k] /\ t[2 * k] = 32
<1> DEFINE t == FlattenSeq(Spaced(s))
           n == Len(s)
           u == [k \in 1 .. n |-> <<s[k], 32>>]
           P(w, k) == /\ w \in Seq(Octets) /\ Len(w) = 2 * k
                      /\ \A i \in 1 .. k : w[2 * i - 1] = s[i] /\ w[2 * i] = 32
<1>1. n \in Nat /\ DOMAIN s = 1 .. n /\ \A k \in 1 .. n : s[k] \in Octets
  BY LenProperties, ElementOfSeq
<1>2. u \in Seq(Seq(Octets)) /\ Len(u) = n /\ \A k \in 1 .. n : u[k] = <<s[k], 32>>
  <2>1. 32 \in Octets
    BY DEF Octets
  <2>2. \A k \in 1 .. n : <<s[k], 32>> \in Seq(Octets)
    BY <1>1, <2>1
  <2> HIDE DEF n
  <2> QED
    BY <1>1, <2>2
<1>3. t = FlattenSeq(u)
  <2>1. Spaced(s) = u
    BY <1>1 DEF Spaced
  <2> QED
    BY <2>1, Zenon
<1> HIDE DEF t, u
<1>4. PICK v : /\ v[0] = <<>>
               /\ \A k \in 1 .. n : v[k] = v[k - 1] \o u[k] /\ v[k] \in Seq(Octets)
               /\ t = v[n]
  <2>1. \E v : /\ v[0] = <<>>
               /\ \A k \in 1 .. Len(u) : v[k] = v[k - 1] \o u[k] /\ v[k] \in Seq(Octets)
               /\ FlattenSeq(u) = v[Len(u)]
    BY <1>2, FlattenTrace
  <2> HIDE DEF n
  <2> QED
    BY <1>2, <1>3, <2>1
<1> DEFINE S == {k \in 0 .. n : P(v[k], k)}
<1>5. 0 \in S
  <2>1. P(<<>>, 0)
    BY EmptySeq
  <2> HIDE DEF P, n
  <2> QED
    BY <1>1, <1>4, <2>1
<1>6. ASSUME NEW k \in 1 .. n, k - 1 \in S PROVE k \in S
  <2> DEFINE w == v[k - 1]
             x == v[k]
  <2>1. /\ w \in Seq(Octets) /\ Len(w) = 2 * (k - 1)
        /\ \A i \in 1 .. k - 1 : w[2 * i - 1] = s[i] /\ w[2 * i] = 32
    BY <1>6
  <2>2. x = w \o <<s[k], 32>> /\ x \in Seq(Octets)
    BY <1>2, <1>4
  <2> HIDE DEF w, x
  <2>3. /\ <<s[k], 32>> \in Seq(Octets) /\ Len(<<s[k], 32>>) = 2
        /\ <<s[k], 32>>[1] = s[k] /\ <<s[k], 32>>[2] = 32
    <3>1. 32 \in Octets /\ s[k] \in Octets
      BY <1>1 DEF Octets
    <3> QED
      BY <3>1
  <2> DEFINE y == <<s[k], 32>>
  <2>4. k \in Nat /\ k >= 1 /\ k <= n
    BY <1>1
  <2> HIDE DEF y, n, P
  <2>5. /\ Len(x) = Len(w) + Len(y)
        /\ \A i \in 1 .. Len(w) : x[i] = w[i]
        /\ \A i \in 1 .. Len(y) : x[Len(w) + i] = y[i]
    <3>1. x = w \o y /\ y \in Seq(Octets)
      BY <2>2, <2>3, Zenon DEF y
    <3>2. /\ Len(x) = Len(w) + Len(y)
          /\ \A i \in 1 .. Len(w) + Len(y) :
               x[i] = IF i <= Len(w) THEN w[i] ELSE y[i - Len(w)]
      BY <2>1, <3>1, ConcatProperties
    <3>3. Len(w) \in Nat /\ Len(y) \in Nat
      BY <2>1, <3>1, LenProperties
    <3>4. ASSUME NEW i \in 1 .. Len(w) PROVE x[i] = w[i]
      BY <3>2, <3>3
    <3>5. ASSUME NEW i \in 1 .. Len(y) PROVE x[Len(w) + i] = y[i]
      <4>1. /\ Len(w) + i \in 1 .. Len(w) + Len(y) /\ ~(Len(w) + i <= Len(w))
            /\ Len(w) + i - Len(w) = i
        BY <3>3
      <4> QED
        BY <3>2, <4>1
    <3> QED
      BY <3>2, <3>4, <3>5
  <2>6. Len(x) = 2 * k /\ x[2 * k - 1] = s[k] /\ x[2 * k] = 32
    <3>1. Len(y) = 2 /\ y[1] = s[k] /\ y[2] = 32
      BY <2>3 DEF y
    <3>2. Len(w) + 1 = 2 * k - 1 /\ Len(w) + 2 = 2 * k
      BY <2>1, <2>4
    <3>3. 1 \in 1 .. Len(y) /\ 2 \in 1 .. Len(y)
      BY <3>1
    <3> QED
      BY <2>5, <3>1, <3>2, <3>3
  <2>7. \A i \in 1 .. k - 1 : x[2 * i - 1] = s[i] /\ x[2 * i] = 32
    <3> TAKE i \in 1 .. k - 1
    <3>1. 2 * i - 1 \in 1 .. Len(w) /\ 2 * i \in 1 .. Len(w)
      BY <2>1, <2>4
    <3> QED
      BY <2>1, <2>5, <3>1
  <2>8. \A i \in 1 .. k : i = k \/ i \in 1 .. k - 1
    BY <2>4
  <2>9. P(x, k)
    BY <2>2, <2>6, <2>7, <2>8 DEF P
  <2> QED
    BY <1>1, <2>4, <2>9 DEF x
<1>7. n \in S
  <2> HIDE DEF S, n
  <2>1. 0 .. n \subseteq S
    BY <1>1, <1>5, <1>6, Upwards
  <2> QED
    BY <1>1, <2>1
<1> QED
  BY <1>4, <1>7 DEF t

(* So it is with the digits, with the padded ones and with a blank behind  *)
(* each of these.                                                          *)
THEOREM RoundTrips ==
  ASSUME NEW text \in Seq(Octets), NEW eqs \in BOOLEAN, NEW word, word = Encode(text, eqs)
  PROVE  /\ Decode(word) = text
         /\ Decode(FlattenSeq(Spaced(word))) = text
<1> DEFINE n == Len(word)
           spaced == FlattenSeq(Spaced(word))
<1>1. /\ word \in Seq(Octets) /\ word \in Seq(Int) /\ n \in Nat
      /\ \A k \in 1 .. n : RKey(word[k]) # NoDigit /\ word[k] \in 0 .. 127
  BY EncodedReads, LenProperties
<1>2. Decode(word) = text
  <2> DEFINE stops == [j \in 0 .. n |-> j]
  <2>1. Spread(word, word, stops)
    <3> HIDE DEF n
    <3>1. stops \in [0 .. n -> 0 .. n] /\ stops[0] = 0
      BY <1>1
    <3>2. ASSUME NEW j \in 1 .. n
          PROVE  /\ stops[j - 1] < stops[j] /\ word[stops[j]] = word[j] /\ RKey(word[j]) # NoDigit
                 /\ \A k \in stops[j - 1] + 1 .. stops[j] - 1 : RKey(word[k]) = NoDigit
      <4>1. stops[j - 1] = j - 1 /\ stops[j] = j /\ j \in Nat
        BY <1>1
      <4>2. \A k \in j - 1 + 1 .. j - 1 : FALSE
        BY <4>1
      <4> HIDE DEF stops
      <4> QED
        BY <1>1, <4>1, <4>2
    <3>3. \A k \in stops[n] + 1 .. n : RKey(word[k]) = NoDigit
      <4>1. stops[n] = n
        BY <1>1
      <4> HIDE DEF stops
      <4> QED
        BY <1>1, <4>1
    <3> HIDE DEF stops
    <3> QED
      BY <1>1, <3>1, <3>2, <3>3 DEF Spread, n
  <2> HIDE DEF stops
  <2> QED
    BY <2>1, DecodeExact
<1>3. Decode(spaced) = text
  <2> DEFINE stops == [j \in 0 .. n |-> IF j = 0 THEN 0 ELSE 2 * j - 1]
  <2>1. /\ spaced \in Seq(Octets) /\ Len(spaced) = 2 * n
        /\ \A k \in 1 .. n : spaced[2 * k - 1] = word[k] /\ spaced[2 * k] = 32
    <3>1. \A s \in Seq(Octets) :
            LET t == FlattenSeq(Spaced(s))
            IN /\ t \in Seq(Octets) /\ Len(t) = 2 * Len(s)
               /\ \A k \in 1 .. Len(s) : t[2 * k - 1] = s[k] /\ t[2 * k] = 32
      BY SpacedIs, Zenon
    <3> QED
      BY <1>1, <3>1, Zenon
  <2> HIDE DEF spaced
  <2>2. spaced \in Seq(Int)
    <3>1. Octets \subseteq Int
      BY DEF Octets
    <3> QED
      BY <2>1, <3>1, SeqMonotonic
  <2>3. RKey(32) = NoDigit
    BY DEF RKey, NoDigit, Pad, AtEnd
  <2>4. Spread(spaced, word, stops)
    <3> HIDE DEF n
    <3>1. stops \in [0 .. n -> 0 .. 2 * n] /\ stops[0] = 0
      BY <1>1
    <3>2. ASSUME NEW j \in 1 .. n
          PROVE  /\ stops[j - 1] < stops[j] /\ spaced[stops[j]] = word[j]
                 /\ RKey(word[j]) # NoDigit
                 /\ \A k \in stops[j - 1] + 1 .. stops[j] - 1 : RKey(spaced[k]) = NoDigit
      <4>1. stops[j] = 2 * j - 1 /\ j \in Nat /\ j >= 1
        BY <1>1
      <4>2. stops[j - 1] = IF j = 1 THEN 0 ELSE 2 * j - 3
        BY <1>1
      <4> HIDE DEF stops
      <4>3. \A k \in stops[j - 1] + 1 .. stops[j] - 1 : j > 1 /\ k = 2 * (j - 1)
        BY <4>1, <4>2
      <4>4. j > 1 => spaced[2 * (j - 1)] = 32
        <5>1. j > 1 => j - 1 \in 1 .. n
          BY <1>1, <4>1
        <5> QED
          BY <2>1, <5>1
      <4>5. stops[j - 1] < stops[j]
        BY <4>1, <4>2
      <4>6. spaced[2 * j - 1] = word[j]
        BY <2>1
      <4> QED
        BY <1>1, <2>3, <4>1, <4>3, <4>4, <4>5, <4>6, Zenon
    <3>3. \A k \in stops[n] + 1 .. 2 * n : RKey(spaced[k]) = NoDigit
      <4>1. stops[n] = IF n = 0 THEN 0 ELSE 2 * n - 1
        BY <1>1
      <4> HIDE DEF stops
      <4>2. \A k \in stops[n] + 1 .. 2 * n : n \in 1 .. n /\ k = 2 * n
        BY <1>1, <4>1
      <4> QED
        BY <2>1, <2>3, <4>2
    <3>4. \A k \in 1 .. 2 * n : spaced[k] \in 0 .. 127
      <4>1. ASSUME NEW k \in 1 .. 2 * n PROVE spaced[k] \in 0 .. 127
        <5>1. PICK j \in 1 .. n : k = 2 * j - 1 \/ k = 2 * j
          <6>1. (k + 1) \div 2 \in 1 .. n
                /\ (k = 2 * ((k + 1) \div 2) - 1 \/ k = 2 * ((k + 1) \div 2))
            BY <1>1
          <6> QED
            BY <6>1
        <5>2. spaced[2 * j - 1] = word[j] /\ spaced[2 * j] = 32 /\ word[j] \in 0 .. 127
          BY <1>1, <2>1
        <5>3. 32 \in 0 .. 127
          OBVIOUS
        <5> QED
          BY <5>1, <5>2, <5>3, Zenon
      <4> QED
        BY <4>1
    <3> HIDE DEF stops
    <3> QED
      BY <1>1, <2>1, <2>2, <3>1, <3>2, <3>3, <3>4, Zenon DEF Spread, n
  <2> HIDE DEF stops
  <2> QED
    BY <2>4, DecodeExact
<1> QED
  BY <1>2, <1>3
=============================================================================
