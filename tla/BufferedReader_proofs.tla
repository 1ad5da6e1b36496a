----------------------- MODULE BufferedReader_proofs -----------------------
(***************************************************************************)
(* Proofs about BufferedReader, for any size of a buffer, any stream and   *)
(* any number of bytes given back.                                         *)
(***************************************************************************)
EXTENDS BufferedReader, SequenceTheorems, TLAPS

-----------------------------------------------------------------------------
(* Buffers and positions.                                                  *)

\* The number of bytes before a buffer grows with its index.
LEMMA Products ==
  ASSUME NEW a \in Int, NEW b \in Int
  PROVE  /\ a * BufferSize \in Int
         /\ (a + b) * BufferSize = a * BufferSize + b * BufferSize
         /\ (a - b) * BufferSize = a * BufferSize - b * BufferSize
         /\ a <= b => a * BufferSize <= b * BufferSize
         /\ 0 <= a => 0 <= a * BufferSize
<1>1. BufferSize \in Int /\ BufferSize > 0
  BY SizeAssumption
<1>2. (a - b) * BufferSize = a * BufferSize - b * BufferSize
  BY <1>1
<1>3. /\ a * BufferSize \in Int
      /\ (a + b) * BufferSize = a * BufferSize + b * BufferSize
  BY <1>1
<1>4. \A n \in Int : 0 <= n => 0 <= n * BufferSize
  BY <1>1
<1>5. a <= b => a * BufferSize <= b * BufferSize
  <2>1. a <= b => 0 <= (b - a) * BufferSize
    BY <1>4
  <2>2. (b - a) * BufferSize = b * BufferSize - a * BufferSize
    BY <1>1
  <2>3. a * BufferSize \in Int /\ b * BufferSize \in Int
    BY <1>1
  <2> QED
    BY <2>1, <2>2, <2>3
<1> QED
  BY <1>2, <1>3, <1>4, <1>5

\* The buffers and the stream are finite sequences.
LEMMA ReaderFacts ==
  ASSUME TypeOK
  PROVE  /\ Len(buffers) \in Nat /\ DOMAIN buffers = 1..Len(buffers)
         /\ buffers = <<>> <=> Len(buffers) = 0
         /\ \A k \in 1..Len(buffers) : buffers[k] \in Seq(Int)
         /\ sent \in Seq(Int) /\ Len(sent) \in Nat /\ received \in 0..Len(sent)
         /\ \A i \in 1..Len(sent) : sent[i] \in Int
         /\ BufferSize \in Nat /\ BufferSize > 0 /\ Last \in Int
<1>1. sent \in Seq(Int)
  BY StreamsAssumption DEF TypeOK
<1> QED
  BY <1>1, LenProperties, EmptySeq, ElementOfSeq, SizeAssumption DEF TypeOK, Last

\* The k-th buffer, from 0: how many of its bytes are written.
Filled(k) == IF k < Last THEN BufferSize ELSE written

\* What a buffer holds, and where in the stream.
LEMMA BufferHolds ==
  ASSUME IInv, NEW k \in 0..Last
  PROVE  /\ k * BufferSize \in Nat
         /\ k * BufferSize + Filled(k) <= received
         /\ k < Last => (k + 1) * BufferSize = k * BufferSize + BufferSize
         /\ k = Last => k * BufferSize + written = received
         /\ Filled(k) \in 0..BufferSize
         /\ buffers[k + 1] = SubSeq(sent, k * BufferSize + 1,
                                    k * BufferSize + Filled(k))
<1>1. /\ buffers # <<>> /\ k + 1 \in DOMAIN buffers
      /\ received \in Nat /\ written \in 0..BufferSize /\ BufferSize \in Nat
      /\ Last \in Int
  BY ReaderFacts DEF IInv, TypeOK, Last
<1>2. received = Last * BufferSize + written
  BY <1>1 DEF IInv, Holds
<1>3. /\ k * BufferSize \in Int /\ 0 <= k * BufferSize
      /\ (k + 1) * BufferSize = k * BufferSize + 1 * BufferSize
      /\ Last * BufferSize \in Int
      /\ k + 1 <= Last => (k + 1) * BufferSize <= Last * BufferSize
  BY Products, <1>1
<1>4. 1 * BufferSize = BufferSize
  BY <1>1
<1>5. buffers[k + 1] = SubSeq(sent, ((k + 1) - 1) * BufferSize + 1,
                              IF k + 1 <= Last THEN (k + 1) * BufferSize ELSE received)
  BY <1>1 DEF IInv, Holds
<1>6. (k + 1) - 1 = k
  OBVIOUS
<1>7. (IF k + 1 <= Last THEN (k + 1) * BufferSize ELSE received)
        = k * BufferSize + Filled(k)
  <2>1. CASE k = Last
    BY <1>1, <1>2, <2>1 DEF Filled
  <2>2. CASE k < Last
    BY <1>1, <1>3, <1>4, <2>2 DEF Filled
  <2> QED
    BY <1>1, <2>1, <2>2
<1>8. buffers[k + 1] = SubSeq(sent, k * BufferSize + 1, k * BufferSize + Filled(k))
  BY <1>5, <1>6, <1>7
<1>9. Filled(k) \in 0..BufferSize /\ Filled(Last) = written
  BY <1>1 DEF Filled
<1>10. k * BufferSize + Filled(k) <= received
  <2>1. CASE k = Last
    BY <1>1, <1>2, <1>3, <1>9, <2>1
  <2>2. CASE k < Last
    BY <1>1, <1>2, <1>3, <1>4, <2>2 DEF Filled
  <2> QED
    BY <1>1, <2>1, <2>2
<1> QED
  BY <1>1, <1>2, <1>3, <1>4, <1>8, <1>9, <1>10

\* A view into a buffer is a part of the stream.
LEMMA ViewOfStream ==
  ASSUME IInv, NEW k \in 0..Last, NEW a \in Nat, NEW b \in Nat,
         a < b, b <= Filled(k)
  PROVE  View(k, a, b) = SubSeq(sent, k * BufferSize + a + 1, k * BufferSize + b)
<1>1. PICK start \in Nat : start = k * BufferSize
  BY BufferHolds
<1>2. PICK filled \in Nat : filled = Filled(k)
  BY BufferHolds, SizeAssumption
<1> DEFINE i == start + 1
           j == start + filled
<1>3. j <= received /\ buffers[k + 1] = SubSeq(sent, i, j) /\ b <= filled
  BY <1>1, <1>2, BufferHolds
<1>4. sent \in Seq(Int) /\ received \in 0..Len(sent) /\ Len(sent) \in Nat
  BY ReaderFacts DEF IInv
<1>5. /\ i \in 1..Len(sent) /\ j \in 1..Len(sent)
      /\ a + 1 \in 1..j - i + 1 /\ b \in 1..j - i + 1
  BY <1>3, <1>4
<1>6. SubSeq(SubSeq(sent, i, j), a + 1, b) = SubSeq(sent, i + (a + 1) - 1, i + b - 1)
  <2> HIDE DEF i, j
  <2> QED
    BY <1>4, <1>5, SubSeqOfSubSeq
<1>7. i + (a + 1) - 1 = start + a + 1 /\ i + b - 1 = start + b
  OBVIOUS
<1> QED
  BY <1>1, <1>3, <1>6, <1>7 DEF View

\* The position is inside the received part of the stream.
LEMMA PositionBelow ==
  ASSUME IInv
  PROVE  /\ Position \in Nat /\ Position <= received
         /\ Last < rbuf => Position = 0 /\ received = 0 /\ buffers = <<>>
<1>1. /\ rbuf \in Nat /\ ridx \in Nat /\ received \in Nat /\ written \in Nat
      /\ BufferSize \in Nat /\ Len(buffers) \in Nat
      /\ (buffers = <<>> <=> Len(buffers) = 0)
  BY ReaderFacts DEF IInv, TypeOK
<1>2. CASE buffers = <<>>
  <2>1. rbuf = 0 /\ ridx = 0 /\ received = 0
    BY <1>2 DEF IInv, PositionInside
  <2> QED
    BY <1>1, <1>2, <2>1 DEF Position
<1>3. CASE buffers # <<>>
  <2>1. rbuf \in 0..Last /\ Last \in Int
        /\ (rbuf < Last => ridx < BufferSize) /\ (rbuf = Last => ridx <= written)
    BY <1>1, <1>3 DEF IInv, PositionInside, Last
  <2>2. ridx <= Filled(rbuf) /\ Filled(rbuf) \in Nat
    BY <1>1, <2>1 DEF Filled
  <2>3. rbuf * BufferSize \in Nat /\ rbuf * BufferSize + Filled(rbuf) <= received
    BY <2>1, BufferHolds
  <2> QED
    BY <1>1, <2>1, <2>2, <2>3 DEF Position
<1> QED
  BY <1>2, <1>3

-----------------------------------------------------------------------------
(* One lemma for each action: the invariant holds after it, and it is a    *)
(* step of the abstract reader.                                            *)

LEMMA InitHolds == Init => IInv /\ Abstract!Start
<1> SUFFICES ASSUME NEW bytes \in Streams, Empty(bytes)
             PROVE  IInv /\ Abstract!Start
  BY DEF Init
<1>1. /\ bytes \in Seq(Int) /\ BufferSize \in Nat /\ BufferSize > 0
      /\ Len(bytes) \in Nat /\ <<>> \in Seq(Int) /\ <<>> \in Seq(Seq(Int))
  BY StreamsAssumption, SizeAssumption, LenProperties, EmptySeq
<1>2. Position = 0
  BY <1>1 DEF Empty, Position
<1>3. TypeOK
  <2>1. buffers \in Seq(Seq(Int)) /\ out \in Seq(Int) /\ sent \in Streams
    BY <1>1, Zenon DEF Empty
  <2>2. received \in 0..Len(sent)
    BY <1>1 DEF Empty
  <2>3. cur \in {0, BufferSize} /\ reading \in BOOLEAN
    BY Zenon DEF Empty
  <2>4. written \in 0..BufferSize /\ rbuf \in Nat /\ ridx \in 0..BufferSize
    BY SizeAssumption DEF Empty
  <2> QED
    BY <2>1, <2>2, <2>3, <2>4 DEF TypeOK
<1> QED
  BY <1>2, <1>3 DEF Empty, IInv, Holds, PositionInside, Abstract!Start

LEMMA ReadFromEarlierStep ==
  ASSUME IInv, ReadFromEarlier
  PROVE  IInv' /\ Abstract!Again
<1>1. /\ rbuf \in Nat /\ ridx \in Nat /\ received \in Nat /\ written \in 0..BufferSize
      /\ BufferSize \in Nat /\ BufferSize > 0 /\ Len(buffers) \in Nat /\ Last \in Int
      /\ (buffers = <<>> <=> Len(buffers) = 0)
  BY ReaderFacts DEF IInv, TypeOK
<1>2. rbuf \in 0..Last /\ rbuf < Last /\ buffers # <<>> /\ ~reading
  BY <1>1 DEF ReadFromEarlier, Last
<1>3. ridx < BufferSize
  BY <1>2 DEF IInv, PositionInside
<1>4. Filled(rbuf) = BufferSize
  BY <1>2 DEF Filled
<1>5. /\ rbuf * BufferSize \in Nat /\ rbuf * BufferSize + BufferSize <= received
      /\ (rbuf + 1) * BufferSize = rbuf * BufferSize + BufferSize
  BY <1>2, <1>4, BufferHolds
<1>6. View(rbuf, ridx, BufferSize)
        = SubSeq(sent, rbuf * BufferSize + ridx + 1, rbuf * BufferSize + BufferSize)
  BY <1>1, <1>2, <1>3, <1>4, ViewOfStream
<1>7. out' \in Seq(Int)
  <2>1. sent \in Seq(Int) /\ received \in 0..Len(sent) /\ Len(sent) \in Nat
    BY ReaderFacts DEF IInv
  <2>2. \A i \in (rbuf * BufferSize + ridx + 1)..(rbuf * BufferSize + BufferSize) :
          sent[i] \in Int
    BY <1>1, <1>5, <2>1, ElementOfSeq
  <2> QED
    BY <1>1, <1>5, <1>6, <2>2, SubSeqProperties DEF ReadFromEarlier
<1>8. IInv'
  <2>1. TypeOK'
    BY <1>1, <1>7 DEF IInv, TypeOK, ReadFromEarlier
  <2>2. Holds'
    BY DEF IInv, Holds, ReadFromEarlier, Last
  <2>3. PositionInside'
    BY <1>1, <1>2 DEF ReadFromEarlier, PositionInside, Last
  <2> QED
    BY <2>1, <2>2, <2>3 DEF IInv
<1>9. Abstract!Again
  <2> DEFINE to == rbuf * BufferSize + BufferSize
  <2>1. to \in (Position + 1)..received
    BY <1>1, <1>3, <1>5 DEF Position
  <2>2. Position' = to
    BY <1>1, <1>5 DEF ReadFromEarlier, Position
  <2>3. out' = Abstract!Slice(Position, to)
    BY <1>6 DEF Abstract!Slice, Position, ReadFromEarlier
  <2> QED
    BY <2>1, <2>2, <2>3 DEF Abstract!Again, ReadFromEarlier
<1> QED
  BY <1>8, <1>9

LEMMA ReadFromLastStep ==
  ASSUME IInv, ReadFromLast
  PROVE  IInv' /\ Abstract!Again
<1>1. /\ rbuf \in Nat /\ ridx \in Nat /\ received \in Nat /\ written \in 0..BufferSize
      /\ BufferSize \in Nat /\ BufferSize > 0 /\ Len(buffers) \in Nat /\ Last \in Int
      /\ (buffers = <<>> <=> Len(buffers) = 0)
  BY ReaderFacts DEF IInv, TypeOK
<1>2. rbuf \in 0..Last /\ rbuf = Last /\ buffers # <<>> /\ ~reading /\ ridx < written
  BY <1>1 DEF ReadFromLast, Last
<1>3. Filled(rbuf) = written
  BY <1>1, <1>2 DEF Filled
<1>4. rbuf * BufferSize \in Nat /\ rbuf * BufferSize + written = received
  BY <1>2, BufferHolds
<1>5. View(rbuf, ridx, written)
        = SubSeq(sent, rbuf * BufferSize + ridx + 1, rbuf * BufferSize + written)
  BY <1>1, <1>2, <1>3, ViewOfStream
<1>6. out' \in Seq(Int)
  <2>1. sent \in Seq(Int) /\ received \in 0..Len(sent) /\ Len(sent) \in Nat
    BY ReaderFacts DEF IInv
  <2>2. \A i \in (rbuf * BufferSize + ridx + 1)..(rbuf * BufferSize + written) :
          sent[i] \in Int
    BY <1>1, <1>4, <2>1, ElementOfSeq
  <2> QED
    BY <1>1, <1>4, <1>5, <2>2, SubSeqProperties DEF ReadFromLast
<1>7. IInv'
  <2>1. TypeOK'
    BY <1>1, <1>6 DEF IInv, TypeOK, ReadFromLast
  <2>2. Holds'
    BY DEF IInv, Holds, ReadFromLast, Last
  <2>3. PositionInside'
    BY <1>1, <1>2 DEF ReadFromLast, PositionInside, Last
  <2> QED
    BY <2>1, <2>2, <2>3 DEF IInv
<1>8. Abstract!Again
  <2> DEFINE to == rbuf * BufferSize + written
  <2>1. to \in (Position + 1)..received
    BY <1>1, <1>2, <1>4 DEF Position
  <2>2. Position' = to
    BY DEF ReadFromLast, Position
  <2>3. out' = Abstract!Slice(Position, to)
    BY <1>5 DEF Abstract!Slice, Position, ReadFromLast
  <2> QED
    BY <2>1, <2>2, <2>3 DEF Abstract!Again, ReadFromLast
<1> QED
  BY <1>7, <1>8

\* The position moves to the end of what was received, where room is made.
LEMMA AskForMoreStep ==
  ASSUME IInv, AskForMore
  PROVE  /\ IInv' /\ Position' = Position
         /\ UNCHANGED <<sent, received, out>>
<1>0. /\ rbuf \in Nat /\ ridx \in Nat /\ received \in Nat /\ written \in 0..BufferSize
      /\ BufferSize \in Nat /\ BufferSize > 0 /\ Len(buffers) \in Nat
      /\ Last = Len(buffers) - 1 /\ Len(sent) \in Nat /\ received <= Len(sent)
  BY ReaderFacts DEF IInv, TypeOK, Last
<1>1. /\ rbuf \in Nat /\ ridx \in Nat /\ received \in Nat /\ written \in 0..BufferSize
      /\ BufferSize \in Nat /\ BufferSize > 0 /\ Len(buffers) \in Nat /\ Last \in Int
      /\ (buffers = <<>> <=> Len(buffers) = 0) /\ DOMAIN buffers = 1..Len(buffers)
      /\ cur \in {0, BufferSize} /\ Last = Len(buffers) - 1
      /\ buffers \in Seq(Seq(Int)) /\ <<>> \in Seq(Int)
      /\ sent \in Seq(Int) /\ Len(sent) \in Nat
  BY ReaderFacts, EmptySeq DEF IInv, TypeOK, Last
<1>2. Position = received
  <2>1. CASE buffers = <<>>
    BY <1>1, <2>1 DEF IInv, PositionInside, Position
  <2>2. CASE buffers # <<>>
    <3>1. rbuf = Last /\ ridx = written /\ Last \in 0..Last
      <4>1. rbuf <= Last /\ (rbuf = Last => ridx <= written) /\ rbuf >= Last
            /\ ~(rbuf = Last /\ ridx < written) /\ ridx \in Nat /\ Len(buffers) # 0
        <5>1. Len(buffers) # 0 /\ ridx \in Nat
          BY <1>1, <2>2
        <5>2. /\ rbuf <= Last
              /\ IF rbuf < Last THEN ridx < BufferSize ELSE ridx <= written
          BY <2>2 DEF IInv, PositionInside
        <5>3. rbuf >= Last /\ ~(rbuf = Last /\ ridx < written)
          BY DEF AskForMore, AllRead
        <5> QED
          BY <1>0, <5>1, <5>2, <5>3
      <4> QED
        BY <1>0, <4>1
    <3> QED
      BY <3>1, BufferHolds DEF Position
  <2> QED
    BY <2>1, <2>2
<1>3. CASE Room # 0
  <2>1. buffers # <<>> /\ UNCHANGED <<buffers, cur, written, received, sent, out>>
    BY <1>1, <1>3 DEF IInv, Holds, AskForMore, GetFreeBuffer, Room
  <2>2. rbuf' = Last /\ ridx' = written /\ reading' = TRUE /\ Last' = Last /\ Last \in 0..Last
    BY <1>1, <2>1 DEF AskForMore, Last
  <2>3. TypeOK'
    BY <1>1, <2>1, <2>2 DEF IInv, TypeOK
  <2>4. Holds'
    BY <2>1 DEF IInv, Holds, Last
  <2>5. Room > 0
    <3>1. cur = BufferSize
      BY <2>1 DEF IInv, Holds
    <3> QED
      BY <1>1, <1>3, <3>1 DEF Room
  <2>6. PositionInside'
    BY <1>1, <2>1, <2>2, <2>5 DEF PositionInside, Room
  <2>7. Position' = Position
    BY <1>2, <2>2, BufferHolds DEF Position
  <2> QED
    BY <2>1, <2>3, <2>4, <2>6, <2>7 DEF IInv
<1>4. CASE Room = 0
  <2>1. /\ buffers' = Append(buffers, <<>>) /\ cur' = BufferSize /\ written' = 0
        /\ UNCHANGED <<received, sent, out>> /\ reading' = TRUE
    BY <1>4 DEF AskForMore, GetFreeBuffer
  <2>2. /\ buffers' \in Seq(Seq(Int)) /\ Len(buffers') = Len(buffers) + 1
        /\ \A k \in 1..Len(buffers) : buffers'[k] = buffers[k]
        /\ buffers'[Len(buffers) + 1] = <<>>
    BY <1>1, <2>1, AppendProperties
  <2>3. /\ Last' = Len(buffers) /\ buffers' # <<>> /\ DOMAIN buffers' = 1..(Len(buffers) + 1)
        /\ rbuf' = Len(buffers) /\ ridx' = 0
    <3>1. Last' = Len(buffers) /\ rbuf' = Len(buffers) /\ ridx' = 0
      BY <1>1, <2>1, <2>2 DEF Last, AskForMore
    <3>2. buffers' # <<>>
      BY <1>1, <2>1, AppendProperties, SMTT(30)
    <3>3. DOMAIN buffers' = 1..(Len(buffers) + 1)
      BY <2>2, LenProperties
    <3> QED
      BY <3>1, <3>2, <3>3
  <2>4. received = Len(buffers) * BufferSize
    <3>1. CASE buffers = <<>>
      BY <1>1, <3>1 DEF IInv, PositionInside
    <3>2. CASE buffers # <<>>
      <4>1. cur = BufferSize /\ received = Last * BufferSize + written
        BY <3>2 DEF IInv, Holds
      <4>2. written = BufferSize
        BY <1>1, <1>4, <4>1 DEF Room
      <4>3. (Last + 1) * BufferSize = Last * BufferSize + 1 * BufferSize
        BY <1>1, Products
      <4> QED
        BY <1>1, <4>1, <4>2, <4>3
    <3> QED
      BY <3>1, <3>2
  <2>5. TypeOK'
    <3>1. /\ sent' \in Streams /\ received' \in 0..Len(sent') /\ out' \in Seq(Int)
          /\ buffers' \in Seq(Seq(Int)) /\ reading' \in BOOLEAN
      BY <2>1, <2>2 DEF IInv, TypeOK
    <3>2. cur' \in {0, BufferSize} /\ written' \in 0..BufferSize
          /\ rbuf' \in Nat /\ ridx' \in 0..BufferSize
      BY <1>1, <2>1, <2>3
    <3> QED
      BY <3>1, <3>2 DEF TypeOK
  <2>6. Holds'
    <3>1. received' = Last' * BufferSize + written'
      BY <1>1, <2>1, <2>3, <2>4
    <3>2. ASSUME NEW k \in 1..(Len(buffers) + 1)
          PROVE  buffers'[k] = SubSeq(sent, (k - 1) * BufferSize + 1,
                                IF k <= Len(buffers) THEN k * BufferSize ELSE received)
      <4>1. CASE k = Len(buffers) + 1
        <5>1. buffers'[k] = <<>> /\ (k - 1) * BufferSize = received
          BY <1>1, <2>2, <2>4, <4>1
        <5>2. SubSeq(sent, received + 1, received) = <<>>
          BY <1>1, SubSeqEmpty
        <5>3. (IF k <= Len(buffers) THEN k * BufferSize ELSE received) = received
          BY <1>1, <4>1
        <5> QED
          BY <5>1, <5>2, <5>3
      <4>2. CASE k \in 1..Len(buffers)
        <5>1. buffers[k] = SubSeq(sent, (k - 1) * BufferSize + 1,
                                  IF k <= Last THEN k * BufferSize ELSE received)
          <6>1. buffers # <<>> /\ k \in DOMAIN buffers
            BY <1>1, <4>2
          <6> QED
            BY <6>1, Zenon DEF IInv, Holds
        <5>2. k <= Len(buffers) /\ buffers'[k] = buffers[k]
          BY <2>2, <4>2
        <5>3. (IF k <= Last THEN k * BufferSize ELSE received) = k * BufferSize
          <6>1. CASE k <= Last
            BY <6>1
          <6>2. CASE ~(k <= Last)
            <7>1. k = Len(buffers)
              BY <1>0, <4>2, <6>2
            <7> QED
              BY <2>4, <6>2, <7>1
          <6> QED
            BY <6>1, <6>2
        <5> QED
          BY <5>1, <5>2, <5>3
      <4> QED
        BY <1>1, <4>1, <4>2
    <3> QED
      BY <2>1, <2>3, <3>1, <3>2 DEF Holds
  <2>7. PositionInside'
    BY <1>1, <2>1, <2>3 DEF PositionInside, Room
  <2>8. Position' = Position
    BY <1>1, <1>2, <2>3, <2>4 DEF Position
  <2> QED
    BY <2>1, <2>5, <2>6, <2>7, <2>8 DEF IInv
<1> QED
  BY <1>3, <1>4

LEMMA ReadDoneStep ==
  ASSUME IInv, NEW sz \in Answerable, ReadDone(sz)
  PROVE  IInv' /\ Abstract!Fresh /\ Position' = Position + sz
<1> DEFINE bytes == SubSeq(sent, received + 1, received + sz)
<1>0. /\ rbuf \in Nat /\ ridx \in Nat /\ received \in Nat /\ written \in 0..BufferSize
      /\ BufferSize \in Nat /\ BufferSize > 0 /\ Len(buffers) \in Nat
      /\ Last = Len(buffers) - 1 /\ Len(sent) \in Nat /\ received <= Len(sent)
  BY ReaderFacts DEF IInv, TypeOK, Last
<1>1. /\ rbuf \in Nat /\ ridx \in Nat /\ received \in Nat /\ written \in 0..BufferSize
      /\ BufferSize \in Nat /\ BufferSize > 0 /\ Len(buffers) \in Nat /\ Last \in Int
      /\ (buffers = <<>> <=> Len(buffers) = 0) /\ DOMAIN buffers = 1..Len(buffers)
      /\ Last = Len(buffers) - 1 /\ buffers \in Seq(Seq(Int)) /\ <<>> \in Seq(Int)
      /\ sent \in Seq(Int) /\ Len(sent) \in Nat /\ received <= Len(sent)
      /\ \A i \in 1..Len(sent) : sent[i] \in Int
  BY ReaderFacts, EmptySeq DEF IInv, TypeOK, Last
<1>2. /\ reading /\ buffers # <<>> /\ rbuf = Last /\ ridx = written /\ cur = BufferSize
      /\ Last \in 0..Last
  BY <1>1 DEF ReadDone, IInv, PositionInside, Holds
<1>3. sz \in Nat /\ written + sz <= BufferSize /\ received + sz <= Len(sent)
  BY <1>1, <1>2 DEF Answerable, Room
<1>4. /\ Last * BufferSize \in Nat /\ Last * BufferSize + written = received
      /\ buffers[Last + 1] = SubSeq(sent, Last * BufferSize + 1, received)
  <2>1. Filled(Last) = written
    BY <1>1 DEF Filled
  <2> QED
    BY <1>2, <2>1, BufferHolds
<1>5. /\ received' = received + sz /\ written' = written + sz /\ ridx' = ridx + sz
      /\ reading' = FALSE /\ out' = bytes /\ UNCHANGED <<sent, cur, rbuf>>
      /\ buffers' = [buffers EXCEPT ![Last + 1] =
                       SubSeq(buffers[Last + 1], 1, written) \o bytes]
  BY DEF ReadDone
<1>6. bytes \in Seq(Int)
  BY <1>1, <1>3, SubSeqProperties
<1>7. /\ SubSeq(buffers[Last + 1], 1, written) = buffers[Last + 1]
      /\ buffers[Last + 1] \in Seq(Int)
  <2>1. /\ SubSeq(sent, Last * BufferSize + 1, received) \in Seq(Int)
        /\ Len(SubSeq(sent, Last * BufferSize + 1, received)) = written
    <3> DEFINE k == Last * BufferSize
    <3>1. k \in Nat /\ k + written = received /\ received <= Len(sent)
          /\ k + 1 \in 1..Len(sent) + 1
      BY <1>1, <1>4
    <3> HIDE DEF k
    <3>2. /\ \A i \in k + 1..received : sent[i] \in Int
          /\ received - (k + 1) + 1 = written /\ k + 1 <= received + 1
      BY <1>1, <3>1
    <3>3. SubSeq(sent, k + 1, received) \in Seq(Int)
          /\ Len(SubSeq(sent, k + 1, received)) = written
      BY <1>1, <3>1, <3>2, SubSeqProperties
    <3> QED
      BY <3>3 DEF k
  <2> QED
    BY <1>4, <2>1, SubSeqFull
<1>8. buffers[Last + 1] \o bytes = SubSeq(sent, Last * BufferSize + 1, received + sz)
  <2>1. /\ Last * BufferSize + 1 \in 1..Len(sent) + 1
        /\ received \in (Last * BufferSize + 1) - 1 .. Len(sent)
        /\ received + sz \in received .. Len(sent)
    BY <1>1, <1>3, <1>4
  <2>2. sent \in Seq(Int)
      BY <1>1
    <2>3. SubSeq(sent, Last * BufferSize + 1, received) \o SubSeq(sent, received + 1, received + sz)
            = SubSeq(sent, Last * BufferSize + 1, received + sz)
      BY <2>1, <2>2, ConcatAdjacentSubSeq
    <2> QED
      BY <1>4, <2>3
<1>9. /\ buffers' \in Seq(Seq(Int)) /\ Len(buffers') = Len(buffers) /\ buffers' # <<>>
      /\ DOMAIN buffers' = 1..Len(buffers) /\ Last' = Last
      /\ buffers'[Last + 1] = SubSeq(sent, Last * BufferSize + 1, received + sz)
      /\ \A k \in 1..Last : buffers'[k] = buffers[k]
  <2> DEFINE b == SubSeq(buffers[Last + 1], 1, written) \o bytes
  <2>1. b \in Seq(Int) /\ b = SubSeq(sent, Last * BufferSize + 1, received + sz)
    BY <1>6, <1>7, <1>8, ConcatProperties
  <2>2. buffers' = [buffers EXCEPT ![Last + 1] = b] /\ Last + 1 \in 1..Len(buffers)
    BY <1>1, <1>2, <1>5
  <2> HIDE DEF b
  <2>3. /\ buffers' \in Seq(Seq(Int)) /\ Len(buffers') = Len(buffers)
        /\ \A k \in 1..Len(buffers) : buffers'[k] = IF k = Last + 1 THEN b ELSE buffers[k]
    BY <1>1, <2>1, <2>2, ExceptSeq
  <2>4. DOMAIN buffers' = 1..Len(buffers) /\ Last' = Last
    BY <1>1, <2>3, LenProperties DEF Last
  <2>5. buffers' # <<>>
    BY <1>1, <1>2, <2>3, EmptySeq
  <2> QED
    <3>1. /\ Last + 1 \in 1..Len(buffers)
          /\ \A k \in 1..Last : k \in 1..Len(buffers) /\ k # Last + 1
      BY <1>0, <2>2
    <3> QED
      BY <2>1, <2>3, <2>4, <2>5, <3>1
<1>10. IInv'
  <2>1. TypeOK'
    <3>1. /\ sent' \in Streams /\ out' \in Seq(Int) /\ buffers' \in Seq(Seq(Int))
          /\ reading' \in BOOLEAN /\ cur' \in {0, BufferSize}
      BY <1>5, <1>6, <1>9 DEF IInv, TypeOK
    <3>2. /\ received' \in 0..Len(sent') /\ written' \in 0..BufferSize
          /\ rbuf' \in Nat /\ ridx' \in 0..BufferSize
      BY <1>1, <1>2, <1>3, <1>5
    <3> QED
      BY <3>1, <3>2 DEF TypeOK
  <2>2. Holds'
    <3>1. cur' = BufferSize /\ received' = Last' * BufferSize + written'
      <4>1. Last * BufferSize \in Nat /\ received = Last * BufferSize + written
        BY <1>4
      <4> QED
        BY <1>0, <1>2, <1>3, <1>5, <1>9, <4>1
    <3>2. ASSUME NEW k \in 1..Len(buffers)
          PROVE  buffers'[k] = SubSeq(sent, (k - 1) * BufferSize + 1,
                                IF k <= Last THEN k * BufferSize ELSE received + sz)
      <4>1. CASE k = Last + 1
        <5>1. k - 1 = Last /\ ~(k <= Last)
          BY <1>1, <4>1
        <5> QED
          BY <1>9, <4>1, <5>1
      <4>2. CASE k \in 1..Last
        <5>1. k \in DOMAIN buffers /\ k <= Last
          BY <1>0, <1>1, <4>2
        <5>2. buffers[k] = SubSeq(sent, (k - 1) * BufferSize + 1,
                                  IF k <= Last THEN k * BufferSize ELSE received)
          BY <1>2, <5>1, Zenon DEF IInv, Holds
        <5>3. buffers'[k] = buffers[k]
          BY <1>9, <4>2
        <5> QED
          BY <5>1, <5>2, <5>3
      <4> QED
        BY <1>0, <4>1, <4>2
    <3> QED
      BY <1>5, <1>9, <3>1, <3>2 DEF Holds
  <2>3. PositionInside'
    <3>1. Last' = Last /\ buffers' # <<>> /\ reading' = FALSE
      BY <1>5, <1>9
    <3> QED
      BY <1>0, <1>2, <1>3, <1>5, <3>1 DEF PositionInside
  <2> QED
    BY <2>1, <2>2, <2>3 DEF IInv
<1>11. Position = received /\ Position' = received + sz
  <2>1. Last * BufferSize \in Nat /\ Last * BufferSize + written = received
    BY <1>4
  <2>2. Position = Last * BufferSize + written
    BY <1>2 DEF Position
  <2>3. Position' = Last * BufferSize + (written + sz)
    BY <1>2, <1>5 DEF Position
  <2> QED
    BY <1>0, <1>3, <2>1, <2>2, <2>3
<1>12. Abstract!Fresh
  <2>1. received + sz \in Position..Len(sent)
    BY <1>1, <1>3, <1>11
  <2>2. out' = Abstract!Slice(Position, received + sz)
    BY <1>5, <1>11 DEF Abstract!Slice
  <2> QED
    BY <1>5, <1>11, <2>1, <2>2 DEF Abstract!Fresh
<1> QED
  BY <1>10, <1>11, <1>12

\* What read_some() answers with is what comes next in the stream.
LEMMA AnswerIsNext ==
  ASSUME IInv,
         \/ ReadFromEarlier \/ ReadFromLast
         \/ \E sz \in Answerable \ {0} : ReadDone(sz)
  PROVE  /\ IInv' /\ Position' \in Position + 1 .. Len(sent)
         /\ out' = SubSeq(sent, Position + 1, Position') /\ sent' = sent
<1>1. Position \in Nat /\ received \in 0 .. Len(sent) /\ Len(sent) \in Nat
  BY PositionBelow, ReaderFacts DEF IInv
<1>2. CASE ReadFromEarlier \/ ReadFromLast
  <2>1. IInv' /\ Abstract!Again
    BY <1>2, ReadFromEarlierStep, ReadFromLastStep
  <2> QED
    BY <1>1, <2>1 DEF Abstract!Again, Abstract!Slice
<1>3. CASE \E sz \in Answerable \ {0} : ReadDone(sz)
  <2>1. PICK sz \in Answerable \ {0} : ReadDone(sz)
    BY <1>3
  <2>2. IInv' /\ Abstract!Fresh /\ Position' = Position + sz
    BY <2>1, ReadDoneStep
  <2>3. sz \in Nat \ {0}
    BY <2>1 DEF Answerable
  <2> QED
    BY <1>1, <2>2, <2>3 DEF Abstract!Fresh, Abstract!Slice
<1> QED
  BY <1>2, <1>3

LEMMA ReadFailsStep ==
  ASSUME IInv, ReadFails
  PROVE  IInv' /\ Position' = Position /\ UNCHANGED <<sent, received, out>>
<1>1. TypeOK'
  BY DEF IInv, TypeOK, ReadFails, state
<1>2. Holds'
  BY DEF IInv, Holds, ReadFails, state, Last
<1>3. PositionInside'
  BY DEF IInv, PositionInside, ReadFails, state, Last, Room
<1> QED
  BY <1>1, <1>2, <1>3 DEF IInv, ReadFails, state, Position

\* The position goes back by n bytes, and is not left at a buffer's end.
LEMMA ReplaceBytesStep ==
  ASSUME IInv, NEW n \in 0..Position, ReplaceBytes(n)
  PROVE  IInv' /\ Position' = Position - n /\ UNCHANGED <<sent, received, out>>
<1>1. /\ rbuf \in Nat /\ ridx \in 0..BufferSize /\ received \in Nat
      /\ written \in 0..BufferSize /\ BufferSize \in Nat /\ BufferSize > 0
      /\ Len(buffers) \in Nat /\ Last = Len(buffers) - 1 /\ Position \in Nat
  BY ReaderFacts, PositionBelow DEF IInv, TypeOK, Last
<1>2. UNCHANGED <<sent, received, buffers, cur, written, reading, out>> /\ ~reading
  BY DEF ReplaceBytes
<1>3. PICK d \in 0..rbuf :
        /\ ridx + d * BufferSize >= n
        /\ d > 0 => ridx + (d - 1) * BufferSize < n
        /\ rbuf' = rbuf - d
        /\ ridx' = ridx + d * BufferSize - n
  BY DEF ReplaceBytes
<1>4. /\ d * BufferSize \in Int /\ (rbuf - d) * BufferSize = rbuf * BufferSize - d * BufferSize
      /\ (d - 1) * BufferSize = d * BufferSize - 1 * BufferSize /\ rbuf * BufferSize \in Int
  BY <1>1, <1>3, Products
<1>5. 1 * BufferSize = BufferSize /\ d \in Nat /\ n \in Nat
  BY <1>1, <1>3
<1>6. Position' = Position - n
  <2>1. rbuf' * BufferSize = rbuf * BufferSize - d * BufferSize
    BY <1>3, <1>4
  <2> QED
    BY <1>1, <1>3, <1>4, <1>5, <2>1 DEF Position
<1>7. d = 0 => rbuf' = rbuf /\ ridx' = ridx - n /\ ridx >= n
  <2>1. 0 * BufferSize = 0
    BY <1>1
  <2> QED
    BY <1>1, <1>3, <2>1
<1>8. d > 0 => ridx' \in Nat /\ ridx' < BufferSize
  BY <1>1, <1>3, <1>4, <1>5
<1>9. rbuf' \in Nat /\ rbuf' <= rbuf /\ ridx' \in 0..BufferSize
  BY <1>1, <1>3, <1>5, <1>7, <1>8
<1>10. TypeOK'
  BY <1>2, <1>9 DEF IInv, TypeOK
<1>11. Holds'
  BY <1>2 DEF IInv, Holds, Last
<1>12. PositionInside'
  <2>1. CASE buffers = <<>>
    <3>1. rbuf = 0 /\ ridx = 0 /\ received = 0
      BY <2>1 DEF IInv, PositionInside
    <3>2. rbuf' = 0 /\ ridx' = 0
      BY <1>1, <1>3, <1>5, <1>7, <3>1
    <3> QED
      BY <1>2, <2>1, <3>1, <3>2 DEF PositionInside
  <2>2. CASE buffers # <<>>
    <3>1. /\ rbuf <= Last
          /\ IF rbuf < Last THEN ridx < BufferSize ELSE ridx <= written
      BY <2>2 DEF IInv, PositionInside
    <3>2. IF rbuf' < Last THEN ridx' < BufferSize ELSE ridx' <= written
      <4>1. CASE d = 0
        BY <1>1, <1>5, <1>7, <3>1, <4>1
      <4>2. CASE d > 0
        BY <1>1, <1>3, <1>5, <1>8, <3>1, <4>2
      <4> QED
        BY <1>5, <4>1, <4>2
    <3> QED
      BY <1>1, <1>2, <1>9, <2>2, <3>1, <3>2 DEF PositionInside, Last
  <2> QED
    BY <2>1, <2>2
<1> QED
  BY <1>2, <1>6, <1>10, <1>11, <1>12 DEF IInv

-----------------------------------------------------------------------------
(* The specification.                                                      *)

LEMMA StepHolds ==
  ASSUME IInv, [Next]_vars
  PROVE  IInv' /\ [Abstract!Step]_<<sent, received, Position, out>>
<1>1. CASE ReadFromEarlier
  BY <1>1, ReadFromEarlierStep DEF Abstract!Step
<1>2. CASE ReadFromLast
  BY <1>2, ReadFromLastStep DEF Abstract!Step
<1>3. CASE AskForMore
  BY <1>3, AskForMoreStep
<1>4. ASSUME NEW sz \in Answerable, ReadDone(sz)
      PROVE  IInv' /\ [Abstract!Step]_<<sent, received, Position, out>>
  BY <1>4, ReadDoneStep DEF Abstract!Step
<1>5. CASE ReadFails
  BY <1>5, ReadFailsStep
<1>6. ASSUME NEW n \in 0..Position, ReplaceBytes(n)
      PROVE  IInv' /\ [Abstract!Step]_<<sent, received, Position, out>>
  <2>1. IInv' /\ Position' = Position - n /\ UNCHANGED <<sent, received, out>>
    BY <1>6, ReplaceBytesStep
  <2>2. Position' \in 0..Position
    BY <2>1, PositionBelow
  <2> QED
    BY <2>1, <2>2 DEF Abstract!Step, Abstract!GiveBack
<1>7. CASE UNCHANGED vars
  <2>1. TypeOK'
    BY <1>7 DEF IInv, TypeOK, vars, state
  <2>2. Holds'
    BY <1>7 DEF IInv, Holds, vars, state, Last
  <2>3. PositionInside'
    BY <1>7 DEF IInv, PositionInside, vars, state, Last, Room
  <2> QED
    BY <1>7, <2>1, <2>2, <2>3 DEF IInv, vars, state, Position
<1> QED
  BY <1>1, <1>2, <1>3, <1>4, <1>5, <1>6, <1>7 DEF Next, ReadSome, Return

\* A buffer keeps what it holds.
LEMMA BuffersGrow ==
  ASSUME IInv, [Next]_vars
  PROVE  \A k \in DOMAIN buffers :
           /\ k \in DOMAIN buffers'
           /\ \A i \in DOMAIN buffers[k] :
                i \in DOMAIN buffers'[k] /\ buffers'[k][i] = buffers[k][i]
<1> SUFFICES ASSUME NEW k \in DOMAIN buffers
             PROVE  /\ k \in DOMAIN buffers'
                    /\ \A i \in DOMAIN buffers[k] :
                         i \in DOMAIN buffers'[k] /\ buffers'[k][i] = buffers[k][i]
  OBVIOUS
<1>1. /\ Len(buffers) \in Nat /\ k \in 1..Len(buffers) /\ buffers[k] \in Seq(Int)
      /\ buffers \in Seq(Seq(Int)) /\ Last = Len(buffers) - 1 /\ <<>> \in Seq(Int)
  BY ReaderFacts, EmptySeq DEF IInv, TypeOK, Last
<1>2. SubSeq(buffers[k], 1, Len(buffers[k])) = buffers[k]
  BY <1>1, SubSeqFull
<1>3. CASE k \in DOMAIN buffers' /\ buffers'[k] = buffers[k]
  BY <1>3
<1>4. CASE AskForMore
  <2>1. buffers' = buffers \/ buffers' = Append(buffers, <<>>)
    BY <1>4 DEF AskForMore, GetFreeBuffer
  <2>2. CASE buffers' = Append(buffers, <<>>)
    <3>1. /\ buffers' \in Seq(Seq(Int)) /\ Len(buffers') = Len(buffers) + 1
          /\ buffers'[k] = buffers[k]
      BY <1>1, <2>2, AppendProperties
    <3>2. k \in DOMAIN buffers'
      BY <1>1, <3>1, LenProperties
    <3> QED
      BY <1>3, <3>1, <3>2
  <2> QED
    BY <1>3, <2>1, <2>2
<1>5. ASSUME NEW sz \in Answerable, ReadDone(sz)
      PROVE  /\ k \in DOMAIN buffers'
             /\ \A i \in DOMAIN buffers[k] :
                  i \in DOMAIN buffers'[k] /\ buffers'[k][i] = buffers[k][i]
  <2> DEFINE bytes == SubSeq(sent, received + 1, received + sz)
  <2>1. buffers' = [buffers EXCEPT ![Last + 1] =
                      SubSeq(buffers[Last + 1], 1, written) \o bytes]
    BY <1>5 DEF ReadDone
  <2>2. DOMAIN buffers' = DOMAIN buffers
    BY <2>1
  <2>3. CASE k # Last + 1
    BY <1>3, <2>1, <2>2, <2>3
  <2>4. CASE k = Last + 1
    <3>1. /\ Last \in 0..Last /\ written \in 0..BufferSize /\ BufferSize \in Nat
          /\ sent \in Seq(Int) /\ received \in Nat /\ received <= Len(sent) /\ Len(sent) \in Nat
          /\ \A i \in 1..Len(sent) : sent[i] \in Int
      BY <1>1, <2>4, ReaderFacts DEF IInv, TypeOK
    <3>2. Filled(Last) = written
      BY <3>1 DEF Filled
    <3>3. /\ Last * BufferSize \in Nat /\ Last * BufferSize + written = received
          /\ buffers[k] = SubSeq(sent, Last * BufferSize + 1, received)
      BY <2>4, <3>1, <3>2, BufferHolds
    <3>4. Len(buffers[k]) = written
      <4>1. \A i \in (Last * BufferSize + 1)..received : sent[i] \in Int
        BY <3>1, <3>3
      <4>2. Last * BufferSize + 1 \in Int /\ received \in Int
        BY <3>1, <3>3
      <4>3. Len(SubSeq(sent, Last * BufferSize + 1, received))
              = IF Last * BufferSize + 1 <= received
                THEN received - (Last * BufferSize + 1) + 1 ELSE 0
        BY <4>1, <4>2, SubSeqProperties
      <4> QED
        BY <3>1, <3>3, <4>3
    <3>5. sz \in Nat /\ received + sz <= Len(sent)
      <4>1. Room \in Int
        BY <3>1 DEF IInv, TypeOK, Room
      <4> QED
        BY <3>1, <4>1 DEF Answerable
    <3>6. bytes \in Seq(Int)
      BY <3>1, <3>5, SubSeqProperties
    <3>7. buffers'[k] = buffers[k] \o bytes
      BY <1>1, <1>2, <2>1, <2>4, <3>4
    <3> HIDE DEF bytes
    <3>8. \A i \in 1..Len(buffers[k]) :
            i \in 1..Len(buffers[k] \o bytes) /\ (buffers[k] \o bytes)[i] = buffers[k][i]
      BY <1>1, <3>6, ConcatProperties, LenProperties
    <3>9. /\ DOMAIN buffers[k] = 1..Len(buffers[k])
          /\ DOMAIN (buffers[k] \o bytes) = 1..Len(buffers[k] \o bytes)
      BY <1>1, <3>6, ConcatProperties, LenProperties
    <3> QED
      BY <2>2, <3>7, <3>8, <3>9
  <2> QED
    BY <2>3, <2>4
<1>6. CASE UNCHANGED buffers
  BY <1>3, <1>6
<1> QED
  BY <1>4, <1>5, <1>6
     DEF Next, ReadSome, Return, ReadFromEarlier, ReadFromLast, ReadFails, ReplaceBytes,
         vars, state

(* The reader's state is consistent in every reachable state.              *)
THEOREM ReaderConsistent == Spec => []IInv
  BY InitHolds, StepHolds, PTL DEF Spec

(* The indexes stay in their ranges, for any size of a buffer.             *)
THEOREM ReaderTyped == Spec => []TypeOK
<1>1. IInv => TypeOK
  BY DEF IInv
<1> QED
  BY <1>1, ReaderConsistent, PTL

(* The read position stays inside what was received, and is where a        *)
(* pending read will write.                                                *)
THEOREM PositionStaysInside == Spec => []PositionInside
<1>1. IInv => PositionInside
  BY DEF IInv
<1> QED
  BY <1>1, ReaderConsistent, PTL

(* Across every buffer boundary, and however often bytes are given back,   *)
(* read_some() hands out the stream: nothing is skipped, repeated or read  *)
(* before it arrived.                                                      *)
THEOREM ReaderReadsTheStream == Spec => ReadsTheStream
<1>1. Abstract!Spec <=> Abstract!Start /\ [][Abstract!Step]_<<sent, received, Position, out>>
  BY DEF Abstract!Spec
<1> QED
  BY <1>1, InitHolds, StepHolds, PTL DEF Spec, ReadsTheStream

(* The bytes of a view that was handed out are never written over.         *)
THEOREM ReaderViewsStay == Spec => ViewsStay
<1>1. ASSUME IInv, [Next]_vars
      PROVE  [\A k \in DOMAIN buffers :
                /\ k \in DOMAIN buffers'
                /\ \A i \in DOMAIN buffers[k] :
                     i \in DOMAIN buffers'[k] /\ buffers'[k][i] = buffers[k][i]]_vars
  BY <1>1, BuffersGrow
<1> QED
  BY <1>1, ReaderConsistent, PTL DEF Spec, ViewsStay
=============================================================================
