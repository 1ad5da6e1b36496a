-------------------------- MODULE HttpClient_proofs --------------------------
(***************************************************************************)
(* Proofs about HttpClient, for any requests and responses, any way they   *)
(* are cut up, any size of the buffers and any failure.                    *)
(***************************************************************************)
EXTENDS HttpResponse, Text_proofs

Early == {"start", "resolving", "connecting", "shaking"}
Writing == {"opening", "closing"}
Later == HeadStages \cup CountStages \cup Final

\* What the peer is to get.
Request == IF target = {} THEN <<>>
           ELSE FlattenSeq(Opening(exchange) \o Closing(exchange))

Fits == exchange \in Exchanges /\ target = Targets(exchange.url)

\* No request is made of a URL that cannot be read.
Known == stage \notin {"start", "failed"} => target # {}

TypeOK ==
  /\ stage \in Early \cup Writing \cup Later
  /\ unsent \in Seq(Seq(Int)) /\ wire \in Seq(Int)

\* What is still to be written, together with what has been.
Progress ==
  /\ stage \in Early => wire = <<>>
  /\ stage = "opening" => wire \o FlattenSeq(unsent) = FlattenSeq(Opening(exchange))
  /\ stage = "closing" => wire \o FlattenSeq(unsent) = Request
  /\ stage \in Later \ {"failed"} => wire = Request
  /\ stage = "failed" => IsPrefix(wire, Request)
  /\ stage \notin Writing => unsent = <<>>

\* The parser and its reader have not been used, or all has been written.
Quiet ==
  /\ stage \in Early \cup Writing =>
       found = Nothing /\ rbuf = 0 /\ ridx = 0 /\ ~reading /\ received = 0
  /\ stage = "failed" /\ (reading \/ received > 0) => wire = Request

\* The inductive invariant.
HInv == TypeOK /\ Fits /\ Known /\ Progress /\ Quiet

-----------------------------------------------------------------------------
(* The texts of a request.                                                 *)

LEMMA WordsAreTexts ==
  /\ Colon \in Seq(Int) /\ Slash \in Seq(Int) /\ Space \in Seq(Int)
  /\ CRLF \in Seq(Int) /\ HostWord \in Seq(Int) /\ LengthWord \in Seq(Int)
  /\ Colon \o Slash \o Slash \in Seq(Int)
  /\ Colon \o Space \in Seq(Int) /\ CRLF \o CRLF \in Seq(Int)
BY DEF Colon, Slash, Space, CRLF, HostWord, LengthWord

LEMMA TargetTexts ==
  ASSUME NEW url \in Seq(Int), NEW t \in Targets(url)
  PROVE  t.host \in Seq(Int) /\ t.path \in Seq(Int)
<1> DEFINE mark == Colon \o Slash \o Slash
           end == FindIndex(url, mark)
           proto == SubSeq(url, 1, end)
           hpa == SubSeq(url, end + 4, Len(url))
           slash == FindIndex(hpa, Slash)
           path == IF slash = -1 THEN Slash ELSE SubSeq(hpa, slash + 1, Len(hpa))
           hp == IF slash = -1 THEN hpa ELSE SubSeq(hpa, 1, slash)
           colon == FindIndex(hp, Colon)
           host == IF colon = -1 THEN hp ELSE SubSeq(hp, 1, colon)
           ports == IF colon # -1 THEN ParseIntIn(SubSeq(hp, colon + 2, Len(hp)), 10)
                    ELSE IF EqualsLiteral(proto, HTTP) THEN {80} ELSE {443}
<1>1. end \in -1 .. Len(url) /\ Len(url) \in Nat
  <2>1. mark \in Seq(Int)
    BY WordsAreTexts
  <2> HIDE DEF mark
  <2> QED
    BY <2>1, FindIndexIn
<1>2. t \in {[host |-> host, port |-> p % PortWord, path |-> path,
              ssl |-> ~EqualsLiteral(proto, HTTP)] : p \in ports}
  BY DEF Targets
<1>3. t.host = host /\ t.path = path
  <2> HIDE DEF host, path, ports, proto
  <2> QED
    BY <1>2
<1> HIDE DEF end
<1>4. hpa \in Seq(Int)
  <2>1. end + 4 \in Int /\ end + 4 >= 1
    BY <1>1
  <2> QED
    BY <1>1, <2>1, PartIsSeq
<1> HIDE DEF hpa, proto, ports
<1>5. slash \in -1 .. Len(hpa) /\ Len(hpa) \in Nat
  BY <1>4, WordsAreTexts, FindIndexIn
<1> HIDE DEF slash
<1>6. path \in Seq(Int) /\ hp \in Seq(Int)
  <2>1. CASE slash = -1
    BY <1>4, <2>1, WordsAreTexts
  <2>2. CASE slash # -1
    <3>1. slash \in Int /\ slash + 1 \in Int /\ slash + 1 >= 1 /\ slash <= Len(hpa)
      BY <1>5, <2>2
    <3>2. SubSeq(hpa, slash + 1, Len(hpa)) \in Seq(Int)
      BY <1>4, <1>5, <3>1, PartIsSeq
    <3>3. SubSeq(hpa, 1, slash) \in Seq(Int)
      BY <1>4, <1>5, <3>1, PartIsSeq
    <3> QED
      BY <2>2, <3>2, <3>3
  <2> QED
    BY <2>1, <2>2
<1> HIDE DEF hp, path
<1>7. colon \in -1 .. Len(hp) /\ Len(hp) \in Nat
  BY <1>6, WordsAreTexts, FindIndexIn
<1> HIDE DEF colon
<1>8. host \in Seq(Int)
  <2>1. CASE colon = -1
    BY <1>6, <2>1
  <2>2. CASE colon # -1
    <3>1. colon \in Int /\ colon <= Len(hp)
      BY <1>7
    <3>2. SubSeq(hp, 1, colon) \in Seq(Int)
      BY <1>6, <3>1, PartIsSeq
    <3> QED
      BY <2>2, <3>2
  <2> QED
    BY <2>1, <2>2
<1> QED
  BY <1>3, <1>6, <1>8

LEMMA CatIsList ==
  ASSUME NEW pieces \in Seq(Seq(Int))
  PROVE  Cat(pieces) \in Seq(Seq(Int))
<1>1. <<>> \in Seq(Seq(Int))
  BY EmptySeq
<1> QED
  BY <1>1, AddCatIs DEF Cat

LEMMA RequestTexts ==
  ASSUME Fits, target # {}
  PROVE  Opening(exchange) \in Seq(Seq(Int)) /\ Closing(exchange) \in Seq(Seq(Int))
<1> DEFINE q == exchange
<1>1. /\ q.url \in Seq(Int) /\ q.method \in Seq(Int) /\ q.content \in Seq(Int)
      /\ q.headers \in Seq(Seq(Int) \X Seq(Int))
  BY ClientAssumption DEF Fits
<1>2. Target.host \in Seq(Int) /\ Target.path \in Seq(Int)
  <2>1. Target \in target
    BY DEF Target, The
  <2>2. Target \in Targets(q.url)
    BY <2>1 DEF Fits
  <2> HIDE DEF q
  <2> QED
    BY <1>1, <2>2, TargetTexts
<1>3. Opening(q) \in Seq(Seq(Int))
  <2> HIDE DEF q
  <2>1. <<q.method, Space, Target.path, HostWord, Target.host, LengthWord>> \in Seq(Seq(Int))
    <3> DEFINE E == Seq(Int)
    <3>1. /\ q.method \in E /\ Space \in E /\ Target.path \in E /\ HostWord \in E
          /\ Target.host \in E /\ LengthWord \in E
      BY <1>1, <1>2, WordsAreTexts
    <3> HIDE DEF E
    <3>2. <<q.method, Space, Target.path, HostWord, Target.host, LengthWord>> \in Seq(E)
      BY <3>1
    <3> QED
      BY <3>2 DEF E
  <2> QED
    BY <2>1, CatIsList DEF Opening
<1>4. Closing(q) \in Seq(Seq(Int))
  <2> HIDE DEF q
  <2> DEFINE E == Seq(Int)
             line(i) == <<CRLF, q.headers[i][1], Colon \o Space, q.headers[i][2]>>
             lines == [i \in DOMAIN q.headers |-> line(i)]
  <2>1. <<Decimal(Len(q.content))>> \in Seq(E)
    <3>1. Len(q.content) \in Nat
      BY <1>1
    <3>2. Decimal(Len(q.content)) \in E
      BY <3>1, DecimalIs
    <3> HIDE DEF E
    <3> QED
      BY <3>2
  <2>2. lines \in Seq(Seq(E))
    <3>1. DOMAIN q.headers = 1 .. Len(q.headers) /\ Len(q.headers) \in Nat
      BY <1>1
    <3>2. ASSUME NEW i \in DOMAIN q.headers PROVE line(i) \in Seq(E)
      <4>1. q.headers[i] \in Seq(Int) \X Seq(Int)
        BY <1>1, <3>1
      <4>2. /\ CRLF \in E /\ q.headers[i][1] \in E /\ Colon \o Space \in E
            /\ q.headers[i][2] \in E
        BY <4>1, WordsAreTexts
      <4> HIDE DEF E
      <4> QED
        BY <4>2
    <3> DEFINE F == Seq(E)
    <3>3. \A i \in 1 .. Len(q.headers) : line(i) \in F
      BY <3>1, <3>2
    <3> HIDE DEF F, line
    <3>4. lines \in Seq(F)
      BY <3>1, <3>3, IsASeq
    <3> QED
      BY <3>4 DEF F
  <2>3. FlattenSeq(lines) \in Seq(E)
    <3> HIDE DEF lines, E
    <3> QED
      BY <2>2, FlattenIsSeq
  <2>4. <<CRLF \o CRLF, q.content>> \in Seq(E)
    <3>1. CRLF \o CRLF \in E /\ q.content \in E
      BY <1>1, WordsAreTexts
    <3> HIDE DEF E
    <3> QED
      BY <3>1
  <2> DEFINE first == <<Decimal(Len(q.content))>>
             final == <<CRLF \o CRLF, q.content>>
             middle == FlattenSeq(lines)
  <2>5. Closing(q) = Cat(first \o middle \o final)
    BY DEF Closing
  <2>6. first \o middle \o final \in Seq(E)
    <3> HIDE DEF first, middle, final, E
    <3>1. first \in Seq(E) /\ middle \in Seq(E) /\ final \in Seq(E)
      BY <2>1, <2>3, <2>4 DEF first, middle, final
    <3> QED
      BY <3>1, ConcatProperties
  <2> HIDE DEF first, middle, final
  <2> QED
    BY <2>5, <2>6, CatIsList
<1> QED
  BY <1>3, <1>4

\* Nothing that the request depends on ever changes.
LEMMA RequestStays ==
  ASSUME UNCHANGED <<exchange, target>>
  PROVE  /\ Request' = Request
         /\ Opening(exchange)' = Opening(exchange)
         /\ Closing(exchange)' = Closing(exchange)
BY DEF Request, Opening, Closing, Target

\* The beginning of a text.
LEMMA BeginsWith ==
  ASSUME NEW s \in Seq(Int), NEW t \in Seq(Int)
  PROVE  IsPrefix(s, s \o t)
<1>1. /\ s \o t \in Seq(Int) /\ Len(s \o t) = Len(s) + Len(t)
      /\ Len(s) \in Nat /\ Len(t) \in Nat
      /\ \A i \in 1 .. Len(s) : (s \o t)[i] = s[i]
  BY ConcatProperties
<1>2. SubSeq(s, 1, Len(s)) = s /\ SubSeq(s \o t, 1, Len(s)) = s
  <2>1. SubSeq(s, 1, Len(s)) = s
    BY SubSeqFull
  <2> DEFINE u == s \o t
             v == SubSeq(u, 1, Len(s))
  <2>2. /\ v \in Seq(Int) /\ Len(v) = Len(s)
        /\ \A i \in 1 .. Len(s) : v[i] = u[i]
    <3>1. \A i \in 1 .. Len(s) : u[i] \in Int
      BY <1>1
    <3> HIDE DEF u
    <3>2. /\ v \in Seq(Int)
          /\ Len(v) = IF 1 <= Len(s) THEN Len(s) - 1 + 1 ELSE 0
          /\ \A i \in 1 .. Len(s) - 1 + 1 : v[i] = u[1 + i - 1]
      BY <1>1, <3>1, SubSeqProperties
    <3> HIDE DEF v
    <3> QED
      BY <1>1, <3>2
  <2> HIDE DEF v
  <2>3. v = s
    BY <1>1, <2>2, SeqEqual
  <2> QED
    BY <2>1, <2>3 DEF v
<1> QED
  BY <1>1, <1>2 DEF IsPrefix

-----------------------------------------------------------------------------
(* What the peer has got is the beginning of the request.                  *)

LEMMA RequestIs ==
  ASSUME TypeOK, Fits
  PROVE  /\ Request \in Seq(Int)
         /\ target # {} =>
              /\ FlattenSeq(Opening(exchange)) \in Seq(Int)
              /\ FlattenSeq(Closing(exchange)) \in Seq(Int)
              /\ Request = FlattenSeq(Opening(exchange)) \o FlattenSeq(Closing(exchange))
<1>1. CASE target = {}
  BY <1>1, EmptySeq DEF Request
<1>2. CASE target # {}
  <2> DEFINE o == Opening(exchange)
             c == Closing(exchange)
  <2>1. o \in Seq(Seq(Int)) /\ c \in Seq(Seq(Int))
    BY <1>2, RequestTexts
  <2>2. Request = FlattenSeq(o \o c)
    BY <1>2 DEF Request
  <2> HIDE DEF o, c
  <2>3. /\ FlattenSeq(o) \in Seq(Int) /\ FlattenSeq(c) \in Seq(Int)
        /\ FlattenSeq(o \o c) = FlattenSeq(o) \o FlattenSeq(c)
    BY <2>1, FlattenIsSeq, FlattenConcat
  <2>4. FlattenSeq(o) \o FlattenSeq(c) \in Seq(Int)
    BY <2>3, ConcatProperties
  <2> QED
    BY <2>2, <2>3, <2>4 DEF o, c
<1> QED
  BY <1>1, <1>2

LEMMA WireIsPrefix == HInv => IsPrefix(wire, Request)
<1> SUFFICES ASSUME HInv PROVE IsPrefix(wire, Request)
  OBVIOUS
<1> DEFINE rest == FlattenSeq(unsent)
           o == FlattenSeq(Opening(exchange))
           c == FlattenSeq(Closing(exchange))
           r == Request
<1>1. /\ r \in Seq(Int) /\ wire \in Seq(Int) /\ rest \in Seq(Int)
      /\ target # {} => o \in Seq(Int) /\ c \in Seq(Int) /\ r = o \o c
  <2>1. TypeOK /\ Fits
    BY DEF HInv
  <2>2. FlattenSeq(unsent) \in Seq(Int)
    BY <2>1, FlattenIsSeq DEF TypeOK
  <2> QED
    BY <2>1, <2>2, RequestIs DEF TypeOK
<1>2. /\ stage = "opening" => target # {} /\ wire \o rest = o
      /\ stage = "closing" => wire \o rest = r
      /\ stage \in Early => wire = <<>>
      /\ stage = "failed" => IsPrefix(wire, r)
      /\ stage \in Later \ {"failed"} => wire = r
      /\ stage \in Early \cup Writing \cup Later
  BY DEF HInv, Progress, Known, TypeOK, Later
<1> HIDE DEF rest, o, c, r
<1>3. \A x \in Seq(Int) : <<>> \o x = x /\ x \o <<>> = x
  BY ConcatEmptySeq
<1>4. <<>> \in Seq(Int)
  BY EmptySeq
<1>5. CASE stage \in Early
  <2>1. IsPrefix(<<>>, <<>> \o r)
    BY <1>1, <1>4, BeginsWith
  <2> QED
    BY <1>1, <1>2, <1>3, <1>5, <2>1 DEF r
<1>6. CASE stage = "opening"
  <2>1. rest \o c \in Seq(Int)
    BY <1>1, <1>2, <1>6, ConcatProperties
  <2>2. IsPrefix(wire, wire \o (rest \o c))
    BY <1>1, <2>1, BeginsWith
  <2>3. r = (wire \o rest) \o c /\ c \in Seq(Int)
    BY <1>1, <1>2, <1>6
  <2>4. r = wire \o (rest \o c)
    BY <1>1, <2>3, ConcatAssociative, SMTT(30)
  <2> QED
    BY <2>2, <2>4 DEF r
<1>7. CASE stage = "closing"
  <2>1. IsPrefix(wire, wire \o rest)
    BY <1>1, BeginsWith
  <2> QED
    BY <1>2, <1>7, <2>1 DEF r
<1>8. CASE stage \in Later \ {"failed"}
  <2>1. IsPrefix(r, r \o <<>>)
    BY <1>1, <1>4, BeginsWith
  <2> QED
    BY <1>1, <1>2, <1>3, <1>8, <2>1 DEF r
<1>9. CASE stage = "failed"
  BY <1>2, <1>9 DEF r
<1> QED
  BY <1>2, <1>5, <1>6, <1>7, <1>8, <1>9 DEF Writing

LEMMA InvSuffices == HInv => RequestWhole
<1> SUFFICES ASSUME HInv PROVE RequestWhole
  OBVIOUS
<1>1. IsPrefix(wire, Request)
  BY WireIsPrefix
<1>2. (reading \/ received > 0) => wire = Request
  BY DEF HInv, TypeOK, Progress, Quiet, Later
<1> QED
  BY <1>1, <1>2 DEF RequestWhole, Request

-----------------------------------------------------------------------------
(* The steps.                                                              *)

LEMMA InitHInv == Init => HInv
<1> SUFFICES ASSUME Init PROVE HInv
  OBVIOUS
<1>1. /\ exchange \in Exchanges /\ target = Targets(exchange.url)
      /\ stage = "start" /\ unsent = <<>> /\ wire = <<>> /\ found = Nothing
      /\ rbuf = 0 /\ ridx = 0 /\ reading = FALSE /\ received = 0
  BY DEF Init, R!Empty
<1>2. <<>> \in Seq(Int) /\ <<>> \in Seq(Seq(Int))
  BY EmptySeq
<1> QED
  BY <1>1, <1>2 DEF HInv, TypeOK, Fits, Known, Progress, Quiet, Early, Writing, Later,
     HeadStages, CountStages, Final

\* A step after the request has been written, or after it has failed.
LEMMA LaterStep ==
  ASSUME HInv, stage \in Later, stage' \in Later,
         stage' # "failed" => stage # "failed",
         UNCHANGED <<exchange, target, unsent, wire>>,
         stage = "failed" => UNCHANGED <<reading, received>>
  PROVE  HInv'
<1>1. Request' = Request
  BY RequestStays
<1>2. TypeOK' /\ Fits'
  BY DEF HInv, TypeOK, Fits
<1>3. Known'
  BY DEF HInv, Known, Later, HeadStages, CountStages, Final
<1>4. stage \notin Early \cup Writing /\ stage' \notin Early \cup Writing
  BY DEF Early, Writing, Later, HeadStages, CountStages, Final
<1>5. IsPrefix(wire, Request)
  BY WireIsPrefix
<1>6. IsPrefix(wire', Request')
  BY <1>1, <1>5
<1>7. Progress'
  BY <1>1, <1>4, <1>6 DEF HInv, Progress, Writing
<1>8. Quiet'
  BY <1>1, <1>4 DEF HInv, Progress, Quiet
<1> QED
  BY <1>2, <1>3, <1>7, <1>8 DEF HInv

\* Before that, nothing is read.
LEMMA EarlyStep ==
  ASSUME HInv, stage \in Early \cup Writing, stage' \in Early \cup Writing \cup Later,
         UNCHANGED <<exchange, target, reader, found>>,
         unsent' \in Seq(Seq(Int)), wire' \in Seq(Int), Known', Progress'
  PROVE  HInv'
<1>1. TypeOK' /\ Fits'
  BY DEF HInv, TypeOK, Fits
<1>2. Quiet'
  BY DEF HInv, Quiet, reader
<1> QED
  BY <1>1, <1>2 DEF HInv

LEMMA Stages ==
  /\ Early \cap Later = {} /\ Writing \cap Later = {} /\ Early \cap Writing = {}
  /\ "failed" \in Later /\ "protocol" \in Later
  /\ "opening" \in Writing /\ "closing" \in Writing
  /\ "start" \in Early /\ "resolving" \in Early /\ "connecting" \in Early /\ "shaking" \in Early
  /\ HeadStages \cup CountStages \subseteq Later /\ Final \subseteq Later
  /\ "failed" \notin HeadStages \cup CountStages
BY DEF Early, Writing, Later, HeadStages, CountStages, Final

LEMMA ConnectingSteps ==
  ASSUME HInv, ReadUrl \/ Resolved \/ Connected \/ ShookHands
  PROVE  HInv'
<1>1. /\ UNCHANGED <<exchange, target, reader, wire, found>> /\ stage \in Early
      /\ \/ stage' \in Early /\ UNCHANGED unsent
         \/ stage' = "failed" /\ UNCHANGED unsent
         \/ stage' = "opening" /\ unsent' = Opening(exchange)
      /\ stage' # "failed" => target # {}
  BY DEF HInv, Known, ReadUrl, Resolved, Connected, ShookHands, Go, StartWriting, parser, Early
<1>2. /\ Request' = Request /\ Opening(exchange)' = Opening(exchange)
      /\ Closing(exchange)' = Closing(exchange)
  BY <1>1, RequestStays
<1>3. wire = <<>> /\ unsent = <<>> /\ wire' = <<>>
  BY <1>1, Stages DEF HInv, Progress
<1>4. TypeOK /\ Fits
  BY DEF HInv
<1>5. unsent' \in Seq(Seq(Int)) /\ wire' \in Seq(Int)
  BY <1>1, <1>4, RequestTexts DEF TypeOK
<1>6. stage' = "opening" => wire' \o FlattenSeq(unsent') = FlattenSeq(Opening(exchange)')
  <2> SUFFICES ASSUME stage' = "opening"
               PROVE  wire' \o FlattenSeq(unsent') = FlattenSeq(Opening(exchange)')
    OBVIOUS
  <2>1. unsent' = Opening(exchange) /\ target # {}
    BY <1>1, Stages
  <2>2. FlattenSeq(Opening(exchange)) \in Seq(Int)
    BY <1>4, <2>1, RequestIs
  <2>3. <<>> \o FlattenSeq(Opening(exchange)) = FlattenSeq(Opening(exchange))
    BY <2>2, ConcatEmptySeq
  <2> QED
    BY <1>2, <1>3, <2>1, <2>3
<1>7. IsPrefix(wire', Request')
  BY <1>1, <1>2, WireIsPrefix
<1>8. Known' /\ stage' \in Early \cup Writing \cup Later
  BY <1>1, Stages DEF Known
<1>9. Progress'
  BY <1>1, <1>3, <1>6, <1>7, Stages DEF Progress
<1> QED
  BY <1>1, <1>5, <1>8, <1>9, EarlyStep

LEMMA ConcatThree ==
  ASSUME NEW D, NEW a \in Seq(D), NEW b \in Seq(D), NEW c \in Seq(D)
  PROVE  (a \o b) \o c = a \o (b \o c)
BY ConcatAssociative

Regrouped(w, a, b, c) ==
  (w \o a) \o c = w \o (a \o c) /\ (w \o a) \o (b \o c) = w \o ((a \o b) \o c)

LEMMA Regroup ==
  ASSUME NEW D, NEW w \in Seq(D), NEW a \in Seq(D), NEW b \in Seq(D), NEW c \in Seq(D)
  PROVE  Regrouped(w, a, b, c)
<1>1. b \o c \in Seq(D)
  BY ConcatProperties
<1>2. (w \o a) \o c = w \o (a \o c)
  BY ConcatThree
<1>3. (a \o b) \o c = a \o (b \o c)
  BY ConcatThree
<1>4. PICK d \in Seq(D) : d = b \o c
  BY <1>1
<1>5. (w \o a) \o d = w \o (a \o d)
  BY ConcatThree, SMTT(30)
<1> QED
  BY <1>2, <1>3, <1>4, <1>5 DEF Regrouped

\* A text or a list with another first member.
Replaced(u, e) == [u EXCEPT ![1] = e]

LEMMA FirstReplaced ==
  ASSUME NEW D, NEW u \in Seq(D), u # <<>>, NEW e \in D
  PROVE  /\ Replaced(u, e) \in Seq(D) /\ Replaced(u, e) # <<>>
         /\ Replaced(u, e)[1] = e /\ Tail(Replaced(u, e)) = Tail(u)
<1> DEFINE v == Replaced(u, e)
<1>1. Len(u) \in Nat /\ Len(u) >= 1 /\ 1 \in 1 .. Len(u)
  BY EmptySeq
<1>2. /\ v \in Seq(D) /\ Len(v) = Len(u)
      /\ \A j \in 1 .. Len(u) : v[j] = IF j = 1 THEN e ELSE u[j]
  BY <1>1, ExceptSeq DEF Replaced
<1> HIDE DEF v
<1>3. v # <<>>
  BY <1>1, <1>2, EmptySeq
<1>4. /\ Tail(v) \in Seq(D) /\ Tail(u) \in Seq(D)
      /\ Len(Tail(v)) = Len(u) - 1 /\ Len(Tail(u)) = Len(u) - 1
      /\ \A i \in 1 .. Len(u) - 1 : Tail(v)[i] = v[i + 1] /\ Tail(u)[i] = u[i + 1]
  BY <1>2, <1>3, HeadTailProperties
<1>5. \A i \in 1 .. Len(u) - 1 : Tail(v)[i] = Tail(u)[i]
  <2> TAKE i \in 1 .. Len(u) - 1
  <2>1. i + 1 \in 1 .. Len(u) /\ i + 1 # 1
    BY <1>1
  <2> QED
    BY <1>2, <1>4, <2>1
<1> DEFINE x == Tail(v)
           y == Tail(u)
<1>6. x \in Seq(D) /\ y \in Seq(D) /\ Len(x) = Len(y) /\ \A i \in 1 .. Len(x) : x[i] = y[i]
  BY <1>4, <1>5
<1> HIDE DEF x, y
<1>7. x = y
  BY <1>6, SeqEqual
<1>8. v[1] = e
  BY <1>1, <1>2
<1> QED
  BY <1>2, <1>3, <1>7, <1>8 DEF v, x, y

\* A write takes bytes from the front of what is left.
LEMMA NothingLostInAWrite ==
  ASSUME NEW u \in Seq(Seq(Int)), u # <<>>, NEW w \in Seq(Int), NEW k \in 1 .. Len(u[1]),
         NEW v, v = IF k = Len(u[1]) THEN Tail(u)
                    ELSE [u EXCEPT ![1] = SubSeq(@, k + 1, Len(@))]
  PROVE  /\ v \in Seq(Seq(Int)) /\ w \o SubSeq(u[1], 1, k) \in Seq(Int)
         /\ (w \o SubSeq(u[1], 1, k)) \o FlattenSeq(v) = w \o FlattenSeq(u)
<1> DEFINE first == u[1]
           part == SubSeq(first, 1, k)
           left == SubSeq(first, k + 1, Len(first))
           more == FlattenSeq(Tail(u))
           E == Seq(Int)
<1>1. /\ first \in E /\ Tail(u) \in Seq(E) /\ more \in E
      /\ FlattenSeq(u) = first \o more /\ FlattenSeq(u) \in E
  <2>1. first \in E /\ Tail(u) \in Seq(E) /\ FlattenSeq(u) = first \o more
    BY FlattenFirst
  <2> QED
    BY <2>1, FlattenIsSeq
<1>2. k \in Nat /\ k >= 1 /\ k <= Len(first) /\ Len(first) \in Nat
  BY <1>1
<1>3. part \in E /\ left \in E
  <2> HIDE DEF first
  <2>1. /\ first \in Seq(Int) /\ 1 \in Int /\ 1 >= 1 /\ k \in Int /\ k <= Len(first)
        /\ k + 1 \in Int /\ k + 1 >= 1 /\ Len(first) \in Int /\ Len(first) <= Len(first)
    BY <1>1, <1>2
  <2>2. part \in E
    BY <2>1, PartIsSeq
  <2>3. left \in E
    BY <2>1, PartIsSeq
  <2> QED
    BY <2>2, <2>3
<1>4. part \o left = first
  <2> HIDE DEF first
  <2>1. /\ 1 \in 1 .. Len(first) + 1 /\ k \in 1 - 1 .. Len(first)
        /\ Len(first) \in k .. Len(first)
    BY <1>2
  <2>2. part \o left = SubSeq(first, 1, Len(first))
    BY <1>1, <2>1, ConcatAdjacentSubSeq
  <2> QED
    BY <1>1, <2>2, SubSeqFull
<1>5. w \o part \in E
  <2> HIDE DEF part
  <2> QED
    BY <1>3, ConcatProperties
<1>6. CASE k = Len(first)
  <2>1. v = Tail(u)
    BY <1>6
  <2>2. part = first
    <3> HIDE DEF first
    <3> QED
      BY <1>1, <1>6, SubSeqFull
  <2>3. (w \o first) \o more = w \o (first \o more)
    <3>1. first \in Seq(Int) /\ more \in Seq(Int)
      BY <1>1
    <3> HIDE DEF first, more
    <3>2. Regrouped(w, first, first, more)
      BY <3>1, Regroup
    <3> QED
      BY <3>2 DEF Regrouped
  <2> QED
    BY <1>1, <1>5, <2>1, <2>2, <2>3
<1>7. CASE k # Len(first)
  <2>1. v = Replaced(u, left)
    BY <1>7 DEF Replaced
  <2>2. v \in Seq(E) /\ v # <<>> /\ v[1] = left /\ Tail(v) = Tail(u)
    <3>1. u \in Seq(E) /\ left \in E
      BY <1>3
    <3> HIDE DEF left, E
    <3>2. /\ Replaced(u, left) \in Seq(E) /\ Replaced(u, left) # <<>>
          /\ Replaced(u, left)[1] = left /\ Tail(Replaced(u, left)) = Tail(u)
      BY <3>1, FirstReplaced
    <3> QED
      BY <2>1, <3>2
  <2>3. FlattenSeq(v) = left \o more
    <3>1. v \in Seq(Seq(Int)) /\ v # <<>>
      BY <2>2
    <3>2. FlattenSeq(v) = v[1] \o FlattenSeq(Tail(v))
      BY <3>1, FlattenFirst
    <3> QED
      BY <2>2, <3>2
  <2>4. (w \o part) \o (left \o more) = w \o (first \o more)
    <3> HIDE DEF first, part, left, more
    <3>1. /\ first \in Seq(Int) /\ part \in Seq(Int) /\ left \in Seq(Int)
          /\ more \in Seq(Int)
      BY <1>1, <1>3
    <3> HIDE DEF first, part, left, more
    <3>2. Regrouped(w, part, left, more)
      BY <3>1, Regroup
    <3> QED
      BY <1>4, <3>2 DEF Regrouped
  <2> QED
    BY <1>1, <1>5, <2>2, <2>3, <2>4
<1> QED
  BY <1>6, <1>7

LEMMA WriteStep == ASSUME HInv, NEW k, WriteSome(k) PROVE HInv'
<1>1. /\ unsent # <<>> /\ k \in 1 .. Len(unsent[1])
      /\ wire' = wire \o SubSeq(unsent[1], 1, k)
      /\ unsent' = IF k = Len(unsent[1]) THEN Tail(unsent)
                   ELSE [unsent EXCEPT ![1] = SubSeq(@, k + 1, Len(@))]
      /\ UNCHANGED <<exchange, target, reader, stage, found>>
  BY DEF WriteSome, parser
<1>2. unsent \in Seq(Seq(Int)) /\ wire \in Seq(Int)
  BY DEF HInv, TypeOK
<1>3. /\ unsent' \in Seq(Seq(Int)) /\ wire' \in Seq(Int)
      /\ wire' \o FlattenSeq(unsent') = wire \o FlattenSeq(unsent)
  BY <1>1, <1>2, NothingLostInAWrite
<1>4. stage \in Writing
  BY <1>1 DEF HInv, Progress
<1>5. /\ Request' = Request /\ Opening(exchange)' = Opening(exchange)
  BY <1>1, RequestStays
<1>6. Progress'
  BY <1>1, <1>3, <1>4, <1>5, Stages DEF HInv, Progress
<1>7. Known'
  BY <1>1 DEF HInv, Known
<1> QED
  BY <1>1, <1>3, <1>4, <1>6, <1>7, EarlyStep

LEMMA WrittenSteps == ASSUME HInv, OpeningWritten \/ ClosingWritten PROVE HInv'
<1>1. TypeOK /\ Fits
  BY DEF HInv
<1>2. wire \in Seq(Int) /\ FlattenSeq(<<>>) = <<>> /\ wire \o <<>> = wire
  <2>1. <<>> \in Seq(Seq(Int)) /\ <<>> \in Seq(Int)
    BY EmptySeq
  <2>2. FlattenSeq(<<>>) = <<>>
    BY <2>1, FlattenAppend
  <2> QED
    BY <1>1, <2>2, ConcatEmptySeq DEF TypeOK
<1>3. CASE OpeningWritten
  <2>1. /\ UNCHANGED <<exchange, target, reader, wire, found>> /\ unsent = <<>>
        /\ stage = "opening" /\ stage' = "closing" /\ unsent' = Closing(exchange)
    BY <1>3 DEF OpeningWritten, Go, parser
  <2>2. target # {} /\ wire = FlattenSeq(Opening(exchange))
    BY <1>2, <2>1 DEF HInv, Known, Progress
  <2>3. /\ Closing(exchange) \in Seq(Seq(Int))
        /\ Request = FlattenSeq(Opening(exchange)) \o FlattenSeq(Closing(exchange))
    BY <1>1, <2>2, RequestTexts, RequestIs
  <2>4. Request' = Request
    BY <2>1, RequestStays
  <2>5. wire' \o FlattenSeq(unsent') = Request'
    BY <2>1, <2>2, <2>3, <2>4
  <2>6. Progress' /\ Known'
    BY <2>1, <2>2, <2>5, Stages DEF Progress, Known
  <2> QED
    BY <1>2, <2>1, <2>3, <2>6, EarlyStep, Stages
<1>4. CASE ClosingWritten
  <2>1. /\ UNCHANGED <<exchange, target, reader, wire, found, unsent>> /\ unsent = <<>>
        /\ stage = "closing" /\ stage' = "protocol"
    BY <1>4 DEF ClosingWritten, Go, parser
  <2>2. target # {} /\ wire = Request
    BY <1>2, <2>1 DEF HInv, Known, Progress
  <2>3. Request' = Request
    BY <2>1, RequestStays
  <2>4. Progress' /\ Known'
    BY <2>1, <2>2, <2>3, Stages DEF Progress, Known
  <2>5. unsent' \in Seq(Seq(Int)) /\ wire' \in Seq(Int)
    BY <1>1, <2>1 DEF TypeOK
  <2> QED
    BY <2>1, <2>4, <2>5, EarlyStep, Stages
<1> QED
  BY <1>3, <1>4

LEMMA CallFailsStep == ASSUME HInv, CallFails PROVE HInv'
<1>1. /\ UNCHANGED <<exchange, target, reader, wire, found>> /\ unsent' = <<>>
      /\ stage \in Early \cup Writing /\ stage' = "failed"
  BY DEF CallFails, Go, parser, Early, Writing
<1>2. Request' = Request
  BY <1>1, RequestStays
<1>3. IsPrefix(wire', Request')
  BY <1>1, <1>2, WireIsPrefix
<1>4. Progress' /\ Known'
  BY <1>1, <1>3, Stages DEF Progress, Known
<1>5. unsent' \in Seq(Seq(Int)) /\ wire' \in Seq(Int)
  BY <1>1, EmptySeq DEF HInv, TypeOK
<1> QED
  BY <1>1, <1>4, <1>5, EarlyStep, Stages

LEMMA ReaderSteps ==
  ASSUME HInv, FromMemory \/ AskSocket \/ SocketAnswers \/ SocketFails
  PROVE  HInv'
<1>1. /\ UNCHANGED <<exchange, target, unsent, wire>>
      /\ stage \in HeadStages \cup CountStages
      /\ stage' = stage \/ stage' = "failed"
  BY DEF FromMemory, AskSocket, SocketAnswers, SocketFails, Answering, Asking
<1> QED
  BY <1>1, Stages, LaterStep

\* Nothing has been found before something is read.
LEMMA FoundLater ==
  ASSUME HInv, found.kind # "none" \/ found.back > R!Position
  PROVE  stage \in Later
<1>1. BufferSize \in Nat
  BY ClientAssumption
<1>2. Nothing.kind = "none" /\ Nothing.back = 0
  BY DEF Nothing
<1>3. ASSUME rbuf = 0, ridx = 0 PROVE R!Position = 0
  BY <1>1, <1>3 DEF R!Position
<1>4. stage \notin Early \cup Writing
  BY <1>2, <1>3 DEF HInv, Quiet
<1> QED
  BY <1>4 DEF HInv, TypeOK

LEMMA ParserSteps == ASSUME HInv, Parse PROVE HInv'
<1>1. CASE NeedsMore
  <2>1. /\ found.kind = "more" /\ UNCHANGED <<exchange, target, reader, stage, unsent, wire>>
    BY <1>1 DEF NeedsMore
  <2>2. stage \in Later
    BY <2>1, FoundLater
  <2> QED
    BY <2>1, <2>2, LaterStep DEF reader
<1>2. CASE Throws
  <2>1. /\ found.kind = "throw" \/ found.back > R!Position
        /\ UNCHANGED <<exchange, target, reader, unsent, wire>> /\ stage' = "failed"
    BY <1>2 DEF Throws
  <2>2. stage \in Later
    BY <2>1, FoundLater
  <2> QED
    BY <2>1, <2>2, Stages, LaterStep DEF reader
<1>3. ASSUME NEW s \in HeadStages \cup CountStages, Take(s), stage' \in Later PROVE HInv'
  <2>1. stage = s /\ UNCHANGED <<exchange, target, unsent, wire>>
    BY <1>3 DEF Take
  <2> QED
    BY <1>3, <2>1, Stages, LaterStep
<1>4. CASE TakeProtocol
  BY <1>3, <1>4 DEF TakeProtocol, Later, HeadStages
<1>5. CASE TakeVersion
  BY <1>3, <1>5 DEF TakeVersion, Later, HeadStages
<1>6. CASE TakeCode
  BY <1>3, <1>6 DEF TakeCode, Later, HeadStages, Final
<1>7. CASE TakeStatus
  BY <1>3, <1>7 DEF TakeStatus, Later, HeadStages
<1>8. CASE TakeHeader
  <2>1. Take("header") /\ (stage' \in {"failed", "crashed"} \/ UNCHANGED stage)
    BY <1>8 DEF TakeHeader
  <2>2. stage = "header"
    BY <2>1 DEF Take
  <2> QED
    BY <1>3, <2>1, <2>2 DEF Later, HeadStages, Final
<1>9. CASE EndHeaders
  <2>1. Take("header") /\ stage' \in {"size", "content", "failed"}
    BY <1>9 DEF EndHeaders
  <2> QED
    BY <1>3, <2>1 DEF Later, HeadStages, CountStages, Final
<1>10. CASE TakeSize
  <2>1. Take("size") /\ stage' \in {"crashed", "failed", "last end", "chunk"}
    BY <1>10 DEF TakeSize
  <2> QED
    BY <1>3, <2>1 DEF Later, HeadStages, CountStages, Final
<1>11. CASE TakeChunk
  BY <1>3, <1>11 DEF TakeChunk, Later, CountStages
<1>12. CASE TakeChunkEnd
  BY <1>3, <1>12 DEF TakeChunkEnd, Later, HeadStages, CountStages
<1>13. CASE TakeLastEnd
  BY <1>3, <1>13 DEF TakeLastEnd, Later, CountStages, Final
<1>14. CASE TakeContent
  BY <1>3, <1>14 DEF TakeContent, Later, CountStages, Final
<1> QED
  BY <1>1, <1>2, <1>4, <1>5, <1>6, <1>7, <1>8, <1>9, <1>10, <1>11, <1>12, <1>13, <1>14
  DEF Parse

LEMMA NextHInv == HInv /\ [Next]_vars => HInv'
<1> SUFFICES ASSUME HInv, [Next]_vars PROVE HInv'
  OBVIOUS
<1>1. CASE ReadUrl \/ Resolved \/ Connected \/ ShookHands
  BY <1>1, ConnectingSteps
<1>2. CASE Write
  BY <1>2, WriteStep DEF Write
<1>3. CASE OpeningWritten \/ ClosingWritten
  BY <1>3, WrittenSteps
<1>4. CASE CallFails
  BY <1>4, CallFailsStep
<1>5. CASE FromMemory \/ AskSocket \/ SocketAnswers \/ SocketFails
  BY <1>5, ReaderSteps
<1>6. CASE Parse
  BY <1>6, ParserSteps
<1>7. CASE UNCHANGED vars
  <2>1. UNCHANGED <<exchange, target, reader, stage, unsent, wire, found>>
    BY <1>7 DEF vars, parser
  <2>2. Request' = Request /\ Opening(exchange)' = Opening(exchange)
    BY <2>1, RequestStays
  <2>3. IsPrefix(wire', Request')
    BY <2>1, <2>2, WireIsPrefix
  <2> QED
    BY <2>1, <2>2, <2>3 DEF HInv, TypeOK, Fits, Known, Progress, Quiet, reader
<1> QED
  BY <1>1, <1>2, <1>3, <1>4, <1>5, <1>6, <1>7 DEF Next, Proceed

(* However little the socket takes at once and wherever a call fails, the  *)
(* peer gets the request from its first byte on, and the client asks for   *)
(* the response only when the peer has all of it.                          *)
THEOREM RequestReachesPeer == Spec => []RequestWhole
<1>1. Init => HInv
  BY InitHInv
<1>2. HInv /\ [Next]_vars => HInv'
  BY NextHInv
<1>3. HInv => RequestWhole
  BY InvSuffices
<1> QED
  BY <1>1, <1>2, <1>3, PTL DEF Spec

-----------------------------------------------------------------------------
(* What the parser makes of an answer.                                     *)

\* No delimiter is empty.
LEMMA Delimiters ==
  ASSUME NEW s \in HeadStages
  PROVE  Delimiter(s) \in Seq(Int) /\ Delimiter(s) # <<>> /\ Len(Delimiter(s)) \in Nat \ {0}
BY DEF Delimiter, HeadStages, Slash, Space, CRLF

\* truncated() of a chunk.
LEMMA ChunkTruncated ==
  ASSUME NEW chunk \in Seq(Int), NEW n \in Nat, n < Len(chunk)
  PROVE  /\ CanTruncate(<<chunk>>, n - Len(chunk))
         /\ FlattenSeq(Truncated(<<chunk>>, n - Len(chunk))) = SubSeq(chunk, 1, n)
<1> DEFINE c == <<chunk>>
           size == n - Len(chunk)
<1>1. c \in Seq(Seq(Int)) /\ c # <<>> /\ Len(chunk) \in Nat /\ size \in Int /\ size < 0
  BY LenProperties
<1>2. FlattenSeq(c) = chunk
  BY FlattenOne
<1> HIDE DEF c
<1>3. Size(c) = Len(chunk)
  BY <1>1, <1>2, SizeIs
<1>4. TruncatedSize(c, size) = n
  BY <1>1, <1>3 DEF TruncatedSize
<1>5. CanTruncate(c, size)
  BY <1>1, <1>3, <1>4 DEF CanTruncate
<1> HIDE DEF size
<1>6. FlattenSeq(Truncated(c, size)) = SubSeq(FlattenSeq(c), 1, TruncatedSize(c, size))
  BY <1>1, <1>5, TruncatedIs
<1> QED
  BY <1>2, <1>4, <1>5, <1>6 DEF c, size

\* read_up_to() of a chunk that has the delimiter.
LEMMA LineIs ==
  ASSUME NEW chunk \in Seq(Int), stage \in HeadStages, current = <<>>, ~late,
         NEW i \in Nat, i = FindIndex(chunk, Delimiter(stage)),
         i + Len(Delimiter(stage)) <= Len(chunk)
  PROVE  UpTo(chunk) = [kind |-> "done", text |-> SubSeq(chunk, 1, i),
                        back |-> Len(chunk) - (i + Len(Delimiter(stage)))]
<1> DEFINE d == Delimiter(stage)
           m == Len(d)
           all == <<current \o chunk>>
           index == FindIndex(all[1], d) + m
           extra == Len(chunk) - index
           cut == IF late THEN -extra ELSE -(extra + m)
<1>1. m \in Nat \ {0} /\ Len(chunk) \in Nat
  BY Delimiters, LenProperties
<1>2. UpTo(chunk) = IF index < m THEN [kind |-> "more", text |-> all[1], back |-> 0]
                    ELSE IF ~CanTruncate(all, cut) THEN Error
                    ELSE [kind |-> "done", text |-> FlattenSeq(Truncated(all, cut)),
                          back |-> extra]
  BY DEF UpTo
<1>3. all = <<chunk>> /\ all[1] = chunk
  BY ConcatEmptySeq
<1> HIDE DEF all, d
<1>4. index = i + m
  BY <1>3 DEF d
<1> HIDE DEF index, m
<1>5. extra = Len(chunk) - (i + m) /\ cut = i - Len(chunk) /\ ~(index < m) /\ i < Len(chunk)
  <2>1. i + m <= Len(chunk)
    BY DEF m, d
  <2>2. cut = -(extra + m)
    OBVIOUS
  <2> HIDE DEF cut
  <2>3. extra = Len(chunk) - (i + m)
    BY <1>4
  <2> HIDE DEF extra
  <2> QED
    <3>1. PICK l \in Nat, k \in Nat \ {0} : l = Len(chunk) /\ k = m
      BY <1>1
    <3>2. extra = l - (i + k) /\ index = i + k /\ i + k <= l
      BY <1>4, <2>1, <2>3, <3>1
    <3>3. extra + k = l - i
      BY <3>2
    <3>4. cut = -(l - i)
      BY <2>2, <3>1, <3>3
    <3>5. -(l - i) = i - l
      OBVIOUS
    <3>6. ~(index < k) /\ i < l
      BY <3>2
    <3> QED
      BY <3>1, <3>2, <3>4, <3>5, <3>6
<1> HIDE DEF extra, cut
<1>6. CanTruncate(all, cut) /\ FlattenSeq(Truncated(all, cut)) = SubSeq(chunk, 1, i)
  BY <1>3, <1>5, ChunkTruncated
<1> QED
  BY <1>2, <1>5, <1>6 DEF m, d

\* It needs more if there is none.
LEMMA NoLine ==
  ASSUME NEW chunk \in Seq(Int), stage \in HeadStages, current = <<>>,
         FindIndex(chunk, Delimiter(stage)) = -1
  PROVE  UpTo(chunk).kind = "more"
<1> DEFINE d == Delimiter(stage)
           all == <<current \o chunk>>
           index == FindIndex(all[1], d) + Len(d)
           extra == Len(chunk) - index
           cut == IF late THEN -extra ELSE -(extra + Len(d))
<1>1. UpTo(chunk) = IF index < Len(d) THEN [kind |-> "more", text |-> all[1], back |-> 0]
                    ELSE IF ~CanTruncate(all, cut) THEN Error
                    ELSE [kind |-> "done", text |-> FlattenSeq(Truncated(all, cut)),
                          back |-> extra]
  BY DEF UpTo
<1>2. all[1] = chunk
  BY ConcatEmptySeq
<1>3. Len(d) \in Nat
  BY Delimiters
<1> HIDE DEF all, d
<1>4. index = -1 + Len(d)
  BY <1>2 DEF d
<1>5. index < Len(d)
  BY <1>3, <1>4
<1> QED
  BY <1>1, <1>5

-----------------------------------------------------------------------------
(* Reading with everything there.                                          *)

\* Readings() goes on from piece to piece.
LEMMA ReadingsGo ==
  ASSUME NEW bytes \in Seq(Int)
  PROVE  /\ Readings(bytes)[0] = Unread
         /\ \A k \in 1 .. Len(bytes) + 1 :
              Readings(bytes)[k] = Further(bytes, Readings(bytes)[k - 1])
<1> DEFINE n == Len(bytes) + 1
           Is(f, m) == f = [k \in 0 .. m |-> IF k = 0 THEN Unread ELSE Further(bytes, f[k - 1])]
           S == {m \in Nat : \E f : Is(f, m)}
<1>1. 0 \in S
  <2> DEFINE f == [k \in 0 .. 0 |-> Unread]
  <2>1. Is(f, 0)
    <3>1. f = [k \in 0 .. 0 |-> IF k = 0 THEN Unread ELSE Further(bytes, f[k - 1])]
      OBVIOUS
    <3> QED
      BY <3>1
  <2> HIDE DEF Is, f
  <2> QED
    BY <2>1
<1>2. ASSUME NEW m \in Nat, m \in S PROVE m + 1 \in S
  <2>1. PICK f : Is(f, m)
    BY <1>2
  <2> DEFINE g == [k \in 0 .. m + 1 |-> IF k = m + 1 THEN Further(bytes, f[m]) ELSE f[k]]
             h == [k \in 0 .. m + 1 |-> IF k = 0 THEN Unread ELSE Further(bytes, g[k - 1])]
  <2>2. ASSUME NEW k \in 0 .. m + 1 PROVE g[k] = h[k]
    <3>1. h[k] = IF k = 0 THEN Unread ELSE Further(bytes, g[k - 1])
      OBVIOUS
    <3> HIDE DEF h
    <3>2. CASE k = m + 1
      <4>1. k # 0 /\ k - 1 = m /\ m \in 0 .. m + 1 /\ m # m + 1
        BY <3>2
      <4>2. g[k] = Further(bytes, f[m]) /\ g[m] = f[m]
        BY <3>2, <4>1
      <4> HIDE DEF g
      <4> QED
        BY <3>1, <4>1, <4>2
    <3>3. CASE k # m + 1
      <4>1. g[k] = f[k] /\ k \in 0 .. m
        BY <3>3
      <4>2. f[k] = IF k = 0 THEN Unread ELSE Further(bytes, f[k - 1])
        BY <2>1, <4>1
      <4>3. k # 0 => g[k - 1] = f[k - 1]
        <5> SUFFICES ASSUME k # 0 PROVE g[k - 1] = f[k - 1]
          OBVIOUS
        <5>1. k - 1 \in 0 .. m + 1 /\ k - 1 # m + 1
          BY <4>1
        <5> QED
          BY <5>1
      <4> HIDE DEF g
      <4> QED
        BY <3>1, <4>1, <4>2, <4>3
    <3> QED
      BY <3>2, <3>3
  <2>3. g = h
    BY <2>2
  <2>4. Is(g, m + 1)
    BY <2>3
  <2> HIDE DEF Is, g, h
  <2> QED
    BY <2>4
<1>3. n \in S
  <2>1. n \in Nat
    BY LenProperties
  <2> HIDE DEF S, n
  <2>2. Nat \subseteq S
    BY <1>1, <1>2, ByInduction
  <2> QED
    BY <2>1, <2>2
<1>4. Readings(bytes) = CHOOSE f : Is(f, n)
  BY DEF Readings
<1>5. Is(Readings(bytes), n)
  <2>1. \E f : Is(f, n)
    BY <1>3
  <2> HIDE DEF Is, n, S
  <2> QED
    BY <1>4, <2>1
<1>6. PICK t : t = Readings(bytes)
  OBVIOUS
<1>7. /\ n \in Nat /\ t = [k \in 0 .. n |-> IF k = 0 THEN Unread ELSE Further(bytes, t[k - 1])]
  <2>1. n \in Nat
    BY LenProperties
  <2> HIDE DEF n
  <2> QED
    BY <1>5, <1>6, <2>1
<1> HIDE DEF n, Is, S
<1>8. t[0] = Unread /\ \A k \in 1 .. n : t[k] = Further(bytes, t[k - 1])
  BY <1>7
<1> QED
  BY <1>6, <1>8 DEF n

\* Behind the end nothing is read.
LEMMA EndStays ==
  ASSUME NEW bytes \in Seq(Int), NEW k \in 0 .. Len(bytes) + 1,
         Readings(bytes)[k].stage = "done"
  PROVE  Read(bytes) = Readings(bytes)[k]
<1>1. PICK t : t = Readings(bytes)
  OBVIOUS
<1>2. PICK n \in Nat : n = Len(bytes) + 1
  BY LenProperties
<1>3. \A j \in 1 .. n : t[j] = Further(bytes, t[j - 1])
  BY <1>1, <1>2, ReadingsGo
<1>4. Further(bytes, t[k]) = t[k]
  <2>1. t[k].stage = "done"
    BY <1>1
  <2>2. t[k].stage \notin HeadStages /\ t[k].stage \notin CountStages
    BY <2>1 DEF HeadStages, CountStages
  <2>3. Piece(bytes, t[k]) = {}
    BY <2>2 DEF Piece
  <2> QED
    BY <2>3 DEF Further
<1> DEFINE S == {j \in Nat : k + j <= n => t[k + j] = t[k]}
<1>5. 0 \in S
  BY <1>2
<1>6. ASSUME NEW j \in Nat, j \in S PROVE j + 1 \in S
  <2> SUFFICES ASSUME k + (j + 1) <= n PROVE t[k + (j + 1)] = t[k]
    OBVIOUS
  <2>1. t[k + j] = t[k] /\ k + (j + 1) \in 1 .. n /\ (k + (j + 1)) - 1 = k + j
    BY <1>2, <1>6
  <2> QED
    BY <1>3, <1>4, <2>1
<1>7. Nat \subseteq S
  <2> HIDE DEF S
  <2> QED
    BY <1>5, <1>6, ByInduction
<1>8. n - k \in Nat /\ k + (n - k) = n
  BY <1>2
<1>9. t[n] = t[k]
  BY <1>7, <1>8
<1> QED
  BY <1>1, <1>2, <1>9 DEF Read

-----------------------------------------------------------------------------
(* The reader below.                                                       *)

Reader == INSTANCE BufferedReader_proofs WITH Streams <- {e.bytes : e \in Exchanges}

\* It reads the response of this exchange.
ReadsResponse == Reader!IInv /\ exchange \in Exchanges /\ sent = exchange.bytes

\* What its lemmas assume.
LEMMA ReaderAssumptions ==
  /\ BufferSize \in Nat \ {0}
  /\ \A e \in Exchanges : e.bytes \in Seq(Int)
  /\ {e.bytes : e \in Exchanges} \subseteq Seq(Int)
BY ClientAssumption, MeaningAssumption

\* The position is one in the response.
LEMMA PositionIs ==
  ASSUME ReadsResponse
  PROVE  /\ R!Position \in 0 .. Len(exchange.bytes) /\ exchange.bytes \in Seq(Int)
         /\ Len(exchange.bytes) \in Nat /\ R!Position = Reader!Position
<1>1. Reader!IInv /\ Reader!TypeOK
  BY DEF ReadsResponse, Reader!IInv
<1>2. Reader!Position \in Nat /\ Reader!Position <= received
  BY <1>1, ReaderAssumptions, Reader!PositionBelow
<1>3. received \in 0 .. Len(sent) /\ sent \in Seq(Int) /\ Len(sent) \in Nat
  BY <1>1, ReaderAssumptions, Reader!ReaderFacts
<1>4. R!Position = Reader!Position
  BY DEF R!Position, Reader!Position
<1> QED
  BY <1>2, <1>3, <1>4 DEF ReadsResponse

\* An answer is what comes next.
LEMMA AnswerIs ==
  ASSUME ReadsResponse, exchange' = exchange,
         \/ R!ReadFromEarlier \/ R!ReadFromLast
         \/ \E sz \in R!Answerable \ {0} : R!ReadDone(sz)
  PROVE  /\ ReadsResponse' /\ R!Position' \in R!Position + 1 .. Len(exchange.bytes)
         /\ out' = SubSeq(exchange.bytes, R!Position + 1, R!Position')
<1>1. \/ Reader!ReadFromEarlier \/ Reader!ReadFromLast
      \/ \E sz \in Reader!Answerable \ {0} : Reader!ReadDone(sz)
  BY DEF R!ReadFromEarlier, R!ReadFromLast, R!ReadDone, R!Answerable, R!View, R!Last, R!Room,
         Reader!ReadFromEarlier, Reader!ReadFromLast, Reader!ReadDone, Reader!Answerable,
         Reader!View, Reader!Last, Reader!Room
<1>2. /\ Reader!IInv' /\ Reader!Position' \in Reader!Position + 1 .. Len(sent)
      /\ out' = SubSeq(sent, Reader!Position + 1, Reader!Position') /\ sent' = sent
  BY <1>1, ReaderAssumptions, Reader!AnswerIsNext DEF ReadsResponse
<1>3. R!Position = Reader!Position /\ R!Position' = Reader!Position'
  BY DEF R!Position, Reader!Position
<1> QED
  BY <1>2, <1>3 DEF ReadsResponse

\* Asking, and failing, leaves the position.
LEMMA AskingStays ==
  ASSUME ReadsResponse, exchange' = exchange, R!AskForMore \/ R!ReadFails
  PROVE  ReadsResponse' /\ R!Position' = R!Position
<1>1. Reader!AskForMore \/ Reader!ReadFails
  BY DEF R!AskForMore, R!ReadFails, R!AllRead, R!GetFreeBuffer, R!Last, R!Room, R!state,
         Reader!AskForMore, Reader!ReadFails, Reader!AllRead, Reader!GetFreeBuffer,
         Reader!Last, Reader!Room, Reader!state
<1>2. Reader!IInv' /\ Reader!Position' = Reader!Position /\ sent' = sent
  BY <1>1, ReaderAssumptions, Reader!AskForMoreStep, Reader!ReadFailsStep DEF ReadsResponse
<1>3. R!Position = Reader!Position /\ R!Position' = Reader!Position'
  BY DEF R!Position, Reader!Position
<1> QED
  BY <1>2, <1>3 DEF ReadsResponse

\* Giving back moves it back.
LEMMA GivingBack ==
  ASSUME ReadsResponse, exchange' = exchange, NEW n \in 0 .. R!Position, R!ReplaceBytes(n)
  PROVE  ReadsResponse' /\ R!Position' = R!Position - n
<1>1. Reader!ReplaceBytes(n)
  BY DEF R!ReplaceBytes, Reader!ReplaceBytes
<1>2. R!Position = Reader!Position /\ R!Position' = Reader!Position'
  BY DEF R!Position, Reader!Position
<1>3. Reader!IInv' /\ Reader!Position' = Reader!Position - n /\ sent' = sent
  BY <1>1, <1>2, ReaderAssumptions, Reader!ReplaceBytesStep DEF ReadsResponse
<1> QED
  BY <1>2, <1>3 DEF ReadsResponse

\* A step without the reader.
LEMMA ReaderStays ==
  ASSUME ReadsResponse, UNCHANGED <<exchange, reader>>
  PROVE  ReadsResponse' /\ R!Position' = R!Position
<1>1. Reader!IInv'
  BY DEF ReadsResponse, reader, Reader!IInv, Reader!TypeOK, Reader!Holds, Reader!PositionInside,
         Reader!Last, Reader!Room
<1> QED
  BY <1>1 DEF ReadsResponse, reader, R!Position

\* An untouched reader.
LEMMA ReaderStarts ==
  ASSUME exchange \in Exchanges, R!Empty(exchange.bytes)
  PROVE  ReadsResponse /\ R!Position = 0
<1>1. Reader!Init
  BY DEF R!Empty, Reader!Empty, Reader!Init
<1>2. Reader!IInv
  BY <1>1, ReaderAssumptions, Reader!InitHolds
<1>3. R!Position = 0
  BY ReaderAssumptions DEF R!Position, R!Empty
<1> QED
  BY <1>2, <1>3 DEF ReadsResponse, R!Empty

-----------------------------------------------------------------------------
(* Piece by piece.                                                         *)

Waiting == HeadStages \cup CountStages

\* How far the response is read, if the next piece begins behind p bytes.
Here(p) == [stage |-> stage, need |-> need, res |-> res, pos |-> p]
Reached(p) == \E k \in 0 .. p : Readings(exchange.bytes)[k] = Here(p)

\* What was read of that piece.
SoFar(p) == SubSeq(exchange.bytes, p + 1, R!Position)

Needs ==
  /\ need \in Int
  /\ stage \in {"chunk end", "last end"} => need = 2
  /\ stage = "chunk" => need # 0

\* The parser has what is there of the piece; once it has found the piece, it
\* gives back what is behind it.
Has(p) ==
  /\ found = Nothing =>
       /\ current = SoFar(p) /\ (SoFar(p) # <<>> => Len(SoFar(p)) < need)
       /\ stage \in HeadStages => SoFar(p) = <<>> /\ ~late
  /\ found.kind = "more" => found.text = SoFar(p) /\ Len(SoFar(p)) < need /\ stage \in CountStages
  /\ found.kind = "done" =>
       /\ found.back \in 0 .. R!Position
       /\ [text |-> found.text, end |-> R!Position - found.back]
            \in Piece(exchange.bytes, Here(p))

InPiece(p) == Reached(p) /\ Needs /\ Has(p)

\* All of it is read.
Complete == \E k \in 0 .. R!Position + 1 : Readings(exchange.bytes)[k] = Here(R!Position)

HeadersAreTexts ==
  "headers" \in DOMAIN res /\ res.headers \in Seq(Seq(Int) \X Seq(Int))

Unused ==
  /\ found = Nothing /\ current = <<>> /\ ~late /\ need = 0 /\ res = NoResponse
  /\ R!Position = 0

\* The inductive invariant, as long as the lines of the head come whole.
RInv ==
  /\ ReadsResponse
  /\ stage \in Early \cup Writing => Unused
  /\ stage \in Waiting => HeadersAreTexts /\ \E p \in 0 .. R!Position : InPiece(p)
  /\ stage = "done" => Complete

\* The beginning of a part.
LEMMA PartOfPart ==
  ASSUME NEW t \in Seq(Int), NEW a \in Nat, NEW b \in a .. Len(t), NEW n \in 0 .. b - a
  PROVE  SubSeq(SubSeq(t, a + 1, b), 1, n) = SubSeq(t, a + 1, a + n)
<1> DEFINE u == SubSeq(t, a + 1, b)
           v == SubSeq(t, a + 1, a + n)
           w == SubSeq(u, 1, n)
<1>1. Len(t) \in Nat /\ a + n \in a .. Len(t) /\ (a + n) - a = n
  BY LenProperties
<1>2. u \in Seq(Int) /\ Len(u) = b - a /\ \A i \in 1 .. b - a : u[i] = t[a + i]
  BY PartIs
<1>3. v \in Seq(Int) /\ Len(v) = n /\ \A i \in 1 .. n : v[i] = t[a + i]
  BY <1>1, PartIs
<1> HIDE DEF u, v
<1>4. w \in Seq(Int) /\ Len(w) = n /\ \A i \in 1 .. n : w[i] = u[i]
  <2>1. 0 \in Nat /\ n \in 0 .. Len(u) /\ 0 + 1 = 1 /\ n - 0 = n /\ \A i \in Int : 0 + i = i
    BY <1>2
  <2>2. /\ SubSeq(u, 0 + 1, n) \in Seq(Int) /\ Len(SubSeq(u, 0 + 1, n)) = n - 0
        /\ \A i \in 1 .. n - 0 : SubSeq(u, 0 + 1, n)[i] = u[0 + i]
    BY <1>2, <2>1, PartIs
  <2> QED
    BY <2>1, <2>2
<1> HIDE DEF w
<1>5. ASSUME NEW i \in 1 .. n PROVE w[i] = v[i]
  <2>1. i \in 1 .. b - a
    BY <1>1
  <2> QED
    BY <1>2, <1>3, <1>4, <2>1
<1>6. w = v
  BY <1>3, <1>4, <1>5, SeqEqual
<1> QED
  BY <1>6 DEF u, v, w

\* Two parts, one behind the other.
LEMMA PartsJoin ==
  ASSUME NEW t \in Seq(Int), NEW a \in Nat, NEW b \in a .. Len(t), NEW c \in b .. Len(t)
  PROVE  SubSeq(t, a + 1, b) \o SubSeq(t, b + 1, c) = SubSeq(t, a + 1, c)
<1>1. a + 1 \in 1 .. Len(t) + 1 /\ b \in (a + 1) - 1 .. Len(t) /\ c \in b .. Len(t)
  BY LenProperties
<1> QED
  BY <1>1, ConcatAdjacentSubSeq

\* A part of no bytes.
LEMMA NoPart ==
  ASSUME NEW t \in Seq(Int), NEW a \in 0 .. Len(t)
  PROVE  SubSeq(t, a + 1, a) = <<>>
<1>1. Len(SubSeq(t, a + 1, a)) = 0 /\ SubSeq(t, a + 1, a) \in Seq(Int)
  <2>1. a \in Nat /\ a \in a .. Len(t) /\ a - a = 0
    BY LenProperties
  <2> QED
    BY <2>1, PartIs
<1> QED
  BY <1>1, EmptySeq

\* Numbers of bytes, for short.
LEMMA Places ==
  ASSUME ReadsResponse, NEW p \in 0 .. R!Position
  PROVE  /\ SoFar(p) \in Seq(Int) /\ Len(SoFar(p)) = R!Position - p
         /\ p \in Nat /\ R!Position \in p .. Len(exchange.bytes)
<1>1. /\ R!Position \in 0 .. Len(exchange.bytes) /\ exchange.bytes \in Seq(Int)
      /\ Len(exchange.bytes) \in Nat
  BY PositionIs
<1>2. p \in Nat /\ R!Position \in p .. Len(exchange.bytes)
  BY <1>1
<1> QED
  BY <1>1, <1>2, PartIs DEF SoFar

\* What a step of the parser has to show while it waits for more.
LEMMA StillWaiting ==
  ASSUME RInv, stage \in Waiting, stage' = stage, exchange' = exchange,
         UNCHANGED <<need, res>>, ReadsResponse',
         NEW p \in 0 .. R!Position, InPiece(p), p \in 0 .. R!Position', Has(p)'
  PROVE  RInv'
<1>1. Reached(p)' /\ Needs'
  BY DEF InPiece, Reached, Needs, Here
<1>2. HeadersAreTexts'
  BY DEF RInv, HeadersAreTexts
<1>3. stage' \in Waiting /\ stage' # "done" /\ stage' \notin Early \cup Writing
  BY DEF Waiting, HeadStages, CountStages, Early, Writing
<1>4. InPiece(p)'
  BY <1>1 DEF InPiece
<1> QED
  BY <1>2, <1>3, <1>4 DEF RInv

\* An answer that has the rest of a line.
LEMMA LineAnswer ==
  ASSUME RInv, HeadsWhole', stage \in HeadStages, found = Nothing, stage' = stage,
         exchange' = exchange, UNCHANGED <<need, res>>, ReadsResponse',
         R!Position' \in R!Position + 1 .. Len(exchange.bytes),
         out' = SubSeq(exchange.bytes, R!Position + 1, R!Position'), found' = UpTo(out')
  PROVE  RInv'
<1>1. stage \in Waiting
  BY DEF Waiting
<1>2. PICK p \in 0 .. R!Position : InPiece(p)
  BY <1>1 DEF RInv
<1>3. SoFar(p) = <<>> /\ ~late /\ current = <<>>
  BY <1>2 DEF InPiece, Has
<1>4. ReadsResponse
  BY DEF RInv
<1>5. PICK t \in Seq(Int) : t = exchange.bytes
  BY <1>4, PositionIs
<1>6. PICK l \in Nat, q \in Nat : l = Len(t) /\ q = R!Position' /\ q \in p + 1 .. l
      /\ p = R!Position
  <2>1. R!Position - p = 0
    BY <1>2, <1>3, <1>4, Places, EmptySeq
  <2>2. p \in Nat /\ R!Position = p /\ Len(t) \in Nat
    BY <1>2, <1>4, <1>5, <2>1, PositionIs
  <2> QED
    BY <1>5, <2>2
<1> DEFINE d == Delimiter(stage)
           chunk == SubSeq(t, p + 1, q)
           rest == SubSeq(t, p + 1, Len(t))
           i == FindIndex(chunk, d)
<1>7. out' = chunk /\ chunk \in Seq(Int) /\ Len(chunk) = q - p
  <2>1. q \in p .. Len(t) /\ p \in Nat
    BY <1>6
  <2> QED
    BY <1>5, <1>6, <2>1, PartIs
<1>8. d \in Seq(Int) /\ d # <<>> /\ Len(d) \in Nat \ {0}
  BY Delimiters
<1>9. i # -1
  <2> SUFFICES ASSUME i = -1 PROVE FALSE
    OBVIOUS
  <2>1. UpTo(chunk).kind = "more"
    <3> HIDE DEF chunk
    <3> QED
      BY <1>3, <1>7, NoLine
  <2>2. found'.kind = "more" /\ stage' \in HeadStages
    BY <1>7, <2>1
  <2> QED
    BY <2>2 DEF HeadsWhole
<1>10. FindIndex(rest, d) = i /\ i \in 0 .. q - p - Len(d)
  <2>1. q \in p .. Len(t) /\ p \in Nat
    BY <1>6
  <2>2. FindIndex(SubSeq(t, p + 1, q), d) # -1
    BY <1>9
  <2> HIDE DEF d
  <2> QED
    BY <1>8, <2>1, <2>2, FoundInPart
<1> HIDE DEF d, i, rest
<1>11. PICK m \in Nat, n \in Nat : m = Len(d) /\ m > 0 /\ n = i /\ n + m <= q - p
  <2>1. PICK m \in Nat : m = Len(d) /\ m > 0
    BY <1>8
  <2>2. i \in 0 .. q - p - m
    BY <1>10, <2>1
  <2>3. i \in Nat /\ i + m <= q - p
    BY <1>6, <2>1, <2>2
  <2> QED
    BY <2>1, <2>3
<1>0. /\ p \in Nat /\ q \in Nat /\ l \in Nat /\ m \in Nat /\ n \in Nat /\ q \in p + 1 .. l
      /\ m > 0 /\ n + m <= q - p
  BY <1>6, <1>11
<1>12. found' = [kind |-> "done", text |-> SubSeq(chunk, 1, n), back |-> (q - p) - (n + m)]
  <2> HIDE DEF chunk
  <2>1. n = FindIndex(chunk, Delimiter(stage)) /\ m = Len(Delimiter(stage))
    BY <1>11 DEF i, d, chunk
  <2>2. n + Len(Delimiter(stage)) <= Len(chunk) /\ Len(chunk) = q - p
    BY <1>0, <1>7, <2>1
  <2>3. UpTo(chunk) = [kind |-> "done", text |-> SubSeq(chunk, 1, n),
                       back |-> Len(chunk) - (n + Len(Delimiter(stage)))]
    BY <1>3, <1>7, <2>1, <2>2, LineIs
  <2> QED
    BY <1>7, <2>1, <2>2, <2>3
<1>13. SubSeq(chunk, 1, n) = SubSeq(t, p + 1, p + n) /\ SubSeq(rest, 1, n) = SubSeq(t, p + 1, p + n)
  <2>1. q \in p .. l /\ l \in p .. l /\ n \in 0 .. q - p /\ n \in 0 .. l - p
    BY <1>0
  <2>2. q \in p .. Len(t) /\ Len(t) \in p .. Len(t) /\ n \in 0 .. Len(t) - p /\ p \in Nat
    BY <1>6, <2>1
  <2> QED
    BY <2>1, <2>2, PartOfPart DEF rest
<1> HIDE DEF chunk
<1>14. /\ found'.text = SubSeq(rest, 1, n) /\ found'.back = (q - p) - (n + m)
       /\ found'.kind = "done" /\ found' # Nothing
  <2>1. found'.kind # Nothing.kind
    BY <1>12 DEF Nothing
  <2>2. SubSeq(chunk, 1, n) = SubSeq(rest, 1, n)
    BY <1>13
  <2> QED
    BY <1>12, <2>1, <2>2
<1>15. found'.back \in 0 .. q /\ q - found'.back = p + n + m
  <2>1. (q - p) - (n + m) \in 0 .. q /\ q - ((q - p) - (n + m)) = p + n + m
    BY <1>0
  <2> QED
    BY <1>14, <2>1
<1>16. [text |-> found'.text, end |-> q - found'.back] \in Piece(t, Here(p))
  <2>1. Here(p).stage = stage /\ Here(p).pos = p
    BY DEF Here
  <2>2. Piece(t, Here(p)) =
          {[text |-> SubSeq(rest, 1, j), end |-> p + j + Len(d)] :
             j \in {FindIndex(rest, d)} \ {-1}}
    <3>1. stage \notin CountStages
      BY DEF HeadStages, CountStages
    <3> QED
      BY <2>1, <3>1 DEF Piece, rest, d
  <2>3. n \in {FindIndex(rest, d)} \ {-1}
    BY <1>9, <1>10, <1>11
  <2>4. p + n + Len(d) = p + n + m
    BY <1>11
  <2> QED
    BY <1>14, <1>15, <2>2, <2>3, <2>4
<1>17. Here(p)' = Here(p)
  BY DEF Here
<1>18. Has(p)'
  BY <1>5, <1>6, <1>14, <1>15, <1>16, <1>17 DEF Has
<1> QED
  BY <1>1, <1>2, <1>6, <1>18, StillWaiting

\* An answer where a number of bytes is read.
LEMMA CountAnswer ==
  ASSUME RInv, stage \in CountStages, found = Nothing, stage' = stage,
         exchange' = exchange, UNCHANGED <<need, res>>, ReadsResponse',
         R!Position' \in R!Position + 1 .. Len(exchange.bytes),
         out' = SubSeq(exchange.bytes, R!Position + 1, R!Position'), found' = NBytes(out')
  PROVE  RInv'
<1>1. stage \in Waiting /\ stage \notin HeadStages
  BY DEF Waiting, HeadStages, CountStages
<1>2. PICK p \in 0 .. R!Position : InPiece(p)
  BY <1>1 DEF RInv
<1>3. current = SoFar(p) /\ need \in Int
  BY <1>2 DEF InPiece, Has, Needs
<1>4. ReadsResponse
  BY DEF RInv
<1>5. PICK t \in Seq(Int) : t = exchange.bytes
  BY <1>4, PositionIs
<1>6. PICK l \in Nat, q \in Nat, x \in Nat, n \in Int :
        l = Len(t) /\ q = R!Position' /\ x = R!Position /\ n = need
        /\ x \in p .. l /\ q \in x + 1 .. l /\ p \in Nat
  <2>1. R!Position \in Nat /\ R!Position \in p .. Len(t) /\ Len(t) \in Nat /\ p \in Nat
    BY <1>4, <1>5, Places, PositionIs
  <2>2. R!Position' \in R!Position + 1 .. Len(t)
    BY <1>5
  <2>3. R!Position' \in Nat
    BY <2>1, <2>2
  <2> QED
    BY <1>3, <2>1, <2>2, <2>3
<1> DEFINE chunk == SubSeq(t, x + 1, q)
           rest == SubSeq(t, p + 1, Len(t))
           left == n - (x - p)
<1>7. out' = chunk /\ chunk \in Seq(Int) /\ Len(chunk) = q - x
  <2>1. q \in x .. Len(t) /\ x \in Nat
    BY <1>6
  <2> QED
    BY <1>5, <1>6, <2>1, PartIs
<1>8. current = SubSeq(t, p + 1, x) /\ Len(current) = x - p
  BY <1>3, <1>4, <1>5, <1>6, Places DEF SoFar
<1>9. current \o chunk = SubSeq(t, p + 1, q)
  <2>1. p \in Nat /\ x \in p .. Len(t) /\ q \in x .. Len(t)
    BY <1>6
  <2> QED
    BY <1>8, <2>1, PartsJoin
<1>10. SoFar(p)' = SubSeq(t, p + 1, q) /\ Len(SoFar(p)') = q - p
  <2>1. p \in Nat /\ q \in p .. Len(t)
    BY <1>6
  <2> QED
    BY <1>5, <1>6, <2>1, PartIs DEF SoFar
<1>11. found' = IF left > q - x THEN [kind |-> "more", text |-> current \o chunk, back |-> 0]
                ELSE IF left < 0 THEN Error
                ELSE [kind |-> "done", text |-> current \o SubSeq(chunk, 1, left),
                      back |-> (q - x) - left]
  <2> HIDE DEF chunk
  <2> QED
    BY <1>6, <1>7, <1>8 DEF NBytes
<1> HIDE DEF chunk, rest
<1>0. /\ l \in Nat /\ q \in Nat /\ x \in Nat /\ n \in Int /\ p \in Nat
      /\ p <= x /\ x < q /\ q <= l
  BY <1>6
<1>12. Here(p)' = Here(p)
  BY DEF Here
<1>13. CASE left > q - x
  <2>1. found' = [kind |-> "more", text |-> SubSeq(t, p + 1, q), back |-> 0]
    BY <1>9, <1>11, <1>13
  <2>2. found' # Nothing /\ found'.kind = "more" /\ found'.kind # "done"
        /\ found'.text = SoFar(p)'
    BY <1>10, <2>1 DEF Nothing
  <2>3. Len(SoFar(p)') < need'
    <3>1. q - p < n
      BY <1>0, <1>13
    <3> QED
      BY <1>6, <1>10, <3>1
  <2>4. Has(p)'
    BY <2>2, <2>3 DEF Has
  <2>5. p \in 0 .. R!Position'
    BY <1>6
  <2> QED
    BY <1>1, <1>2, <2>4, <2>5, StillWaiting
<1>14. CASE ~(left > q - x) /\ left < 0
  <2>1. found' # Nothing /\ found'.kind # "more" /\ found'.kind # "done"
    BY <1>11, <1>14 DEF Nothing, Error
  <2>2. Has(p)'
    BY <2>1 DEF Has
  <2>3. p \in 0 .. R!Position'
    BY <1>6
  <2> QED
    BY <1>1, <1>2, <2>2, <2>3, StillWaiting
<1>15. CASE ~(left > q - x) /\ ~(left < 0)
  <2>1. PICK k \in Nat : k = left /\ k <= q - x /\ n = (x - p) + k
    <3>1. left \in Nat /\ left <= q - x /\ n = (x - p) + left
      BY <1>0, <1>15
    <3> HIDE DEF left
    <3> QED
      BY <3>1
  <2>0. /\ k \in Nat /\ k <= q - x /\ n = (x - p) + k
    BY <2>1
  <2> HIDE DEF left
  <2>2. found' = [kind |-> "done", text |-> current \o SubSeq(chunk, 1, k),
                  back |-> (q - x) - k]
    BY <1>11, <1>15, <2>1
  <2>3. current \o SubSeq(chunk, 1, k) = SubSeq(t, p + 1, p + n)
    <3>0. q \in x .. l /\ k \in 0 .. q - x /\ x + k \in x .. l /\ x + k = p + n
      BY <1>0, <2>0
    <3>1. /\ x \in Nat /\ q \in x .. Len(t) /\ k \in 0 .. q - x
      BY <1>6, <3>0
    <3>2. SubSeq(chunk, 1, k) = SubSeq(t, x + 1, x + k)
      BY <3>1, PartOfPart DEF chunk
    <3>3. p \in Nat /\ x \in p .. Len(t) /\ x + k \in x .. Len(t) /\ x + k = p + n
      BY <1>6, <3>0
    <3> QED
      BY <1>8, <3>2, <3>3, PartsJoin
  <2>4. n \in 0 .. l - p /\ SubSeq(rest, 1, n) = SubSeq(t, p + 1, p + n) /\ Len(rest) = l - p
    <3>0. l \in p .. l /\ n \in 0 .. l - p
      BY <1>0, <2>0
    <3>1. p \in Nat /\ Len(t) \in p .. Len(t) /\ n \in 0 .. Len(t) - p
      BY <1>6, <3>0
    <3>2. SubSeq(rest, 1, n) = SubSeq(t, p + 1, p + n)
      BY <3>1, PartOfPart DEF rest
    <3>3. Len(rest) = Len(t) - p
      BY <3>1, PartIs DEF rest
    <3> QED
      BY <1>6, <3>0, <3>2, <3>3
  <2>5. /\ found'.text = SubSeq(rest, 1, n) /\ found'.back = (q - x) - k
        /\ found'.kind = "done" /\ found' # Nothing
    <3>1. found'.kind # Nothing.kind
      BY <2>2 DEF Nothing
    <3>2. current \o SubSeq(chunk, 1, k) = SubSeq(rest, 1, n)
      BY <2>3, <2>4
    <3>3. PICK y, z : y = current \o SubSeq(chunk, 1, k) /\ z = (q - x) - k
      OBVIOUS
    <3>4. found' = [kind |-> "done", text |-> y, back |-> z]
      BY <2>2, <3>3
    <3>5. found'.text = y /\ found'.back = z /\ found'.kind = "done"
      BY <3>4
    <3> QED
      BY <3>1, <3>2, <3>3, <3>5
  <2>6. found'.back \in 0 .. q /\ q - found'.back = p + n
    <3>1. (q - x) - k \in 0 .. q /\ q - ((q - x) - k) = p + n
      BY <1>0, <2>0
    <3> QED
      BY <2>5, <3>1
  <2>7. [text |-> found'.text, end |-> q - found'.back] \in Piece(t, Here(p))
    <3>1. Here(p).stage = stage /\ Here(p).pos = p /\ Here(p).need = n
      BY <1>6 DEF Here
    <3>2. Piece(t, Here(p)) =
            {[text |-> SubSeq(rest, 1, j), end |-> p + j] : j \in {n} \cap 0 .. Len(rest)}
      BY <1>1, <3>1 DEF Piece, rest
    <3>3. n \in {n} \cap 0 .. Len(rest)
      BY <2>4
    <3> QED
      BY <2>5, <2>6, <3>2, <3>3
  <2>8. Has(p)'
    BY <1>5, <1>6, <1>12, <2>5, <2>6, <2>7 DEF Has
  <2>9. p \in 0 .. R!Position'
    BY <1>6
  <2> QED
    BY <1>1, <1>2, <2>8, <2>9, StillWaiting
<1> QED
  BY <1>13, <1>14, <1>15

-----------------------------------------------------------------------------
(* Steps beside the response.                                              *)

\* One that leaves the parser and the reader alone.
LEMMA Untouched ==
  ASSUME RInv, UNCHANGED <<exchange, reader, stage, parser, res>>
  PROVE  RInv'
<1>1. ReadsResponse /\ ReadsResponse' /\ R!Position' = R!Position
  BY ReaderStays DEF RInv
<1>2. (Unused => Unused') /\ (HeadersAreTexts => HeadersAreTexts') /\ (Needs => Needs')
  BY <1>1 DEF Unused, HeadersAreTexts, Needs, parser
<1>3. ASSUME NEW p, InPiece(p) PROVE InPiece(p)'
  <2>1. Here(p)' = Here(p) /\ SoFar(p)' = SoFar(p)
    BY <1>1 DEF Here, SoFar, parser
  <2>2. Reached(p)' /\ Needs'
    BY <1>2, <1>3, <2>1 DEF InPiece, Reached
  <2>3. Has(p)'
    BY <1>1, <1>3, <2>1 DEF InPiece, Has, parser
  <2> QED
    BY <2>2, <2>3 DEF InPiece
<1>4. Complete => Complete'
  BY <1>1 DEF Complete, Here, parser
<1>5. stage' \in Waiting => HeadersAreTexts' /\ \E p \in 0 .. R!Position' : InPiece(p)'
  <2> SUFFICES ASSUME stage' \in Waiting
               PROVE  HeadersAreTexts' /\ \E p \in 0 .. R!Position' : InPiece(p)'
    OBVIOUS
  <2>1. HeadersAreTexts /\ \E p \in 0 .. R!Position : InPiece(p)
    BY DEF RInv
  <2> QED
    BY <1>1, <1>2, <1>3, <2>1
<1>6. stage' = "done" => Complete'
  BY <1>4 DEF RInv
<1>7. stage' \in Early \cup Writing => Unused'
  BY <1>2 DEF RInv
<1> QED
  BY <1>1, <1>5, <1>6, <1>7 DEF RInv

\* One that ends the request without a response.
LEMMA EndsWithout ==
  ASSUME ReadsResponse', stage' \in {"failed", "crashed"}
  PROVE  RInv'
<1>1. stage' \notin Early \cup Writing /\ stage' \notin Waiting /\ stage' # "done"
  BY DEF Early, Writing, Waiting, HeadStages, CountStages
<1> QED
  BY <1>1 DEF RInv

\* One of those before the response.
LEMMA BeforeStep ==
  ASSUME RInv, stage \in Early \cup Writing, stage' \in Early \cup Writing,
         UNCHANGED <<exchange, reader, parser, res>>
  PROVE  RInv'
<1>1. ReadsResponse' /\ R!Position' = R!Position
  BY ReaderStays DEF RInv
<1>2. Unused'
  BY <1>1 DEF RInv, Unused, parser
<1>3. stage' \notin Waiting /\ stage' # "done"
  BY DEF Early, Writing, Waiting, HeadStages, CountStages
<1> QED
  BY <1>1, <1>2, <1>3 DEF RInv

\* All of these but the last.
LEMMA StepsBefore ==
  ASSUME RInv, \/ ReadUrl \/ Resolved \/ Connected \/ ShookHands \/ OpeningWritten \/ CallFails
  PROVE  RInv'
<1>1. /\ stage \in Early \cup Writing /\ stage' \in Early \cup Writing \cup {"failed"}
      /\ UNCHANGED <<exchange, reader, parser, res>>
  BY DEF ReadUrl, Resolved, Connected, ShookHands, OpeningWritten, CallFails, Go, Early, Writing
<1>2. CASE stage' \in Early \cup Writing
  BY <1>1, <1>2, BeforeStep
<1>3. CASE stage' = "failed"
  <2>1. ReadsResponse'
    BY <1>1, ReaderStays DEF RInv
  <2> QED
    BY <1>3, <2>1, EndsWithout
<1> QED
  BY <1>1, <1>2, <1>3

\* The first piece begins with the response.
LEMMA ResponseBegins == ASSUME RInv, ClosingWritten PROVE RInv'
<1>1. /\ stage = "closing" /\ stage' = "protocol" /\ UNCHANGED <<exchange, reader, parser, res>>
  BY DEF ClosingWritten, Go
<1>2. Unused /\ ReadsResponse /\ ReadsResponse' /\ R!Position' = R!Position
  BY <1>1, ReaderStays DEF RInv, Writing
<1>3. /\ found' = Nothing /\ current' = <<>> /\ ~late' /\ need' = 0 /\ res' = NoResponse
      /\ R!Position' = 0
  BY <1>1, <1>2 DEF Unused, parser
<1>4. exchange'.bytes \in Seq(Int) /\ Len(exchange'.bytes) \in Nat
  BY <1>1, <1>2, PositionIs
<1>5. Reached(0)'
  <2>1. Here(0)' = Unread
    BY <1>1, <1>3 DEF Here, Unread
  <2>2. Readings(exchange'.bytes)[0] = Unread
    BY <1>4, ReadingsGo
  <2> QED
    BY <2>1, <2>2 DEF Reached
<1>6. Needs'
  BY <1>1, <1>3 DEF Needs
<1>7. SoFar(0)' = <<>>
  <2>1. 0 \in 0 .. Len(exchange'.bytes)
    BY <1>4
  <2>2. SubSeq(exchange'.bytes, 0 + 1, 0) = <<>>
    BY <1>4, <2>1, NoPart
  <2> QED
    BY <1>3, <2>2 DEF SoFar
<1>8. Has(0)'
  BY <1>3, <1>7 DEF Has, Nothing
<1>9. HeadersAreTexts'
  BY <1>3 DEF HeadersAreTexts, NoResponse
<1>10. stage' \notin Early \cup Writing /\ stage' # "done" /\ 0 \in 0 .. R!Position'
  BY <1>1, <1>3 DEF Early, Writing
<1>11. InPiece(0)'
  BY <1>5, <1>6, <1>8 DEF InPiece
<1> QED
  BY <1>2, <1>9, <1>10, <1>11 DEF RInv

-----------------------------------------------------------------------------
(* Steps of the reader.                                                    *)

\* read_some() is answered.
LEMMA AnswerSteps ==
  ASSUME RInv, HeadsWhole', FromMemory \/ SocketAnswers
  PROVE  RInv'
<1>1. /\ \/ R!ReadFromEarlier \/ R!ReadFromLast
         \/ \E sz \in R!Answerable \ {0} : R!ReadDone(sz)
      /\ stage \in Waiting /\ found = Nothing /\ stage' = stage /\ exchange' = exchange
      /\ UNCHANGED <<need, res>>
      /\ found' = IF stage \in HeadStages THEN UpTo(out') ELSE NBytes(out')
  BY DEF FromMemory, SocketAnswers, Answering, Asking, Waiting
<1>2. /\ ReadsResponse' /\ R!Position' \in R!Position + 1 .. Len(exchange.bytes)
      /\ out' = SubSeq(exchange.bytes, R!Position + 1, R!Position')
  BY <1>1, AnswerIs DEF RInv
<1>3. CASE stage \in HeadStages
  BY <1>1, <1>2, <1>3, LineAnswer
<1>4. CASE stage \notin HeadStages
  <2>1. stage \in CountStages
    BY <1>1, <1>4 DEF Waiting
  <2> QED
    BY <1>1, <1>2, <1>4, <2>1, CountAnswer
<1> QED
  BY <1>3, <1>4

\* It waits for the socket,
LEMMA AskSocketStep == ASSUME RInv, AskSocket PROVE RInv'
<1>1. /\ R!AskForMore /\ stage \in Waiting /\ exchange' = exchange
      /\ UNCHANGED <<found, stage, current, late, need, res>>
  BY DEF AskSocket, Asking, Waiting
<1>2. ReadsResponse' /\ R!Position' = R!Position
  BY <1>1, AskingStays DEF RInv
<1>3. PICK p \in 0 .. R!Position : InPiece(p)
  BY <1>1 DEF RInv
<1>4. Here(p)' = Here(p) /\ SoFar(p)' = SoFar(p)
  BY <1>1, <1>2 DEF Here, SoFar
<1>5. Has(p)'
  BY <1>1, <1>2, <1>3, <1>4 DEF InPiece, Has
<1> QED
  BY <1>1, <1>2, <1>3, <1>5, StillWaiting

\* which may fail,
LEMMA SocketFailsStep == ASSUME RInv, SocketFails PROVE RInv'
<1>1. R!ReadFails /\ exchange' = exchange /\ stage' = "failed"
  BY DEF SocketFails, Asking
<1>2. ReadsResponse'
  BY <1>1, AskingStays DEF RInv
<1> QED
  BY <1>1, <1>2, EndsWithout

\* as the parser may.
LEMMA ThrowsStep == ASSUME RInv, Throws PROVE RInv'
<1>1. UNCHANGED <<exchange, reader>> /\ stage' = "failed"
  BY DEF Throws
<1>2. ReadsResponse'
  BY <1>1, ReaderStays DEF RInv
<1> QED
  BY <1>1, <1>2, EndsWithout

\* What there is of the piece is kept.
LEMMA NeedsMoreStep == ASSUME RInv, NeedsMore PROVE RInv'
<1>1. /\ found.kind = "more" /\ found' = Nothing /\ current' = found.text
      /\ UNCHANGED <<exchange, reader, stage, need, res>>
  BY DEF NeedsMore
<1>2. ReadsResponse' /\ R!Position' = R!Position /\ found # Nothing
  BY <1>1, ReaderStays DEF RInv, Nothing
<1>3. CASE stage \in Waiting
  <2>1. PICK p \in 0 .. R!Position : InPiece(p)
    BY <1>3 DEF RInv
  <2>2. /\ found.text = SoFar(p) /\ Len(SoFar(p)) < need /\ stage \in CountStages
        /\ SoFar(p)' = SoFar(p)
    BY <1>1, <1>2, <2>1 DEF InPiece, Has, SoFar
  <2>3. stage \notin HeadStages
    BY <2>2 DEF HeadStages, CountStages
  <2>4. found'.kind # "more" /\ found'.kind # "done"
    BY <1>1 DEF Nothing
  <2>5. Has(p)'
    BY <1>1, <2>2, <2>3, <2>4 DEF Has
  <2> QED
    BY <1>1, <1>2, <1>3, <2>1, <2>5, StillWaiting
<1>4. CASE stage \notin Waiting
  <2>1. stage \notin Early \cup Writing
    BY <1>2 DEF RInv, Unused
  <2>2. stage' = "done" => Complete'
    BY <1>1, <1>2 DEF RInv, Complete, Here
  <2>3. stage' \notin Early \cup Writing /\ stage' \notin Waiting
    BY <1>1, <1>4, <2>1
  <2> QED
    BY <1>2, <2>2, <2>3 DEF RInv
<1> QED
  BY <1>3, <1>4

-----------------------------------------------------------------------------
(* The pieces, one after the other.                                        *)

\* There is one next piece, and only the content may be empty.
LEMMA PieceIs ==
  ASSUME ReadsResponse, NEW p \in 0 .. R!Position, Needs, stage \in Waiting,
         NEW piece \in Piece(exchange.bytes, Here(p))
  PROVE  /\ Piece(exchange.bytes, Here(p)) = {piece}
         /\ piece.text \in Seq(Int) /\ piece.end \in Nat
         /\ piece.end >= p /\ (stage # "content" => piece.end > p)
<1>1. PICK t \in Seq(Int) : t = exchange.bytes
  BY PositionIs
<1>2. PICK l \in Nat : l = Len(t) /\ p \in 0 .. l
  <2>1. Len(t) \in Nat /\ p \in 0 .. Len(t)
    BY <1>1, PositionIs
  <2> QED
    BY <2>1
<1> DEFINE rest == SubSeq(t, p + 1, Len(t))
<1>3. rest \in Seq(Int) /\ Len(rest) \in Nat /\ Len(rest) = l - p
  <2>1. p \in Nat /\ Len(t) \in p .. Len(t)
    BY <1>2
  <2> QED
    BY <1>2, <2>1, PartIs
<1>4. Here(p).stage = stage /\ Here(p).pos = p /\ Here(p).need = need
  BY DEF Here
<1>5. CASE stage \in HeadStages
  <2> DEFINE d == Delimiter(stage)
             i == FindIndex(rest, d)
  <2>1. Piece(t, Here(p)) =
          {[text |-> SubSeq(rest, 1, j), end |-> p + j + Len(d)] : j \in {i} \ {-1}}
    <3>1. stage \notin CountStages
      BY <1>5 DEF HeadStages, CountStages
    <3> QED
      BY <1>4, <1>5, <3>1 DEF Piece
  <2>2. d \in Seq(Int) /\ Len(d) \in Nat \ {0}
    BY <1>5, Delimiters
  <2> HIDE DEF rest, d
  <2>3. i \in -1 .. Len(rest)
    BY <1>3, <2>2, FindIndexIn
  <2> HIDE DEF i
  <2>4. PICK j : j = i /\ j # -1 /\ piece = [text |-> SubSeq(rest, 1, j), end |-> p + j + Len(d)]
    BY <1>1, <2>1
  <2>5. Piece(t, Here(p)) = {piece}
    BY <2>1, <2>4
  <2>6. j \in Nat /\ j <= Len(rest)
    BY <1>3, <2>3, <2>4
  <2>7. SubSeq(rest, 1, j) \in Seq(Int)
    BY <1>3, <2>6, PartIsSeq
  <2>8. piece.text = SubSeq(rest, 1, j) /\ piece.end = p + j + Len(d)
    BY <2>4
  <2>9. piece.end \in Nat /\ piece.end > p
    BY <1>2, <2>2, <2>6, <2>8
  <2> QED
    BY <1>1, <2>5, <2>7, <2>8, <2>9
<1>6. CASE stage \notin HeadStages
  <2>0. stage \in CountStages
    BY <1>6 DEF Waiting
  <2>1. Piece(t, Here(p)) =
          {[text |-> SubSeq(rest, 1, j), end |-> p + j] : j \in {need} \cap 0 .. Len(rest)}
    BY <1>4, <1>6, <2>0 DEF Piece
  <2> HIDE DEF rest
  <2>2. PICK j : j = need /\ j \in 0 .. Len(rest)
                 /\ piece = [text |-> SubSeq(rest, 1, j), end |-> p + j]
    BY <1>1, <2>1
  <2>3. Piece(t, Here(p)) = {piece}
    BY <2>1, <2>2
  <2>4. SubSeq(rest, 1, j) \in Seq(Int) /\ j \in Nat
    <3>1. j \in Int /\ j <= Len(rest) /\ j \in Nat
      BY <1>3, <2>2
    <3> QED
      BY <1>3, <3>1, PartIsSeq
  <2>5. piece.text = SubSeq(rest, 1, j) /\ piece.end = p + j
    BY <2>2
  <2>6. stage # "content" => j # 0
    <3>1. stage # "content" => need # 0
      <4>1. PICK m \in Int : m = need
        BY DEF Needs
      <4>2. (stage \in {"chunk end", "last end"} => m = 2) /\ (stage = "chunk" => m # 0)
        BY <4>1 DEF Needs
      <4>3. stage \in {"chunk", "chunk end", "last end", "content"}
        BY <2>0 DEF CountStages
      <4>4. stage # "content" => m # 0
        <5>1. CASE stage = "chunk"
          BY <4>2, <5>1
        <5>2. CASE stage \in {"chunk end", "last end"}
          <6>1. m = 2
            BY <4>2, <5>2
          <6>2. m # 0
            BY <6>1
          <6> QED
            BY <6>2
        <5> QED
          BY <4>3, <5>1, <5>2
      <4> QED
        BY <4>1, <4>4
    <3> QED
      BY <2>2, <3>1
  <2>7. piece.end \in Nat /\ piece.end >= p /\ (stage # "content" => piece.end > p)
    BY <1>2, <2>4, <2>5, <2>6
  <2> QED
    BY <1>1, <2>3, <2>4, <2>5, <2>7
<1> QED
  BY <1>5, <1>6

\* A continuation that gets its text is at the end of a piece, and goes on as
\* the meaning of the response does.
LEMMA TakenIs ==
  ASSUME RInv, NEW s \in Waiting, Take(s)
  PROVE  /\ stage = s /\ exchange' = exchange /\ ReadsResponse' /\ found' = Nothing
         /\ current' = <<>> /\ ~late' /\ HeadersAreTexts /\ Needs /\ Text \in Seq(Int)
         /\ R!Position' \in Nat /\ R!Position' \in 0 .. Len(exchange.bytes)
         /\ \E p \in 0 .. R!Position' :
              /\ stage # "content" => p < R!Position'
              /\ \E k \in 0 .. p :
                   Readings(exchange.bytes)[k + 1] =
                     [Understood(Here(p), Text) EXCEPT !.pos = R!Position']
<1>1. /\ stage = s /\ exchange' = exchange /\ found.kind = "done" /\ R!ReplaceBytes(found.back)
      /\ found' = Nothing /\ current' = <<>> /\ ~late'
  BY DEF Take
<1>2. ReadsResponse /\ HeadersAreTexts
  BY <1>1 DEF RInv
<1>3. PICK p \in 0 .. R!Position : InPiece(p)
  BY <1>1 DEF RInv
<1>4. /\ found.back \in 0 .. R!Position
      /\ [text |-> Text, end |-> R!Position - found.back] \in Piece(exchange.bytes, Here(p))
  BY <1>1, <1>3 DEF InPiece, Has, Text
<1>5. ReadsResponse' /\ R!Position' = R!Position - found.back
  BY <1>1, <1>2, <1>4, GivingBack
<1> DEFINE piece == [text |-> Text, end |-> R!Position']
<1>6. piece \in Piece(exchange.bytes, Here(p)) /\ Needs
  BY <1>3, <1>4, <1>5 DEF InPiece
<1>7. piece.text = Text /\ piece.end = R!Position'
  OBVIOUS
<1> HIDE DEF piece
<1>8. /\ Piece(exchange.bytes, Here(p)) = {piece} /\ piece.text \in Seq(Int)
      /\ piece.end \in Nat /\ piece.end >= p /\ (stage # "content" => piece.end > p)
  BY <1>1, <1>2, <1>3, <1>6, PieceIs
<1>9. p \in 0 .. R!Position' /\ (stage # "content" => p < R!Position')
  BY <1>3, <1>7, <1>8
<1>10. PICK k \in 0 .. p : Readings(exchange.bytes)[k] = Here(p)
  BY <1>3 DEF InPiece, Reached
<1>11. Readings(exchange.bytes)[k + 1] = Further(exchange.bytes, Here(p))
  <2>1. /\ exchange.bytes \in Seq(Int) /\ Len(exchange.bytes) \in Nat
        /\ R!Position \in 0 .. Len(exchange.bytes)
    BY <1>2, PositionIs
  <2>2. k + 1 \in 1 .. Len(exchange.bytes) + 1 /\ (k + 1) - 1 = k
    BY <1>3, <1>10, <2>1
  <2> QED
    BY <1>10, <2>1, <2>2, ReadingsGo
<1>12. Further(exchange.bytes, Here(p)) = [Understood(Here(p), Text) EXCEPT !.pos = R!Position']
  <2>1. The({piece}) = piece
    BY DEF The
  <2>2. Piece(exchange.bytes, Here(p)) # {}
    BY <1>6
  <2> QED
    BY <1>7, <1>8, <2>1, <2>2 DEF Further
<1>13. R!Position' \in Nat /\ Text \in Seq(Int)
  BY <1>7, <1>8
<1>14. R!Position' \in 0 .. Len(exchange.bytes)
  <2>1. R!Position \in 0 .. Len(exchange.bytes) /\ Len(exchange.bytes) \in Nat
    BY <1>2, PositionIs
  <2> QED
    BY <1>4, <1>5, <2>1
<1> QED
  BY <1>1, <1>2, <1>5, <1>6, <1>9, <1>10, <1>11, <1>12, <1>13, <1>14

\* What the next stage has to show.
LEMMA GoesOn ==
  ASSUME RInv, NEW s \in Waiting, Take(s), stage' \in Waiting, stage # "content",
         Needs', HeadersAreTexts',
         \A p : Understood(Here(p), Text) = Here(p)'
  PROVE  RInv'
<1>1. /\ exchange' = exchange /\ ReadsResponse' /\ found' = Nothing
      /\ current' = <<>> /\ ~late' /\ R!Position' \in Nat
      /\ R!Position' \in 0 .. Len(exchange.bytes)
      /\ \E p \in 0 .. R!Position' :
              /\ stage # "content" => p < R!Position'
              /\ \E k \in 0 .. p :
                   Readings(exchange.bytes)[k + 1] =
                     [Understood(Here(p), Text) EXCEPT !.pos = R!Position']
  BY TakenIs
<1>2. PICK x \in Nat : x = R!Position'
  BY <1>1
<1>0. PICK p \in 0 .. x : /\ p < x
         /\ \E k \in 0 .. p : Readings(exchange.bytes)[k + 1] =
                               [Understood(Here(p), Text) EXCEPT !.pos = x]
  BY <1>1, <1>2
<1>3. PICK k \in 0 .. p : Readings(exchange.bytes)[k + 1] =
                            [Understood(Here(p), Text) EXCEPT !.pos = x]
  BY <1>0
<1>4. Readings(exchange.bytes)[k + 1] = Here(x)'
  <2>1. Understood(Here(p), Text) = [stage |-> stage', need |-> need', res |-> res', pos |-> p]
    BY DEF Here
  <2>2. Here(x)' = [stage |-> stage', need |-> need', res |-> res', pos |-> x]
    BY DEF Here
  <2> QED
    BY <1>3, <2>1, <2>2
<1>5. k + 1 \in 0 .. x
  BY <1>0, <1>2, <1>3
<1>6. Reached(x)'
  BY <1>1, <1>4, <1>5 DEF Reached
<1>7. SoFar(x)' = <<>>
  <2>1. exchange.bytes \in Seq(Int) /\ x \in 0 .. Len(exchange.bytes)
    BY <1>1, <1>2, PositionIs DEF RInv
  <2>2. SubSeq(exchange.bytes, x + 1, x) = <<>>
    BY <2>1, NoPart
  <2> QED
    BY <1>1, <1>2, <2>2 DEF SoFar
<1>8. Has(x)'
  BY <1>1, <1>7 DEF Has, Nothing
<1>9. InPiece(x)' /\ x \in 0 .. R!Position'
  BY <1>2, <1>6, <1>8 DEF InPiece
<1>10. stage' \notin Early \cup Writing /\ stage' # "done"
  BY DEF Waiting, HeadStages, CountStages, Early, Writing
<1> QED
  BY <1>1, <1>9, <1>10 DEF RInv

\* What the last one has to show.
LEMMA Completes ==
  ASSUME RInv, NEW s \in Waiting, Take(s), stage' = "done",
         \A p : Understood(Here(p), Text) = Here(p)'
  PROVE  RInv'
<1>1. /\ exchange' = exchange /\ ReadsResponse' /\ R!Position' \in Nat
      /\ \E p \in 0 .. R!Position' :
           \E k \in 0 .. p :
             Readings(exchange.bytes)[k + 1] =
               [Understood(Here(p), Text) EXCEPT !.pos = R!Position']
  BY TakenIs
<1>2. PICK x \in Nat : x = R!Position'
  BY <1>1
<1>0. PICK p \in 0 .. x :
         \E k \in 0 .. p : Readings(exchange.bytes)[k + 1] =
                            [Understood(Here(p), Text) EXCEPT !.pos = x]
  BY <1>1, <1>2
<1>3. PICK k \in 0 .. p : Readings(exchange.bytes)[k + 1] =
                            [Understood(Here(p), Text) EXCEPT !.pos = x]
  BY <1>0
<1>4. Readings(exchange.bytes)[k + 1] = Here(x)'
  <2>1. Understood(Here(p), Text) = [stage |-> stage', need |-> need', res |-> res', pos |-> p]
    BY DEF Here
  <2>2. Here(x)' = [stage |-> stage', need |-> need', res |-> res', pos |-> x]
    BY DEF Here
  <2> QED
    BY <1>3, <2>1, <2>2
<1>5. k + 1 \in 0 .. x + 1
  BY <1>0, <1>2, <1>3
<1>6. Complete'
  BY <1>1, <1>2, <1>4, <1>5 DEF Complete, Here
<1>7. stage' \notin Early \cup Writing /\ stage' \notin Waiting
  BY DEF Waiting, HeadStages, CountStages, Early, Writing
<1> QED
  BY <1>1, <1>6, <1>7 DEF RInv

-----------------------------------------------------------------------------
(* The continuations.                                                      *)

\* A numeral is read as an int, and as only one.
LEMMA IntRead ==
  ASSUME NEW text \in Seq(Int), NEW base \in {10, 16}, ParseIntIn(text, base) # {}
  PROVE  /\ The(ParseIntIn(text, base)) \in Int
         /\ ParseIntIn(text, base) = {The(ParseIntIn(text, base))}
<1>1. ParseIntIn(text, base) = Meaning(text, base)
  BY ParseIntExact
<1>2. \E v \in Int : Meaning(text, base) = {v}
  <2> DEFINE digits == IF text # <<>> /\ text[1] = Minus THEN Tail(text) ELSE text
             value == IF text # <<>> /\ text[1] = Minus THEN -Magnitude(digits, base)
                      ELSE Magnitude(digits, base)
  <2>1. Meaning(text, base) \in {{value}, {}} /\ (Meaning(text, base) # {} => IsInt(value))
    <3> HIDE DEF value, digits
    <3> QED
      BY DEF Meaning, value, digits
  <2> HIDE DEF value
  <2>2. value \in Int
    BY <1>1, <2>1, IntAssumption DEF IsInt, IntMin
  <2> QED
    BY <1>1, <2>1, <2>2
<1>3. PICK v \in Int : ParseIntIn(text, base) = {v}
  BY <1>1, <1>2
<1>4. The({v}) = v
  BY DEF The
<1> QED
  BY <1>3, <1>4

\* A header that is looked up is a text.
LEMMA HeaderIsText ==
  ASSUME NEW headers \in Seq(Seq(Int) \X Seq(Int)), NEW name, NEW default \in Seq(Int)
  PROVE  GetHeader(headers, name, default) \in Seq(Int)
<1> DEFINE hits == {i \in DOMAIN headers : headers[i][1] = name}
<1>1. GetHeader(headers, name, default) = IF hits = {} THEN default ELSE headers[Min(hits)][2]
  BY DEF GetHeader
<1>2. hits \subseteq DOMAIN headers /\ hits \in SUBSET Nat
  OBVIOUS
<1> HIDE DEF hits
<1>3. ASSUME hits # {} PROVE headers[Min(hits)][2] \in Seq(Int)
  <2>1. Min(hits) \in DOMAIN headers
    BY <1>2, <1>3, LeastIs
  <2>2. headers[Min(hits)] \in Seq(Int) \X Seq(Int)
    BY <2>1
  <2> QED
    BY <2>2
<1> QED
  BY <1>1, <1>3

\* Those that only keep their text, or nothing of it.
LEMMA PlainSteps ==
  ASSUME RInv, TakeProtocol \/ TakeVersion \/ TakeStatus \/ TakeChunk \/ TakeChunkEnd
  PROVE  RInv'
<1>1. PICK s \in Waiting : Take(s) /\ s # "content"
  BY DEF TakeProtocol, TakeVersion, TakeStatus, TakeChunk, TakeChunkEnd, Waiting, HeadStages,
         CountStages
<1>2. stage = s /\ HeadersAreTexts /\ Needs
  BY <1>1, TakenIs
<1>3. stage' \in Waiting
  BY DEF TakeProtocol, TakeVersion, TakeStatus, TakeChunk, TakeChunkEnd, Waiting, HeadStages,
         CountStages
<1>4. Needs'
  <2>1. CASE TakeChunk
    <3>1. need' = 2 /\ stage' # "chunk"
      BY <2>1 DEF TakeChunk
    <3>2. need' \in Int
      BY <3>1
    <3> QED
      BY <3>1, <3>2, Zenon DEF Needs
  <2>2. CASE ~TakeChunk
    <3>1. need' = need /\ stage' \in {"version", "code", "header", "size"}
      BY <2>2 DEF TakeProtocol, TakeVersion, TakeStatus, TakeChunkEnd
    <3> QED
      BY <1>2, <3>1 DEF Needs
  <2> QED
    BY <2>1, <2>2
<1>5. HeadersAreTexts'
  BY <1>2 DEF TakeProtocol, TakeVersion, TakeStatus, TakeChunk, TakeChunkEnd, HeadersAreTexts
<1>6. ASSUME NEW p PROVE Understood(Here(p), Text) = Here(p)'
  <2>1. Here(p).stage = stage
    BY DEF Here
  <2>2. CASE TakeProtocol
    <3>1. stage = "protocol" /\ stage' = "version"
      BY <2>2 DEF TakeProtocol, Take
    <3>2. need' = need /\ res' = [res EXCEPT !.protocol = Text]
      BY <2>2 DEF TakeProtocol
    <3>3. Understood(Here(p), Text) =
            [Here(p) EXCEPT !.stage = "version", !.res.protocol = Text]
      BY <2>1, <3>1 DEF Understood
    <3>4. Understood(Here(p), Text) = [Here(p) EXCEPT !.stage = stage', !.res.protocol = Text]
      BY <3>1, <3>3, Zenon
    <3> QED
      BY <3>2, <3>4 DEF Here
  <2>3. CASE TakeVersion
    <3>1. stage = "version" /\ stage' = "code"
      BY <2>3 DEF TakeVersion, Take
    <3>2. need' = need /\ res' = [res EXCEPT !.version = Text]
      BY <2>3 DEF TakeVersion
    <3>3. Understood(Here(p), Text) =
            [Here(p) EXCEPT !.stage = "code", !.res.version = Text]
      BY <2>1, <3>1 DEF Understood
    <3>4. Understood(Here(p), Text) = [Here(p) EXCEPT !.stage = stage', !.res.version = Text]
      BY <3>1, <3>3, Zenon
    <3> QED
      BY <3>2, <3>4 DEF Here
  <2>4. CASE TakeStatus
    <3>1. stage = "status" /\ stage' = "header"
      BY <2>4 DEF TakeStatus, Take
    <3>2. need' = need /\ res' = [res EXCEPT !.status = Text]
      BY <2>4 DEF TakeStatus
    <3>3. Understood(Here(p), Text) =
            [Here(p) EXCEPT !.stage = "header", !.res.status = Text]
      BY <2>1, <3>1 DEF Understood
    <3>4. Understood(Here(p), Text) = [Here(p) EXCEPT !.stage = stage', !.res.status = Text]
      BY <3>1, <3>3, Zenon
    <3> QED
      BY <3>2, <3>4 DEF Here
  <2>5. CASE TakeChunk
    <3>1. stage = "chunk" /\ stage' = "chunk end"
      BY <2>5 DEF TakeChunk, Take
    <3>2. need' = 2 /\ res' = [res EXCEPT !.body = @ \o Text]
      BY <2>5 DEF TakeChunk
    <3>3. Understood(Here(p), Text) =
            [Here(p) EXCEPT !.stage = "chunk end", !.need = 2, !.res.body = @ \o Text]
      BY <2>1, <3>1 DEF Understood
    <3>4. Understood(Here(p), Text) =
            [Here(p) EXCEPT !.stage = stage', !.need = 2, !.res.body = @ \o Text]
      BY <3>1, <3>3, Zenon
    <3> QED
      BY <3>2, <3>4 DEF Here
  <2>6. CASE TakeChunkEnd
    <3>1. stage = "chunk end" /\ stage' = "size"
      BY <2>6 DEF TakeChunkEnd, Take
    <3>2. need' = need /\ res' = res
      BY <2>6 DEF TakeChunkEnd
    <3>3. Understood(Here(p), Text) =
            [Here(p) EXCEPT !.stage = "size"]
      BY <2>1, <3>1 DEF Understood
    <3>4. Understood(Here(p), Text) = [Here(p) EXCEPT !.stage = stage']
      BY <3>1, <3>3, Zenon
    <3> QED
      BY <3>2, <3>4 DEF Here
  <2> QED
    BY <2>2, <2>3, <2>4, <2>5, <2>6
<1> QED
  BY <1>1, <1>2, <1>3, <1>4, <1>5, <1>6, GoesOn

\* The two that are the last.
LEMMA LastSteps == ASSUME RInv, TakeLastEnd \/ TakeContent PROVE RInv'
<1>1. PICK s \in Waiting : Take(s)
  BY DEF TakeLastEnd, TakeContent, Waiting, CountStages
<1>2. stage' = "done"
  BY DEF TakeLastEnd, TakeContent
<1>3. ASSUME NEW p PROVE Understood(Here(p), Text) = Here(p)'
  <2>1. Here(p).stage = stage
    BY DEF Here
  <2>2. CASE TakeLastEnd
    <3>1. stage = "last end" /\ stage' = "done"
      BY <2>2 DEF TakeLastEnd, Take
    <3>2. need' = need /\ res' = res
      BY <2>2 DEF TakeLastEnd
    <3>3. Understood(Here(p), Text) =
            [Here(p) EXCEPT !.stage = "done"]
      BY <2>1, <3>1 DEF Understood
    <3>4. Understood(Here(p), Text) = [Here(p) EXCEPT !.stage = stage']
      BY <3>1, <3>3, Zenon
    <3> QED
      BY <3>2, <3>4 DEF Here
  <2>3. CASE TakeContent
    <3>1. stage = "content" /\ stage' = "done"
      BY <2>3 DEF TakeContent, Take
    <3>2. need' = need /\ res' = [res EXCEPT !.body = Text]
      BY <2>3 DEF TakeContent
    <3>3. Understood(Here(p), Text) =
            [Here(p) EXCEPT !.stage = "done", !.res.body = Text]
      BY <2>1, <3>1 DEF Understood
    <3>4. Understood(Here(p), Text) = [Here(p) EXCEPT !.stage = stage', !.res.body = Text]
      BY <3>1, <3>3, Zenon
    <3> QED
      BY <3>2, <3>4 DEF Here
  <2> QED
    BY <2>2, <2>3
<1> QED
  BY <1>1, <1>2, <1>3, Completes

\* The status code.
LEMMA TakeCodeStep == ASSUME RInv, TakeCode PROVE RInv'
<1> DEFINE codes == ParseIntIn(Text, 10)
<1>1. /\ Take("code") /\ need' = need
      /\ stage' = IF Text = <<>> THEN "crashed" ELSE IF codes = {} THEN "failed" ELSE "status"
      /\ res' = IF codes = {} THEN res ELSE [res EXCEPT !.code = The(codes)]
  BY DEF TakeCode
<1>2. "code" \in Waiting /\ "status" \in Waiting
  BY DEF Waiting, HeadStages
<1>3. stage = "code" /\ HeadersAreTexts /\ Needs /\ ReadsResponse'
  BY <1>1, <1>2, TakenIs
<1> HIDE DEF codes
<1>4. CASE Text = <<>> \/ codes = {}
  BY <1>1, <1>3, <1>4, EndsWithout
<1>5. CASE Text # <<>> /\ codes # {}
  <2>1. stage' = "status" /\ res' = [res EXCEPT !.code = The(codes)]
    BY <1>1, <1>5
  <2>2. HeadersAreTexts' /\ Needs'
    BY <1>1, <1>3, <2>1 DEF HeadersAreTexts, Needs
  <2>3. ASSUME NEW p PROVE Understood(Here(p), Text) = Here(p)'
    <3>1. Understood(Here(p), Text) = CodeRead(Here(p), Text)
      BY <1>3 DEF Understood, Here
    <3>2. CodeRead(Here(p), Text) = [Here(p) EXCEPT !.stage = "status", !.res.code = The(codes)]
      BY <1>5 DEF CodeRead, codes
    <3> QED
      BY <1>1, <2>1, <3>1, <3>2 DEF Here
  <2> QED
    BY <1>1, <1>2, <1>3, <2>1, <2>2, <2>3, GoesOn
<1> QED
  BY <1>4, <1>5

\* A header.
LEMMA TakeHeaderStep == ASSUME RInv, TakeHeader PROVE RInv'
<1> DEFINE colon == FindIndex(Text, Colon)
           kept == {k \in colon + 2 .. Len(Text) : Text[k] \notin Blank}
           header == <<SubSeq(Text, 1, colon), SubSeq(Text, Min(kept), Len(Text))>>
<1>1. /\ Take("header") /\ Text # <<>> /\ need' = need
      /\ IF colon = -1 THEN stage' = "failed" /\ UNCHANGED res
         ELSE IF kept = {} THEN stage' = "crashed" /\ UNCHANGED res
         ELSE res' = [res EXCEPT !.headers = Append(@, header)] /\ UNCHANGED stage
  BY DEF TakeHeader
<1>2. "header" \in Waiting
  BY DEF Waiting, HeadStages
<1>3. stage = "header" /\ HeadersAreTexts /\ Needs /\ ReadsResponse' /\ Text \in Seq(Int)
  BY <1>1, <1>2, TakenIs
<1>4. CASE colon = -1 \/ kept = {}
  <2>1. stage' \in {"failed", "crashed"}
    BY <1>1, <1>4
  <2> QED
    BY <1>3, <2>1, EndsWithout
<1>5. CASE colon # -1 /\ kept # {}
  <2>1. stage' = "header" /\ res' = [res EXCEPT !.headers = Append(@, header)]
    BY <1>1, <1>3, <1>5
  <2>2. header \in Seq(Int) \X Seq(Int)
    <3>1. colon \in -1 .. Len(Text) /\ Len(Text) \in Nat
      BY <1>3, WordsAreTexts, FindIndexIn
    <3>2. kept \in SUBSET Nat /\ \A k \in kept : k >= 1
      <4> HIDE DEF colon
      <4>1. colon + 2 \in Nat /\ colon + 2 >= 1
        BY <3>1
      <4> QED
        BY <3>1, <4>1
    <3> HIDE DEF colon, kept
    <3>3. Min(kept) \in kept
      BY <1>5, <3>2, LeastIs
    <3>4. Min(kept) \in Int /\ Min(kept) >= 1 /\ colon \in Int /\ colon <= Len(Text)
      <4>1. Min(kept) \in Nat /\ Min(kept) >= 1
        BY <3>2, <3>3
      <4> QED
        BY <3>1, <4>1
    <3>5. SubSeq(Text, 1, colon) \in Seq(Int) /\ SubSeq(Text, Min(kept), Len(Text)) \in Seq(Int)
      BY <1>3, <3>1, <3>4, PartIsSeq
    <3> QED
      BY <3>5
  <2>3. HeadersAreTexts' /\ Needs'
    <3> DEFINE E == Seq(Int) \X Seq(Int)
    <3>1. "headers" \in DOMAIN res /\ res.headers \in Seq(E) /\ header \in E
      BY <1>3, <2>2 DEF HeadersAreTexts
    <3> HIDE DEF E, header
    <3>2. Append(res.headers, header) \in Seq(E)
      BY <3>1
    <3>3. "headers" \in DOMAIN res' /\ res'.headers = Append(res.headers, header)
      BY <2>1, <3>1
    <3>4. HeadersAreTexts'
      BY <3>2, <3>3 DEF HeadersAreTexts, E
    <3> QED
      BY <1>1, <1>3, <2>1, <3>4 DEF Needs
  <2>4. ASSUME NEW p PROVE Understood(Here(p), Text) = Here(p)'
    <3>1. Understood(Here(p), Text) = HeaderRead(Here(p), Text)
      BY <1>1, <1>3 DEF Understood, Here
    <3>2. HeaderRead(Here(p), Text) = [Here(p) EXCEPT !.res.headers = Append(@, header)]
      BY <1>5 DEF HeaderRead
    <3> HIDE DEF header
    <3> QED
      BY <1>1, <1>3, <2>1, <3>1, <3>2 DEF Here
  <2> QED
    BY <1>1, <1>2, <1>3, <2>1, <2>3, <2>4, GoesOn
<1> QED
  BY <1>4, <1>5

\* The end of the headers.
LEMMA EndHeadersStep == ASSUME RInv, EndHeaders PROVE RInv'
<1> DEFINE length == GetHeader(res.headers, ContentLength, NoLength)
           lengths == IF EqualsLiteral(length, NoLength) THEN {10} ELSE ParseIntIn(length, 10)
           chunked == EqualsLiteral(GetHeader(res.headers, TransferEncoding, <<120>>), Chunked)
<1>0. The({10}) = 10
  BY DEF The
<1>1. /\ Take("header") /\ Text = <<>> /\ res' = res
      /\ IF chunked THEN stage' = "size" /\ need' = need
         ELSE IF lengths = {} THEN stage' = "failed" /\ need' = need
         ELSE stage' = "content" /\ need' = The(lengths)
  BY <1>0 DEF EndHeaders
<1>2. "header" \in Waiting /\ "size" \in Waiting /\ "content" \in Waiting
  BY DEF Waiting, HeadStages, CountStages
<1>3. stage = "header" /\ HeadersAreTexts /\ Needs /\ ReadsResponse'
  BY <1>1, <1>2, TakenIs
<1>4. HeadersAreTexts'
  BY <1>1, <1>3 DEF HeadersAreTexts
<1>5. ASSUME lengths # {} PROVE The(lengths) \in Int
  <2>1. length \in Seq(Int)
    <3>1. res.headers \in Seq(Seq(Int) \X Seq(Int)) /\ NoLength \in Seq(Int)
      BY <1>3 DEF HeadersAreTexts, NoLength
    <3> QED
      BY <3>1, HeaderIsText
  <2> HIDE DEF length
  <2> QED
    BY <1>0, <1>5, <2>1, IntRead
<1>6. ASSUME NEW p
      PROVE  Understood(Here(p), Text) =
               IF chunked THEN [Here(p) EXCEPT !.stage = "size"]
               ELSE IF lengths = {} THEN Refused(Here(p))
               ELSE [Here(p) EXCEPT !.stage = "content", !.need = The(lengths)]
  <2>1. Understood(Here(p), Text) = HeadRead(Here(p)) /\ Here(p).res = res
    BY <1>1, <1>3 DEF Understood, Here
  <2> QED
    BY <2>1 DEF HeadRead
<1> HIDE DEF chunked, lengths, length
<1>7. CASE ~chunked /\ lengths = {}
  <2>1. stage' = "failed"
    BY <1>1, <1>7
  <2> QED
    BY <1>3, <2>1, EndsWithout
<1>8. CASE chunked
  <2>1. stage' = "size" /\ need' = need
    BY <1>1, <1>8
  <2>2. Needs'
    BY <1>3, <2>1 DEF Needs
  <2>3. ASSUME NEW p PROVE Understood(Here(p), Text) = Here(p)'
    BY <1>1, <1>6, <1>8, <2>1 DEF Here
  <2> QED
    BY <1>1, <1>2, <1>3, <1>4, <2>1, <2>2, <2>3, GoesOn
<1>9. CASE ~chunked /\ lengths # {}
  <2>1. stage' = "content" /\ need' = The(lengths)
    BY <1>1, <1>9
  <2>2. Needs'
    BY <1>5, <1>9, <2>1 DEF Needs
  <2>3. ASSUME NEW p PROVE Understood(Here(p), Text) = Here(p)'
    BY <1>1, <1>6, <1>9, <2>1 DEF Here
  <2> QED
    BY <1>1, <1>2, <1>3, <1>4, <2>1, <2>2, <2>3, GoesOn
<1> QED
  BY <1>7, <1>8, <1>9

\* The size of a chunk.
LEMMA TakeSizeStep == ASSUME RInv, TakeSize PROVE RInv'
<1> DEFINE semicolon == FindIndex(Text, Semicolon)
           digits == IF semicolon = -1 THEN Text ELSE SubSeq(Text, 1, semicolon)
           sizes == ParseIntIn(digits, 16)
<1>1. /\ Take("size") /\ res' = res
      /\ IF digits = <<>> THEN stage' = "crashed" /\ need' = need
         ELSE IF sizes = {} THEN stage' = "failed" /\ need' = need
         ELSE IF sizes = {0} THEN stage' = "last end" /\ need' = 2
         ELSE stage' = "chunk" /\ need' = The(sizes)
  BY DEF TakeSize
<1>2. "size" \in Waiting /\ "last end" \in Waiting /\ "chunk" \in Waiting
  BY DEF Waiting, HeadStages, CountStages
<1>3. stage = "size" /\ HeadersAreTexts /\ Needs /\ ReadsResponse' /\ Text \in Seq(Int)
  BY <1>1, <1>2, TakenIs
<1>4. HeadersAreTexts'
  BY <1>1, <1>3 DEF HeadersAreTexts
<1>5. digits \in Seq(Int)
  <2>1. semicolon \in -1 .. Len(Text) /\ Len(Text) \in Nat
    <3>1. Semicolon \in Seq(Int)
      BY DEF Semicolon
    <3> QED
      BY <1>3, <3>1, FindIndexIn
  <2> HIDE DEF semicolon
  <2>2. semicolon \in Int /\ semicolon <= Len(Text)
    BY <2>1
  <2>3. SubSeq(Text, 1, semicolon) \in Seq(Int)
    BY <1>3, <2>2, PartIsSeq
  <2> QED
    BY <1>3, <2>3
<1>6. ASSUME NEW p
      PROVE  Understood(Here(p), Text) =
               IF sizes = {} THEN Refused(Here(p))
               ELSE IF sizes = {0} THEN [Here(p) EXCEPT !.stage = "last end", !.need = 2]
               ELSE [Here(p) EXCEPT !.stage = "chunk", !.need = The(sizes)]
  <2>1. Understood(Here(p), Text) = SizeRead(Here(p), Text)
    BY <1>1, <1>3 DEF Understood, Here
  <2> QED
    BY <2>1 DEF SizeRead
<1> HIDE DEF digits
<1>7. sizes # {} => The(sizes) \in Int /\ sizes = {The(sizes)}
  BY <1>5, IntRead
<1> HIDE DEF sizes
<1>8. CASE digits = <<>> \/ sizes = {}
  <2>1. stage' \in {"failed", "crashed"}
    BY <1>1, <1>8
  <2> QED
    BY <1>3, <2>1, EndsWithout
<1>9. CASE digits # <<>> /\ sizes = {0}
  <2>1. stage' = "last end" /\ need' = 2
    BY <1>1, <1>9
  <2>2. Needs'
    <3>1. stage' # "chunk" /\ need' = 2
      BY <2>1, Zenon
    <3>2. need' \in Int
      <4>1. need' = 2
        BY <3>1, Zenon
      <4> QED
        BY <4>1
    <3> QED
      BY <3>1, <3>2, Zenon DEF Needs
  <2>3. ASSUME NEW p PROVE Understood(Here(p), Text) = Here(p)'
    BY <1>1, <1>6, <1>9, <2>1 DEF Here
  <2> QED
    BY <1>1, <1>2, <1>3, <1>4, <2>1, <2>2, <2>3, GoesOn
<1>10. CASE digits # <<>> /\ sizes # {} /\ sizes # {0}
  <2>1. stage' = "chunk" /\ need' = The(sizes)
    BY <1>1, <1>10
  <2>2. Needs'
    BY <1>7, <1>10, <2>1 DEF Needs
  <2>3. ASSUME NEW p PROVE Understood(Here(p), Text) = Here(p)'
    <3>1. Understood(Here(p), Text) =
            [Here(p) EXCEPT !.stage = "chunk", !.need = The(sizes)]
      BY <1>6, <1>10
    <3> QED
      BY <1>1, <2>1, <3>1 DEF Here
  <2> QED
    BY <1>1, <1>2, <1>3, <1>4, <2>1, <2>2, <2>3, GoesOn
<1> QED
  BY <1>8, <1>9, <1>10

-----------------------------------------------------------------------------
(* The response.                                                           *)

\* The invariant is inductive, as long as the lines come whole.
LEMMA NextRInv == RInv /\ HeadsWhole' /\ [Next]_vars => RInv'
<1> SUFFICES ASSUME RInv, HeadsWhole', [Next]_vars PROVE RInv'
  OBVIOUS
<1>1. CASE Write \/ UNCHANGED vars
  <2>1. UNCHANGED <<exchange, reader, stage, parser, res>>
    BY <1>1 DEF Write, WriteSome, vars
  <2> QED
    BY <2>1, Untouched
<1>2. CASE ReadUrl \/ Resolved \/ Connected \/ ShookHands \/ OpeningWritten \/ CallFails
  BY <1>2, StepsBefore
<1>3. CASE ClosingWritten
  BY <1>3, ResponseBegins
<1>4. CASE FromMemory \/ SocketAnswers
  BY <1>4, AnswerSteps
<1>5. CASE AskSocket \/ SocketFails \/ Throws \/ NeedsMore
  BY <1>5, AskSocketStep, SocketFailsStep, ThrowsStep, NeedsMoreStep
<1>6. CASE TakeProtocol \/ TakeVersion \/ TakeStatus \/ TakeChunk \/ TakeChunkEnd
  BY <1>6, PlainSteps
<1>7. CASE TakeLastEnd \/ TakeContent
  BY <1>7, LastSteps
<1>8. CASE TakeCode \/ TakeHeader \/ EndHeaders \/ TakeSize
  BY <1>8, TakeCodeStep, TakeHeaderStep, EndHeadersStep, TakeSizeStep
<1> QED
  BY <1>1, <1>2, <1>3, <1>4, <1>5, <1>6, <1>7, <1>8 DEF Next, Proceed, Parse

\* It holds at the start.
LEMMA InitRInv == Init => RInv
<1> SUFFICES ASSUME Init PROVE RInv
  OBVIOUS
<1>1. exchange \in Exchanges /\ R!Empty(exchange.bytes) /\ stage = "start" /\ found = Nothing
      /\ current = <<>> /\ ~late /\ need = 0 /\ res = NoResponse
  BY DEF Init
<1>2. ReadsResponse /\ R!Position = 0
  BY <1>1, ReaderStarts
<1>3. Unused
  BY <1>1, <1>2 DEF Unused
<1>4. stage \notin Waiting /\ stage # "done"
  BY <1>1 DEF Waiting, HeadStages, CountStages
<1> QED
  BY <1>2, <1>3, <1>4 DEF RInv

\* What is read when the response is complete is what the exchange means.
LEMMA RInvSuffices == RInv => ResponseExact
<1> SUFFICES ASSUME RInv, stage = "done"
             PROVE  res = exchange.means /\ R!Position = exchange.length
  BY DEF ResponseExact
<1>1. ReadsResponse /\ Complete
  BY DEF RInv
<1>2. PICK t \in Seq(Int) : t = exchange.bytes
  BY <1>1, PositionIs
<1>3. PICK x \in Nat : x = R!Position /\ x \in 0 .. Len(t)
  BY <1>1, <1>2, PositionIs
<1>4. PICK k \in 0 .. x + 1 : Readings(t)[k] = Here(x)
  BY <1>1, <1>2, <1>3 DEF Complete
<1>5. k \in 0 .. Len(t) + 1
  <2>1. Len(t) \in Nat
    BY LenProperties
  <2> QED
    BY <1>3, <1>4, <2>1
<1>6. Here(x).stage = "done" /\ Here(x).res = res /\ Here(x).pos = x
  BY DEF Here
<1>7. Read(t) = Here(x)
  BY <1>4, <1>5, <1>6, EndStays
<1>8. exchange \in Exchanges
  BY <1>1 DEF ReadsResponse
<1> QED
  BY <1>2, <1>3, <1>6, <1>7, <1>8, MeaningAssumption

\* A response that is read to its end is what its bytes mean, and what follows
\* it is left to be read: for any exchanges, sizes of buffers and reads, as
\* long as no line of the head, and no size of a chunk, comes in parts.
\* http_split shows what parser::read_up_to() does to a line that is cut.
THEOREM ResponseIsExact == Spec /\ []HeadsWhole => []ResponseExact
<1>1. Init => RInv
  BY InitRInv
<1>2. RInv /\ HeadsWhole' /\ [Next]_vars => RInv'
  BY NextRInv
<1>3. RInv => ResponseExact
  BY RInvSuffices
<1> QED
  BY <1>1, <1>2, <1>3, PTL DEF Spec
=============================================================================
