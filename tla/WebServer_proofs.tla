--------------------------- MODULE WebServer_proofs ---------------------------
(***************************************************************************)
(* Proofs about WebServer, for any finite set of connections, any length   *)
(* of a response and any number of reads, with and without failures.       *)
(***************************************************************************)
EXTENDS WebServer, FiniteSetTheorems, TLAPS

\* The chains handle_connection() started that have not run their last then().
Owed == {c \in Conn : ~Free(c)}

\* The last accept: it is pending, or it failed and had no successor.
LastAccept == {"accepting", "refused"}

\* do_accept() is called once per accept and not after a failed one, so there
\* are never two last ones.
OnlyOne == \A c, d \in Conn :
  conn[c] \in LastAccept /\ conn[d] \in LastAccept => c = d

\* Without a last accept the server is closing, or never listened.
LoopAlive ==
  Running /\ ~shutting => \E c \in Conn : conn[c] \in LastAccept

\* Nothing has happened before start_listening().
NotYet == phase = "starting" =>
  ~shutting /\ \A c \in Conn : conn[c] = "none"

CountOK == outstanding = Cardinality(Owed)

\* The inductive invariant.
IInv == TypeOK /\ CountOK /\ OnlyOne /\ LoopAlive /\ NotYet

-----------------------------------------------------------------------------
(* Counting.                                                               *)

(* The count is a natural number, and positive while anyone is owed.       *)
LEMMA OwedIsFinite ==
  /\ IsFiniteSet(Owed) /\ Cardinality(Owed) \in Nat
  /\ \A c \in Conn : ~Free(c) => Cardinality(Owed) > 0
<1>1. Owed \subseteq Conn /\ IsFiniteSet(Conn)
  BY ServerAssumption DEF Owed
<1>2. IsFiniteSet(Owed)
  BY <1>1, FS_Subset
<1>3. Cardinality(Owed) \in Nat /\ (Cardinality(Owed) = 0 <=> Owed = {})
  BY <1>2, FS_CardinalityType, FS_EmptySet
<1>4. ASSUME NEW c \in Conn, ~Free(c) PROVE Owed # {}
  BY <1>4 DEF Owed
<1> QED
  BY <1>2, <1>3, <1>4

(* A chain that starts adds one to the count.                              *)
LEMMA OwedGrows ==
  ASSUME NEW d \in Conn, Free(d), ~Free(d)',
         \A x \in Conn \ {d} : Free(x)' <=> Free(x)
  PROVE  Cardinality(Owed') = Cardinality(Owed) + 1
<1>1. Owed' = Owed \cup {d} /\ d \notin Owed
  BY DEF Owed
<1> QED
  BY <1>1, OwedIsFinite, FS_AddElement

(* A chain that ends with its last then() takes one off.                   *)
LEMMA OwedShrinks ==
  ASSUME NEW d \in Conn, ~Free(d), Free(d)',
         \A x \in Conn \ {d} : Free(x)' <=> Free(x)
  PROVE  Cardinality(Owed') = Cardinality(Owed) - 1
<1>1. Owed' = Owed \ {d} /\ d \in Owed
  BY DEF Owed
<1> QED
  BY <1>1, OwedIsFinite, FS_RemoveElement

(* Anything else leaves it alone.                                          *)
LEMMA OwedStays ==
  ASSUME \A x \in Conn : Free(x)' <=> Free(x)
  PROVE  Cardinality(Owed') = Cardinality(Owed)
<1>1. Owed' = Owed
  BY DEF Owed
<1> QED
  BY <1>1

-----------------------------------------------------------------------------
(* The invariant.                                                          *)

(* The server has not been asked for anything in its initial state.        *)
LEMMA InitHolds == Init => IInv
<1> SUFFICES ASSUME Init PROVE IInv
  OBVIOUS
<1>1. Owed = {}
  BY DEF Init, Owed, Free
<1>2. Cardinality(Owed) = 0
  BY <1>1, FS_EmptySet
<1>3. TypeOK
  <2>1. 0 \in 0..MaxReads /\ 0 \in 0..Size
    BY ServerAssumption
  <2>2. /\ conn \in [Conn -> ConnState] /\ reads \in [Conn -> 0..MaxReads]
        /\ offset \in [Conn -> 0..Size]
    BY <2>1 DEF Init, ConnState
  <2> QED
    BY <2>2 DEF Init, TypeOK
<1>4. CountOK
  BY <1>2 DEF Init, CountOK
<1>5. OnlyOne /\ LoopAlive /\ NotYet
  BY DEF Init, OnlyOne, LastAccept, LoopAlive, NotYet, Running
<1> QED
  BY <1>3, <1>4, <1>5 DEF IInv

(* do_accept() for the first time.                                         *)
LEMMA ListenHolds ==
  ASSUME IInv, NEW c \in Conn, Listen(c)
  PROVE  IInv'
<1>1. TypeOK /\ CountOK /\ NotYet
  BY DEF IInv
<1>2. \A x \in Conn : conn'[x] = IF x = c THEN "accepting" ELSE conn[x]
  BY <1>1 DEF Listen, TypeOK
<1>3. Cardinality(Owed') = Cardinality(Owed) + 1
  <2>1. Free(c) /\ ~Free(c)' /\ \A x \in Conn \ {c} : Free(x)' <=> Free(x)
    BY <1>2 DEF Listen, Free
  <2> QED
    BY <2>1, OwedGrows
<1>4. TypeOK' /\ CountOK'
  BY <1>1, <1>3, OwedIsFinite DEF Listen, TypeOK, ConnState, CountOK
<1>5. OnlyOne' /\ LoopAlive' /\ NotYet'
  BY <1>1, <1>2 DEF Listen, OnlyOne, LastAccept, LoopAlive, NotYet, Running
<1> QED
  BY <1>4, <1>5 DEF IInv

(* The accept loop: serving c and accepting d.                             *)
LEMMA AcceptedHolds ==
  ASSUME IInv, NEW c \in Conn, NEW d \in Conn, Running, Accepted(c, d)
  PROVE  IInv'
<1>1. TypeOK /\ CountOK /\ OnlyOne
  BY DEF IInv
<1>2. c # d
  BY DEF Accepted, Free
<1>3. \A x \in Conn : conn'[x] = IF x = d THEN "accepting"
                                 ELSE IF x = c THEN "reading" ELSE conn[x]
  BY <1>1, <1>2 DEF Accepted, TypeOK
<1>4. Cardinality(Owed') = Cardinality(Owed) + 1
  <2>1. Free(d) /\ ~Free(d)'
    BY <1>3 DEF Accepted, Free
  <2>2. ~Free(c) /\ ~Free(c)'
    <3>1. conn[c] = "accepting" /\ conn'[c] = "reading"
      BY <1>2, <1>3 DEF Accepted
    <3> QED
      BY <3>1 DEF Free
  <2>3. \A x \in Conn \ {d} : Free(x)' <=> Free(x)
    BY <1>3, <2>2 DEF Free
  <2> QED
    BY <2>1, <2>3, OwedGrows
<1>5. TypeOK'
  <2>1. conn' \in [Conn -> ConnState]
    BY <1>1, <1>2 DEF Accepted, TypeOK, ConnState
  <2>2. reads' \in [Conn -> 0..MaxReads]
    BY <1>1, ServerAssumption DEF Accepted, TypeOK
  <2> QED
    BY <1>1, <2>1, <2>2 DEF Accepted, TypeOK
<1>6. CountOK'
  BY <1>1, <1>4 DEF Accepted, CountOK
<1>7. OnlyOne'
  BY <1>1, <1>3 DEF Accepted, OnlyOne, LastAccept
<1>8. LoopAlive' /\ NotYet'
  BY <1>3 DEF Accepted, LoopAlive, LastAccept, NotYet, Running
<1> QED
  BY <1>5, <1>6, <1>7, <1>8 DEF IInv

(* What a step of one chain does to the invariant when the chain stays     *)
(* outstanding and only a pending accept may become the one that failed.   *)
LEMMA ChainGoesOn ==
  ASSUME IInv, Running, NEW c \in Conn, NEW s \in ConnState,
         conn[c] \in {"accepting", "reading", "sending"},
         s \in {"reading", "sending", "refused", "failed", "dropped"},
         s = "refused" => conn[c] = "accepting",
         conn' = [conn EXCEPT ![c] = s], outstanding' = outstanding
  PROVE  /\ conn' \in [Conn -> ConnState] /\ CountOK' /\ OnlyOne'
         /\ conn[c] # "accepting" \/ s = "refused" =>
              \A x \in Conn : conn'[x] \in LastAccept <=> conn[x] \in LastAccept
<1>1. TypeOK /\ CountOK /\ OnlyOne
  BY DEF IInv
<1>2. \A x \in Conn : conn'[x] = IF x = c THEN s ELSE conn[x]
  BY <1>1 DEF TypeOK
<1>3. Cardinality(Owed') = Cardinality(Owed)
  <2>1. \A x \in Conn : Free(x)' <=> Free(x)
    BY <1>2 DEF Free
  <2> QED
    BY <2>1, OwedStays
<1> QED
  BY <1>1, <1>2, <1>3 DEF TypeOK, CountOK, OnlyOne, LastAccept

(* An accept that ends without a successor: after a failure, or after      *)
(* shutdown.                                                               *)
LEMMA AcceptEndsHolds ==
  ASSUME IInv, NEW c \in Conn, Running,
         AcceptFails(c) \/ AcceptAfterShutdown(c)
  PROVE  IInv'
<1>1. TypeOK /\ LoopAlive
  BY DEF IInv
<1>2. \E s \in {"refused", "dropped"} : conn' = [conn EXCEPT ![c] = s]
  BY DEF AcceptFails, Fail, AcceptAfterShutdown
<1>3. conn[c] = "accepting" /\ outstanding' = outstanding
  BY DEF AcceptFails, AcceptAfterShutdown
<1>4. conn' \in [Conn -> ConnState] /\ CountOK' /\ OnlyOne'
  BY <1>2, <1>3, ChainGoesOn DEF ConnState
<1>5. TypeOK'
  BY <1>1, <1>4 DEF AcceptFails, Fail, AcceptAfterShutdown, TypeOK
<1>6. LoopAlive' /\ NotYet'
  BY <1>1
     DEF AcceptFails, Fail, AcceptAfterShutdown, LoopAlive, LastAccept, NotYet,
         Running, TypeOK
<1> QED
  BY <1>4, <1>5, <1>6 DEF IInv

(* Reading, routing, /terminate and the failures of a connection.          *)
LEMMA ServeHolds ==
  ASSUME IInv, NEW c \in Conn, Running,
         \/ ReadMore(c) \/ Request(c) \/ RequestTerminate(c)
         \/ RequestTerminateAgain(c) \/ ReadOrRouteFails(c) \/ SendFails(c)
  PROVE  IInv'
<1>1. TypeOK /\ CountOK /\ OnlyOne /\ LoopAlive
  BY DEF IInv
<1>2. conn[c] \in {"reading", "sending"} /\ outstanding' = outstanding
  BY DEF ReadMore, Request, RequestTerminate, RequestTerminateAgain,
         ReadOrRouteFails, SendFails
<1>3. \E s \in {"reading", "sending", "failed"} : conn' = [conn EXCEPT ![c] = s]
  <2>1. conn = [conn EXCEPT ![c] = conn[c]]
    BY <1>1 DEF TypeOK
  <2> QED
    BY <1>2, <2>1
       DEF ReadMore, Request, RequestTerminate, RequestTerminateAgain,
           ReadOrRouteFails, SendFails, SendResponse, Fail
<1>4. /\ conn' \in [Conn -> ConnState] /\ CountOK' /\ OnlyOne'
      /\ \A x \in Conn : conn'[x] \in LastAccept <=> conn[x] \in LastAccept
  BY <1>2, <1>3, ChainGoesOn DEF ConnState
<1>5. reads' \in [Conn -> 0..MaxReads] /\ offset' \in [Conn -> 0..Size]
  BY <1>1, ServerAssumption
     DEF ReadMore, Request, RequestTerminate, RequestTerminateAgain,
         ReadOrRouteFails, SendFails, SendResponse, TypeOK
<1>6. TypeOK'
  <2>1. /\ shutting' \in BOOLEAN /\ finished' \in BOOLEAN /\ deleted' \in BOOLEAN
        /\ terminate' \in {"armed", "used"}
    BY <1>1
       DEF ReadMore, Request, RequestTerminate, RequestTerminateAgain,
           ReadOrRouteFails, SendFails, FinishOutstanding, TypeOK
  <2>2. /\ phase' \in {"starting", "listening", "deaf", "returned", "threw", "aborted"}
        /\ reported' \in Nat
    BY <1>1
       DEF ReadMore, Request, RequestTerminate, RequestTerminateAgain,
           ReadOrRouteFails, SendFails, Fail, TypeOK
  <2> QED
    BY <1>1, <1>2, <1>4, <1>5, <2>1, <2>2 DEF TypeOK
<1>7. LoopAlive' /\ NotYet'
  BY <1>1, <1>4
     DEF ReadMore, Request, RequestTerminate, RequestTerminateAgain,
         ReadOrRouteFails, SendFails, SendResponse, Fail, FinishOutstanding,
         LoopAlive, NotYet, Running, TypeOK
<1> QED
  BY <1>4, <1>6, <1>7 DEF IInv

(* A write completes, the last one of a response or not.                   *)
LEMMA SentHolds ==
  ASSUME IInv, NEW c \in Conn, NEW n \in 1..Size, Running, Sent(c, n)
  PROVE  IInv'
<1>1. TypeOK /\ CountOK /\ OnlyOne /\ LoopAlive
  BY DEF IInv
<1>2. offset' \in [Conn -> 0..Size]
  <2>1. offset[c] \in 0..Size /\ n \in 1..(Size - offset[c])
    BY <1>1 DEF Sent, TypeOK
  <2>2. offset[c] + n \in 0..Size
    BY <2>1, ServerAssumption
  <2> QED
    BY <1>1, <2>2 DEF Sent, TypeOK
<1>3. CASE offset[c] + n = Size
  <2>1. /\ conn' = [conn EXCEPT ![c] = "done"] /\ FinishOne
        /\ conn[c] = "sending"
    BY <1>3 DEF Sent
  <2>2. \A x \in Conn : conn'[x] = IF x = c THEN "done" ELSE conn[x]
    BY <1>1, <2>1 DEF TypeOK
  <2>3. /\ Cardinality(Owed') = Cardinality(Owed) - 1
        /\ Cardinality(Owed) \in Nat /\ Cardinality(Owed) > 0
    <3>1. ~Free(c) /\ Free(c)' /\ \A x \in Conn \ {c} : Free(x)' <=> Free(x)
      BY <2>1, <2>2 DEF Free
    <3> QED
      BY <3>1, OwedShrinks, OwedIsFinite
  <2>4. CountOK' /\ outstanding' \in Nat
    BY <1>1, <2>1, <2>3 DEF CountOK, FinishOne
  <2>5. TypeOK'
    BY <1>1, <1>2, <2>1, <2>4 DEF Sent, FinishOne, TypeOK, ConnState
  <2>6. OnlyOne' /\ LoopAlive' /\ NotYet'
    BY <1>1, <2>1, <2>2 DEF Sent, OnlyOne, LoopAlive, LastAccept, NotYet, Running
  <2> QED
    BY <2>4, <2>5, <2>6 DEF IInv
<1>4. CASE offset[c] + n # Size
  <2>1. UNCHANGED <<conn, outstanding, finished, deleted>>
    BY <1>4 DEF Sent
  <2>2. CountOK'
    BY <1>1, <2>1 DEF CountOK, Owed, Free
  <2> QED
    BY <1>1, <1>2, <2>1, <2>2
       DEF Sent, IInv, TypeOK, OnlyOne, LoopAlive, NotYet, Running
<1> QED
  BY <1>3, <1>4

(* A failed start and the end of run().                                    *)
LEMMA PhaseHolds ==
  ASSUME IInv, ListenFails \/ RunReturns \/ UNCHANGED vars
  PROVE  IInv'
<1>1. TypeOK /\ CountOK /\ OnlyOne /\ LoopAlive /\ NotYet
  BY DEF IInv
<1>2. conn' = conn /\ outstanding' = outstanding /\ shutting' = shutting
  BY DEF ListenFails, RunReturns, vars
<1>3. CountOK' /\ OnlyOne'
  BY <1>1, <1>2 DEF CountOK, Owed, Free, OnlyOne
<1>4. TypeOK'
  BY <1>1 DEF ListenFails, RunReturns, vars, TypeOK
<1>5. LoopAlive' /\ NotYet'
  BY <1>1, <1>2
     DEF ListenFails, RunReturns, vars, LoopAlive, NotYet, Running, TypeOK
<1> QED
  BY <1>3, <1>4, <1>5 DEF IInv

(* Every step of the server preserves the invariant.                       *)
LEMMA StepHolds == IInv /\ [Next]_vars => IInv'
<1> SUFFICES ASSUME IInv, [Next]_vars PROVE IInv'
  OBVIOUS
<1>1. ASSUME NEW c \in Conn, Listen(c) PROVE IInv'
  BY <1>1, ListenHolds
<1>2. ASSUME NEW c \in Conn, Answer(c) PROVE IInv'
  <2>1. CASE \E n \in 1..Size : Sent(c, n)
    BY <1>2, <2>1, SentHolds DEF Answer
  <2>2. CASE AcceptAfterShutdown(c)
    BY <1>2, <2>2, AcceptEndsHolds DEF Answer
  <2> QED
    BY <1>2, <2>1, <2>2, ServeHolds DEF Answer
<1>3. ASSUME NEW c \in Conn, Accept(c) PROVE IInv'
  BY <1>3, AcceptEndsHolds, AcceptedHolds DEF Accept
<1>4. CASE ListenFails \/ RunReturns \/ Ended \/ UNCHANGED vars
  BY <1>4, PhaseHolds DEF Ended
<1> QED
  BY <1>1, <1>2, <1>3, <1>4 DEF Next

-----------------------------------------------------------------------------
(* What is listed.                                                         *)

(* The accept loop, the connections and the count of webserver.hpp keep    *)
(* their inductive invariant under every completion.                       *)
THEOREM ServerConsistent == Spec => []IInv
<1> QED
  BY InitHolds, StepHolds, PTL DEF Spec

(* Phases, stages, offsets and counters stay in their types: the count of  *)
(* outstanding requests never wraps below zero.                            *)
THEOREM ServerTyped == Spec => []TypeOK
<1>1. IInv => TypeOK
  BY DEF IInv
<1> QED
  BY <1>1, ServerConsistent, PTL

(* outstanding_requests_ is exact about every chain that was started and   *)
(* has not run its last then().                                            *)
THEOREM CountsOutstanding == Spec => []OutstandingExact
<1>1. IInv => OutstandingExact
  <2> SUFFICES ASSUME IInv PROVE OutstandingExact
    OBVIOUS
  <2>1. Owed = In("refused") \cup In("failed") \cup In("dropped") \cup Pending
    BY DEF IInv, TypeOK, ConnState, Owed, Free, In, Pending
  <2> QED
    BY <2>1 DEF IInv, CountOK, OutstandingExact
<1> QED
  BY <1>1, ServerConsistent, PTL

(* One accept is pending at a time, and the server that listens is never   *)
(* without one before its shutdown, unless an accept failed: a connection, *)
(* served or failed, never ends the loop.                                  *)
THEOREM AcceptsOne == Spec => []OneAccept
<1>1. IInv => OneAccept
  <2> SUFFICES ASSUME IInv PROVE OneAccept
    OBVIOUS
  <2> DEFINE last == In("accepting") \cup In("refused")
  <2>1. Cardinality(last) <= 1
    <3>1. CASE last = {}
      BY <3>1, FS_EmptySet
    <3>2. CASE last # {}
      <4>1. PICK c : c \in last
        BY <3>2
      <4>2. last = {c}
        BY <4>1 DEF IInv, OnlyOne, LastAccept, In
      <4> QED
        BY <4>2, FS_Singleton
    <3> QED
      BY <3>1, <3>2
  <2>2. Running /\ ~shutting => last # {}
    BY DEF IInv, LoopAlive, LastAccept, In
  <2> QED
    BY <2>1, <2>2 DEF OneAccept
<1> QED
  BY <1>1, ServerConsistent, PTL

(* A connection only goes through the stages in their order, and is done   *)
(* only with every byte of its response written.                           *)
THEOREM StagesAdvance == Spec => StagesInOrder
<1> DEFINE Stage(c) ==
      conn'[c] # conn[c] =>
       \/ conn'[c] = "accepting" /\ Free(c)
       \/ conn'[c] = "reading" /\ conn[c] = "accepting"
       \/ conn'[c] = "sending" /\ conn[c] = "reading" /\ offset'[c] = 0
       \/ conn'[c] = "done" /\ conn[c] = "sending" /\ offset'[c] = Size
       \/ conn'[c] = "refused" /\ conn[c] = "accepting" /\ reported' = reported + 1
       \/ /\ conn'[c] = "failed" /\ conn[c] \in {"reading", "sending"}
          /\ reported' = reported + 1
       \/ conn'[c] = "dropped" /\ conn[c] = "accepting" /\ shutting
<1>1. ASSUME TypeOK, [Next]_vars, NEW x \in Conn PROVE Stage(x)
  <2>1. ASSUME NEW c \in Conn, Listen(c) PROVE Stage(x)
    BY <1>1, <2>1 DEF Listen, TypeOK
  <2>2. ASSUME NEW c \in Conn, Accept(c) PROVE Stage(x)
    <3>1. CASE AcceptFails(c)
      BY <1>1, <3>1 DEF AcceptFails, Fail, TypeOK
    <3>2. ASSUME NEW d \in Conn, Accepted(c, d) PROVE Stage(x)
      <4>1. c # d
        BY <3>2 DEF Accepted, Free
      <4>2. conn'[x] = IF x = d THEN "accepting"
                       ELSE IF x = c THEN "reading" ELSE conn[x]
        BY <1>1, <3>2, <4>1 DEF Accepted, TypeOK
      <4> QED
        BY <3>2, <4>2 DEF Accepted
    <3> QED
      BY <2>2, <3>1, <3>2 DEF Accept
  <2>3. ASSUME NEW c \in Conn, Answer(c) PROVE Stage(x)
    <3>1. CASE ReadMore(c) \/ RequestTerminateAgain(c)
      BY <3>1 DEF ReadMore, RequestTerminateAgain
    <3>2. CASE Request(c) \/ RequestTerminate(c)
      BY <1>1, <3>2 DEF Request, RequestTerminate, SendResponse, TypeOK
    <3>3. CASE ReadOrRouteFails(c) \/ SendFails(c)
      BY <1>1, <3>3 DEF ReadOrRouteFails, SendFails, Fail, TypeOK
    <3>4. CASE AcceptAfterShutdown(c)
      BY <1>1, <3>4 DEF AcceptAfterShutdown, TypeOK
    <3>5. ASSUME NEW n \in 1..Size, Sent(c, n) PROVE Stage(x)
      <4>1. CASE offset[c] + n = Size
        BY <1>1, <3>5, <4>1 DEF Sent, TypeOK
      <4>2. CASE offset[c] + n # Size
        BY <3>5, <4>2 DEF Sent
      <4> QED
        BY <4>1, <4>2
    <3> QED
      BY <2>3, <3>1, <3>2, <3>3, <3>4, <3>5 DEF Answer
  <2>4. CASE ListenFails \/ RunReturns \/ Ended \/ UNCHANGED vars
    BY <2>4 DEF ListenFails, RunReturns, Ended, vars
  <2> QED
    BY <1>1, <2>1, <2>2, <2>3, <2>4 DEF Next
<1>2. TypeOK /\ [Next]_vars => [\A c \in Conn : Stage(c)]_vars
  BY <1>1
<1> QED
  BY <1>2, ServerTyped, PTL DEF Spec, StagesInOrder

(* Once shutting_down_ is set nothing new is taken on: every step leaves   *)
(* as many operations pending or fewer, so run() has a finite way to go.   *)
THEOREM Drains == Spec => ShutdownDrains
<1>1. ASSUME IInv, [Next]_vars, shutting
      PROVE  shutting' /\ Cardinality(Pending') <= Cardinality(Pending)
  <2>0. TypeOK /\ NotYet
    BY <1>1 DEF IInv
  <2>1. shutting' /\ Pending' \subseteq Pending
    <3>1. ASSUME NEW c \in Conn, Listen(c)
          PROVE  shutting' /\ Pending' \subseteq Pending
      BY <1>1, <2>0, <3>1 DEF Listen, NotYet
    <3>2. ASSUME NEW c \in Conn, Accept(c)
          PROVE  shutting' /\ Pending' \subseteq Pending
      BY <1>1, <3>2 DEF Accept, AcceptFails, Accepted
    <3>3. ASSUME NEW c \in Conn, Answer(c)
          PROVE  shutting' /\ Pending' \subseteq Pending
      <4>1. shutting'
        BY <1>1, <3>3
           DEF Answer, ReadMore, Request, RequestTerminate, FinishOutstanding,
               RequestTerminateAgain, ReadOrRouteFails, SendFails, Sent,
               AcceptAfterShutdown
      <4>2. /\ c \in Pending
            /\ conn' = conn \/ \E s \in ConnState : conn' = [conn EXCEPT ![c] = s]
        BY <3>3
           DEF Answer, ReadMore, Request, RequestTerminate, SendResponse,
               RequestTerminateAgain, ReadOrRouteFails, SendFails, Fail, Sent,
               AcceptAfterShutdown, Pending, In, ConnState
      <4>3. \A x \in Conn : x # c => conn'[x] = conn[x]
        BY <2>0, <4>2 DEF TypeOK
      <4> QED
        BY <4>1, <4>2, <4>3 DEF Pending, In
    <3>4. CASE ListenFails \/ RunReturns \/ Ended \/ UNCHANGED vars
      BY <1>1, <3>4 DEF ListenFails, RunReturns, Ended, vars, Pending, In
    <3> QED
      BY <1>1, <3>1, <3>2, <3>3, <3>4 DEF Next
  <2>2. IsFiniteSet(Pending)
    <3>1. Pending \subseteq Conn
      BY DEF Pending, In
    <3> QED
      BY <3>1, ServerAssumption, FS_Subset
  <2> QED
    BY <2>1, <2>2, FS_Subset
<1>2. IInv /\ [Next]_vars =>
        [shutting => shutting' /\ Cardinality(Pending') <= Cardinality(Pending)]_vars
  BY <1>1
<1> QED
  BY <1>2, ServerConsistent, PTL DEF Spec, ShutdownDrains
=============================================================================
