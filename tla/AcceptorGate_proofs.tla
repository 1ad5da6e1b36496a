------------------------- MODULE AcceptorGate_proofs -------------------------
(***************************************************************************)
(* Proofs about AcceptorGate, for any finite set of accepts and for either *)
(* answer of need_preempt().                                               *)
(***************************************************************************)
EXTENDS AcceptorGate, FiniteSetTheorems, TLAPS

(* What the count of pending accepts is after one starts or completes.     *)
LEMMA WaitingCounts ==
  ASSUME TypeOK, NEW o \in Op, NEW s \in {"none", "waiting", "handling", "resolved"},
         op' = [op EXCEPT ![o] = s]
  PROVE  /\ Cardinality(Waiting) \in Nat
         /\ Cardinality(Waiting) = 0 <=> Waiting = {}
         /\ op[o] = "waiting" /\ s # "waiting" =>
              Cardinality(Waiting') = Cardinality(Waiting) - 1
         /\ op[o] # "waiting" /\ s = "waiting" =>
              Cardinality(Waiting') = Cardinality(Waiting) + 1
         /\ op[o] # "waiting" /\ s # "waiting" => Waiting' = Waiting
         /\ op' \in [Op -> {"none", "waiting", "handling", "resolved"}]
<1>1. Waiting \subseteq Op /\ IsFiniteSet(Op)
  BY GateAssumption DEF Waiting
<1>2. IsFiniteSet(Waiting)
  BY <1>1, FS_Subset
<1>3. /\ Cardinality(Waiting) \in Nat
      /\ Cardinality(Waiting) = 0 <=> Waiting = {}
  BY <1>2, FS_CardinalityType, FS_EmptySet
<1>4. \A x \in Op : op'[x] = IF x = o THEN s ELSE op[x]
  BY DEF TypeOK
<1>5. CASE op[o] = "waiting" /\ s # "waiting"
  <2>1. Waiting' = Waiting \ {o} /\ o \in Waiting
    BY <1>4, <1>5 DEF Waiting
  <2> QED
    BY <1>2, <1>3, <1>5, <2>1, FS_RemoveElement DEF TypeOK
<1>6. CASE op[o] # "waiting" /\ s = "waiting"
  <2>1. Waiting' = Waiting \cup {o} /\ o \notin Waiting
    BY <1>4, <1>6 DEF Waiting
  <2> QED
    BY <1>2, <1>3, <1>6, <2>1, FS_AddElement DEF TypeOK
<1>7. CASE op[o] # "waiting" /\ s # "waiting"
  <2>1. Waiting' = Waiting
    BY <1>4, <1>7 DEF Waiting
  <2> QED
    BY <1>3, <1>7, <2>1 DEF TypeOK
<1>8. CASE op[o] = "waiting" /\ s = "waiting"
  BY <1>3, <1>8 DEF TypeOK
<1> QED
  BY <1>5, <1>6, <1>7, <1>8

(* Nothing but the handlers and accept() changes the pending accepts.      *)
LEMMA WaitingStays ==
  ASSUME IInv, op' = op
  PROVE  /\ Waiting' = Waiting /\ Cardinality(Waiting) \in Nat
         /\ Cardinality(Waiting) = 0 <=> Waiting = {}
<1>1. Waiting \subseteq Op /\ IsFiniteSet(Op)
  BY GateAssumption DEF Waiting
<1>2. IsFiniteSet(Waiting)
  BY <1>1, FS_Subset
<1> QED
  BY <1>2, FS_CardinalityType, FS_EmptySet DEF Waiting

(* The initial state of the gate satisfies the invariant.                  *)
LEMMA InitHolds == Init => IInv
<1> SUFFICES ASSUME Init PROVE IInv
  OBVIOUS
<1>1. Waiting = {}
  BY DEF Init, Waiting
<1>2. Cardinality(Waiting) = 0
  BY <1>1, FS_EmptySet
<1> QED
  BY <1>1, <1>2 DEF Init, IInv, TypeOK, CountExact, ClosedWhenEmpty,
                    TaskFollowsGate, NoDanglingGate

(* Every step of the acceptor, its handlers and its owner preserves it.    *)
LEMMA StepHolds == IInv /\ [Next]_vars => IInv'
<1> SUFFICES ASSUME IInv, [Next]_vars PROVE IInv'
  OBVIOUS
<1>0. /\ TypeOK /\ CountExact /\ ClosedWhenEmpty /\ TaskFollowsGate
      /\ NoDanglingGate
  BY DEF IInv
<1>1. ASSUME NEW o \in Op, Accept(o) PROVE IInv'
  <2>1. /\ Cardinality(Waiting) \in Nat
        /\ Cardinality(Waiting') = Cardinality(Waiting) + 1
        /\ op' \in [Op -> {"none", "waiting", "handling", "resolved"}]
    BY <1>0, <1>1, WaitingCounts DEF Accept
  <2>2. TypeOK' /\ CountExact'
    BY <1>0, <1>1, <2>1 DEF Accept, TypeOK, CountExact
  <2>3. ClosedWhenEmpty' /\ TaskFollowsGate' /\ NoDanglingGate'
    BY <1>0, <1>1, <2>1
       DEF Accept, TypeOK, CountExact, ClosedWhenEmpty, TaskFollowsGate,
           NoDanglingGate
  <2> QED
    BY <2>2, <2>3 DEF IInv
<1>2. ASSUME NEW o \in Op, HandlerDec(o) PROVE IInv'
  <2>1. /\ Cardinality(Waiting) \in Nat
        /\ Cardinality(Waiting) = 0 <=> Waiting = {}
        /\ Cardinality(Waiting') = Cardinality(Waiting) - 1
        /\ op' \in [Op -> {"none", "waiting", "handling", "resolved"}]
    BY <1>0, <1>2, WaitingCounts DEF HandlerDec
  <2>2. o \in Waiting /\ Waiting # {}
    BY <1>2 DEF HandlerDec, Waiting
  <2>3. count \in Nat \ {0} /\ count' = count - 1 /\ owner # "nobody"
        /\ owner' = owner /\ closing' = closing
    BY <1>0, <1>2, <2>1, <2>2 DEF HandlerDec, CountExact, NoDanglingGate
  <2>4. CASE count = 1 /\ closing
    <3>1. closed' = TRUE /\ task' = IF task = "attached" THEN "queued" ELSE task
      BY <1>2, <2>4 DEF HandlerDec, SetClosed
    <3> QED
      BY <1>0, <2>1, <2>3, <2>4, <3>1
         DEF IInv, TypeOK, CountExact, ClosedWhenEmpty, TaskFollowsGate,
             NoDanglingGate
  <2>5. CASE ~(count = 1 /\ closing)
    <3>1. closed' = closed /\ task' = task
      BY <1>2, <2>5 DEF HandlerDec
    <3> QED
      BY <1>0, <2>1, <2>3, <2>5, <3>1
         DEF IInv, TypeOK, CountExact, ClosedWhenEmpty, TaskFollowsGate,
             NoDanglingGate
  <2> QED
    BY <2>4, <2>5
<1>3. ASSUME NEW o \in Op, HandlerResolves(o) PROVE IInv'
  <2>1. /\ Waiting' = Waiting
        /\ op' \in [Op -> {"none", "waiting", "handling", "resolved"}]
    BY <1>0, <1>3, WaitingCounts DEF HandlerResolves
  <2> QED
    BY <1>0, <1>3, <2>1
       DEF HandlerResolves, IInv, TypeOK, CountExact, ClosedWhenEmpty,
           TaskFollowsGate, NoDanglingGate
<1>4. CASE Conclude
  <2>1. /\ Waiting' = Waiting /\ Cardinality(Waiting) \in Nat
        /\ Cardinality(Waiting) = 0 <=> Waiting = {}
    BY <1>4, WaitingStays DEF Conclude
  <2>2. /\ owner = "pointer" /\ closing = FALSE /\ closed = FALSE
        /\ task = "none" /\ closing' = TRUE /\ count' = count /\ op' = op
        /\ closed' \in BOOLEAN /\ (closed' <=> count = 0)
    BY <1>0, <1>4
       DEF Conclude, TypeOK, ClosedWhenEmpty, TaskFollowsGate
  <2>3. \/ count = 0 /\ owner' = "nobody" /\ task' = "none"
        \/ count = 0 /\ owner' = "task" /\ task' = "queued"
        \/ count > 0 /\ owner' = "task" /\ task' = "attached"
    BY <1>4, <2>2 DEF Conclude
  <2>4. TypeOK' /\ CountExact'
    BY <1>0, <2>1, <2>2, <2>3 DEF TypeOK, CountExact
  <2>5. ClosedWhenEmpty'
    BY <2>2 DEF ClosedWhenEmpty
  <2>6. TaskFollowsGate'
    BY <2>2, <2>3 DEF TaskFollowsGate
  <2>7. NoDanglingGate'
    BY <1>0, <2>1, <2>3 DEF NoDanglingGate, CountExact
  <2> QED
    BY <2>4, <2>5, <2>6, <2>7 DEF IInv
<1>5. CASE RunTask
  <2>1. /\ Waiting' = Waiting /\ Cardinality(Waiting) \in Nat
        /\ Cardinality(Waiting) = 0 <=> Waiting = {}
    BY <1>5, WaitingStays DEF RunTask
  <2> QED
    BY <1>0, <1>5, <2>1
       DEF RunTask, IInv, TypeOK, CountExact, ClosedWhenEmpty,
           TaskFollowsGate, NoDanglingGate
<1>6. CASE UNCHANGED vars
  BY <1>0, <1>6
     DEF vars, IInv, TypeOK, CountExact, ClosedWhenEmpty, TaskFollowsGate,
         NoDanglingGate, Waiting
<1> QED
  BY <1>1, <1>2, <1>3, <1>4, <1>5, <1>6 DEF Next, Ended

(* Whenever accepts start, complete and are outlived by their acceptor,    *)
(* the gate's account of them is right.                                    *)
THEOREM GateConsistent == Spec => []IInv
<1>1. Init => IInv
  BY InitHolds
<1>2. IInv /\ [Next]_vars => IInv'
  BY StepHolds
<1> QED
  BY <1>1, <1>2, PTL DEF Spec

(* gate::dec() never counts below zero, as its assert says.                *)
THEOREM Counts == Spec => []CountExact
<1>1. IInv => CountExact
  BY DEF IInv
<1> QED
  BY <1>1, GateConsistent, PTL

(* gate::closed_ is set once: close() and dec() agree on who sets it.      *)
THEOREM ClosesOnce == Spec => []ClosedWhenEmpty
<1>1. IInv => ClosedWhenEmpty
  BY DEF IInv
<1> QED
  BY <1>1, GateConsistent, PTL

(* No accept handler outlives the acceptor whose gate it points to.        *)
THEOREM HandlersHaveAGate == Spec => []NoDanglingGate
<1>1. IInv => NoDanglingGate
  BY DEF IInv
<1> QED
  BY <1>1, GateConsistent, PTL

(* The count, the acceptor and the task stay in their types.               *)
THEOREM GateTyped == Spec => []TypeOK
<1>1. IInv => TypeOK
  BY DEF IInv
<1> QED
  BY <1>1, GateConsistent, PTL

(* The continuation of close() is scheduled when the gate is closed and    *)
(* empty, and not before.                                                  *)
THEOREM TaskFollows == Spec => []TaskFollowsGate
<1>1. IInv => TaskFollowsGate
  BY DEF IInv
<1> QED
  BY <1>1, GateConsistent, PTL
=============================================================================
