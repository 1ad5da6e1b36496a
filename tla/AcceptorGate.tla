---------------------------- MODULE AcceptorGate -----------------------------
(***************************************************************************)
(* net::acceptor with its net::gate (src/modules/reax/net.hpp), owned by a *)
(* reax::concluding_ptr (src/modules/reax/reactor.hpp).                    *)
(*                                                                         *)
(* The handler of every pending accept holds &gate_, a pointer into the    *)
(* acceptor.  Destroying the concluding_ptr closes the gate and leaves the *)
(* acceptor to a continuation of the gate's future, so the gate counts     *)
(* down and destroys the object it is a member of, possibly inside the     *)
(* call of dec() that reached zero (module Reactor).                       *)
(***************************************************************************)
EXTENDS Naturals, FiniteSets

CONSTANTS
  Op,      \* calls of accept()
  Preempt  \* the answers need_preempt() may give in this build

ASSUME GateAssumption == IsFiniteSet(Op) /\ Preempt \subseteq BOOLEAN

VARIABLES
  owner,    \* who owns the acceptor: its concluding_ptr, a continuation, nobody
  count,    \* gate::count_
  closing,  \* gate::closing_
  closed,   \* has gate::closed_ been set?
  task,     \* the continuation that owns the acceptor
  op        \* what each accept is doing

vars == <<owner, count, closing, closed, task, op>>

TypeOK ==
  /\ owner \in {"pointer", "task", "nobody"}
  /\ count \in Nat
  /\ closing \in BOOLEAN /\ closed \in BOOLEAN
  /\ task \in {"none", "attached", "queued"}
  /\ op \in [Op -> {"none", "waiting", "handling", "resolved"}]

Init ==
  /\ owner = "pointer" /\ count = 0 /\ closing = FALSE /\ closed = FALSE
  /\ task = "none" /\ op = [o \in Op |-> "none"]

Waiting == {o \in Op : op[o] = "waiting"}

-----------------------------------------------------------------------------
\* closed_.set_value(): an attached continuation goes to the scheduler.
SetClosed ==
  /\ closed' = TRUE
  /\ task' = IF task = "attached" THEN "queued" ELSE task

\* Slip: the accept is started and not counted.
AcceptUncounted(o) ==
  /\ owner = "pointer" /\ op[o] = "none"
  /\ op' = [op EXCEPT ![o] = "waiting"]
  /\ UNCHANGED <<owner, count, closing, closed, task>>

\* accept(): gate_.inc() and async_accept().
Accept(o) ==
  /\ owner = "pointer" /\ op[o] = "none"
  /\ op' = [op EXCEPT ![o] = "waiting"]
  /\ count' = count + 1
  /\ UNCHANGED <<owner, closing, closed, task>>

\* Slip: dec() looks at count_ before it counts.
HandlerDecLate(o) ==
  /\ op[o] = "waiting" /\ \A x \in Op : op[x] # "handling"
  /\ op' = [op EXCEPT ![o] = "handling"]
  /\ count' = count - 1
  /\ IF count = 0 /\ closing THEN SetClosed ELSE UNCHANGED <<closed, task>>
  /\ UNCHANGED <<owner, closing>>

\* Slip: dec() resolves closed_ at zero whether or not the gate is closing.
HandlerDecAnyway(o) ==
  /\ op[o] = "waiting" /\ \A x \in Op : op[x] # "handling"
  /\ op' = [op EXCEPT ![o] = "handling"]
  /\ count' = count - 1
  /\ IF count = 1 THEN SetClosed ELSE UNCHANGED <<closed, task>>
  /\ UNCHANGED <<owner, closing>>

\* The completion handler, first half: dec(), which may close the gate.  A
\* handler runs to its end before io_service calls the next.
HandlerDec(o) ==
  /\ op[o] = "waiting" /\ \A x \in Op : op[x] # "handling"
  /\ op' = [op EXCEPT ![o] = "handling"]
  /\ count' = count - 1
  /\ IF count = 1 /\ closing THEN SetClosed ELSE UNCHANGED <<closed, task>>
  /\ UNCHANGED <<owner, closing>>

\* Second half: the socket or the error goes to the promise.
HandlerResolves(o) ==
  /\ op[o] = "handling"
  /\ op' = [op EXCEPT ![o] = "resolved"]
  /\ UNCHANGED <<owner, count, closing, closed, task>>

\* Slip: the acceptor is destroyed with its concluding_ptr, as by unique_ptr.
ConcludeAtOnce ==
  /\ owner = "pointer"
  /\ closing' = TRUE
  /\ closed' = (count = 0)
  /\ owner' = "nobody"
  /\ UNCHANGED <<count, task, op>>

\* ~concluding_ptr(): conclude() closes the gate, and then() either runs at
\* once, freeing the acceptor, or makes a continuation of it.
Conclude ==
  /\ owner = "pointer"
  /\ closing' = TRUE
  /\ closed' = (count = 0)
  /\ \/ /\ count = 0 /\ FALSE \in Preempt
        /\ owner' = "nobody" /\ UNCHANGED task
     \/ /\ count = 0 /\ TRUE \in Preempt
        /\ owner' = "task" /\ task' = "queued"
     \/ /\ count > 0
        /\ owner' = "task" /\ task' = "attached"
  /\ UNCHANGED <<count, op>>

\* The scheduler runs the continuation; its empty lambda owned the acceptor.
RunTask ==
  /\ task = "queued"
  /\ task' = "none" /\ owner' = "nobody"
  /\ UNCHANGED <<count, closing, closed, op>>

-----------------------------------------------------------------------------
\* The acceptor is gone and its handlers have returned.
Ended ==
  /\ owner = "nobody" /\ \A o \in Op : op[o] # "handling"
  /\ UNCHANGED vars

Next ==
  \/ \E o \in Op : Accept(o) \/ HandlerDec(o) \/ HandlerResolves(o)
  \/ Conclude \/ RunTask \/ Ended

\* The thread finishes what it began; nobody has to connect.
Spec == Init /\ [][Next]_vars
             /\ WF_vars(RunTask) /\ \A o \in Op : WF_vars(HandlerResolves(o))

-----------------------------------------------------------------------------
(* Properties.                                                             *)

(* The gate counts exactly the accepts whose handler has yet to run dec(), *)
(* so assert(count_ > 0) cannot fire.                                      *)
CountExact == count = Cardinality(Waiting)

(* closed_ is set exactly when the gate is closing and empty.  So it is    *)
(* set once, whichever of close() and the last dec() comes last, and the   *)
(* assert in set_value() cannot fire.                                      *)
ClosedWhenEmpty == closed <=> closing /\ count = 0

(* No handler of a pending accept is left with a pointer into an acceptor  *)
(* that was destroyed.                                                     *)
NoDanglingGate == owner = "nobody" => Waiting = {}

(* The continuation that owns the acceptor is scheduled when, and only     *)
(* when, closed_ was set: it neither runs early nor waits for a value that *)
(* was set before it was attached.                                         *)
TaskFollowsGate ==
  /\ owner = "pointer" <=> ~closing
  /\ owner = "task" <=> task # "none"
  /\ task = "queued" => closed
  /\ task = "attached" => ~closed

(* The inductive invariant the proofs use.                                 *)
IInv == TypeOK /\ CountExact /\ ClosedWhenEmpty /\ TaskFollowsGate
          /\ NoDanglingGate

(* A concluded acceptor with no accept left is destroyed.  (Nothing in     *)
(* conclude() cancels an accept, so the last one must come.)               *)
ConcludeEnds == (closing /\ Waiting = {}) ~> (owner = "nobody")
=============================================================================
