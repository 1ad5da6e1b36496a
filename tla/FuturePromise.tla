--------------------------- MODULE FuturePromise ---------------------------
(***************************************************************************)
(* The promise / future / continuation objects of                          *)
(* src/modules/reax/future/future.hh, as objects at addresses.             *)
(*                                                                         *)
(* A promise and its future point at each other, both are moved about      *)
(* freely, and one logical value (future_state in the code) lives in the   *)
(* promise, in the continuation attached by then(), or in the future.  The *)
(* module keeps every pointer the code keeps.  The scheduler that runs     *)
(* ready continuations is the module Reactor; here a ready continuation    *)
(* may start at any time after it was scheduled.                           *)
(***************************************************************************)
EXTENDS Naturals, FiniteSets

CONSTANTS
  PA,        \* addresses a promise object may occupy
  FA,        \* addresses a future object may occupy
  TA,        \* addresses a continuation object may occupy
  Values,    \* values a computation may produce
  Errors,    \* exceptions a computation may fail with
  Preempt,   \* the answers need_preempt() may give in this build
  BreakPromises, \* may the client drop a promise somebody still waits for?
  Null, Pending, Invalid

Outcomes == Values \cup Errors

ASSUME SortsAreApart ==
  /\ Null \notin PA \cup FA \cup TA
  /\ Pending \notin Outcomes
  /\ Invalid \notin Outcomes \cup {Pending}
  /\ Values \cap Errors = {}
  /\ Preempt \subseteq BOOLEAN
  /\ BreakPromises \in BOOLEAN

VARIABLES
  prom,       \* promise objects
  futr,       \* future objects
  tsk,        \* continuation objects
  supplied,   \* outcomes handed to set_value, set_exception, make_ready_future
  delivered,  \* how often each outcome was handed to client code
  reported    \* exceptions passed to report_failed_future

vars == <<prom, futr, tsk, supplied, delivered, reported>>

Content == {Pending, Invalid} \cup Outcomes

\* state says where the promise's _state points: its own _local_state, the
\* state in its _task, or nowhere.  owner is the continuation whose lambda
\* captured this promise (then() moves one into every continuation).
PromiseType == [life: {"none", "fresh", "bound"}, fut: FA \cup {Null},
                state: {"none", "local", "task"}, local: Content,
                task: TA \cup {Null}, owner: TA \cup {Null}]

\* A spent future was moved from or consumed; only its destructor is left.
FutureType == [life: {"none", "live", "spent"}, prom: PA \cup {Null},
               local: Content]

TaskType == [life: {"none", "attached", "queued", "running"}, state: Content,
             pr: PA \cup {Null}, kind: {"then", "then_wrapped"}]

NoPromise == [life |-> "none", fut |-> Null, state |-> "none",
              local |-> Invalid, task |-> Null, owner |-> Null]
NoFuture  == [life |-> "none", prom |-> Null, local |-> Invalid]
NoTask    == [life |-> "none", state |-> Invalid, pr |-> Null, kind |-> "then"]

TypeOK ==
  /\ prom \in [PA -> PromiseType]
  /\ futr \in [FA -> FutureType]
  /\ tsk \in [TA -> TaskType]
  /\ supplied \subseteq Outcomes
  /\ delivered \in [Outcomes -> Nat]
  /\ reported \subseteq Errors

Init ==
  /\ prom = [p \in PA |-> NoPromise]
  /\ futr = [f \in FA |-> NoFuture]
  /\ tsk = [t \in TA |-> NoTask]
  /\ supplied = {}
  /\ delivered = [c \in Outcomes |-> 0]
  /\ reported = {}

-----------------------------------------------------------------------------
(* What the pointers denote.                                               *)

\* *promise::_state, in a heap of promises P and continuations T.
PromState(P, T, p) ==
  IF P[p].state = "task" THEN T[P[p].task].state ELSE P[p].local

\* *future::state(): the promise's state while linked, its own otherwise.
FutState(f) ==
  IF futr[f].prom = Null THEN futr[f].local
                         ELSE PromState(prom, tsk, futr[f].prom)

Available(f) == FutState(f) \in Outcomes

\* set_value() and set_exception() assert both conjuncts.
CanSet(p) == prom[p].state # "none" /\ PromState(prom, tsk, p) = Pending

\* A promise the client holds, as opposed to one a continuation captured.
Held(p) == prom[p].life # "none" /\ prom[p].owner = Null

\* Is there still somebody to tell?
Waited(p) == CanSet(p) /\ (prom[p].fut # Null \/ prom[p].task # Null)

-----------------------------------------------------------------------------
(* The steps the handlers are built from.                                  *)

\* Slip: make_ready() schedules the continuation but keeps it as _task.
PromAfterSetKeepsTask(P, p, c) ==
  IF P[p].state = "task" THEN P ELSE [P EXCEPT ![p].local = c]

\* Slip: a failure destroys the continuation instead of scheduling it.
TskAfterSetDropsOnError(P, T, p, c) ==
  IF P[p].state # "task" THEN T
  ELSE IF c \in Errors THEN [T EXCEPT ![P[p].task] = NoTask]
  ELSE [T EXCEPT ![P[p].task].state = c, ![P[p].task].life = "queued"]

\* promise::set_value / set_exception: store the outcome where _state points;
\* make_ready() hands an attached continuation to the scheduler.
PromAfterSet(P, p, c) ==
  IF P[p].state = "task"
    THEN [P EXCEPT ![p].state = "none", ![p].task = Null]
    ELSE [P EXCEPT ![p].local = c]

TskAfterSet(P, T, p, c) ==
  IF P[p].state = "task"
    THEN [T EXCEPT ![P[p].task].state = c, ![P[p].task].life = "queued"]
    ELSE T

\* Slip: abandoned() unlinks the future without handing it the state.
FutAfterAbandonEmpty(P, T, F, D) ==
  [f \in FA |-> IF \E p \in D : P[p].fut = f
                  THEN [F[f] EXCEPT !.prom = Null] ELSE F[f]]

\* Slip: abandoned() hands over the state and leaves the pointer dangling.
FutAfterAbandonDangling(P, T, F, D) ==
  [f \in FA |->
     IF \E p \in D : P[p].fut = f
       THEN [F[f] EXCEPT !.local =
               PromState(P, T, CHOOSE q \in D : P[q].fut = f)]
       ELSE F[f]]

\* promise::abandoned() of the promises in D: a linked future takes the state.
FutAfterAbandon(P, T, F, D) ==
  [f \in FA |->
     IF \E p \in D : P[p].fut = f
       THEN LET p == CHOOSE q \in D : P[q].fut = f
            IN  [F[f] EXCEPT !.local = PromState(P, T, p), !.prom = Null]
       ELSE F[f]]

\* ... and a failure nobody is linked to is reported.
ReportsOfAbandon(P, T, D) ==
  {PromState(P, T, p) : p \in {q \in D : P[q].fut = Null /\ P[q].state # "none"}}
    \cap Errors

\* The continuations destroyed with promise p: its own, the one attached to
\* the promise that one captured, and so on (the least set closed under it).
HangsFrom(p) ==
  {t \in TA :
     \A S \in SUBSET TA :
       /\ prom[p].task \in S \cup {Null}
       /\ \A s \in S : tsk[s].life # "none" => prom[tsk[s].pr].task \in S \cup {Null}
       => t \in S}

\* future::get_available_state(): unlink, and move the state out.
PromAfterTake(f) ==
  IF futr[f].prom = Null THEN prom
  ELSE [prom EXCEPT ![futr[f].prom].fut = Null,
                    ![futr[f].prom].local = Invalid]

FutAfterTake(f) ==
  [futr EXCEPT ![f] = [life |-> "spent", prom |-> Null,
                       local |-> IF futr[f].prom = Null THEN Invalid ELSE @.local]]

Deliver(c) == delivered' = [delivered EXCEPT ![c] = @ + 1]

Fresh(c) == c \in Outcomes \ supplied

-----------------------------------------------------------------------------
(* Creating, moving and destroying promises and futures.                   *)

MakePromise(p) ==
  /\ prom[p].life = "none"
  /\ prom' = [prom EXCEPT ![p] = [NoPromise EXCEPT
                 !.life = "fresh", !.state = "local", !.local = Pending]]
  /\ UNCHANGED <<futr, tsk, supplied, delivered, reported>>

\* get_future() asserts !_future && _state && !_task.  The client takes one
\* future of a promise, as every caller does; with its first future gone the
\* asserts would allow a second one.
GetFuture(p, f) ==
  /\ prom[p].life = "fresh" /\ futr[f].life = "none"
  /\ prom[p].fut = Null /\ prom[p].state # "none" /\ prom[p].task = Null
  /\ prom' = [prom EXCEPT ![p].life = "bound", ![p].fut = f]
  /\ futr' = [futr EXCEPT ![f] = [life |-> "live", prom |-> p, local |-> Pending]]
  /\ UNCHANGED <<tsk, supplied, delivered, reported>>

\* make_ready_future() and make_exception_future().
MakeReadyFuture(f, c) ==
  /\ futr[f].life = "none" /\ Fresh(c)
  /\ futr' = [futr EXCEPT ![f] = [life |-> "live", prom |-> Null, local |-> c]]
  /\ supplied' = supplied \cup {c}
  /\ UNCHANGED <<prom, tsk, delivered, reported>>

\* Slip: the future is not told that its promise moved.
MovePromiseSilently(p, q) ==
  /\ Held(p) /\ prom[q].life = "none"
  /\ prom' = [prom EXCEPT ![q] = prom[p],
                          ![p] = [NoPromise EXCEPT !.life = prom[p].life]]
  /\ UNCHANGED <<futr, tsk, supplied, delivered, reported>>

\* promise(promise&&): the moved-from object forgets everything, and the
\* future is told the new address (migrated()).
MovePromise(p, q) ==
  /\ Held(p) /\ prom[q].life = "none"
  /\ prom' = [prom EXCEPT
       ![q] = [prom[p] EXCEPT !.local =
                 IF prom[p].state = "local" THEN prom[p].local ELSE Pending],
       ![p] = [prom[p] EXCEPT !.fut = Null, !.state = "none", !.task = Null,
                 !.local = IF prom[p].state = "local" THEN Invalid ELSE @]]
  /\ futr' = IF prom[p].fut = Null THEN futr
             ELSE [futr EXCEPT ![prom[p].fut].prom = q]
  /\ UNCHANGED <<tsk, supplied, delivered, reported>>

\* Slip: the local state is copied, not moved.
MoveFutureCopies(f, g) ==
  /\ futr[f].life = "live" /\ futr[g].life = "none"
  /\ futr' = [futr EXCEPT ![g] = futr[f], ![f].life = "spent", ![f].prom = Null]
  /\ prom' = IF futr[f].prom = Null THEN prom
             ELSE [prom EXCEPT ![futr[f].prom].fut = g]
  /\ UNCHANGED <<tsk, supplied, delivered, reported>>

\* future(future&&).
MoveFuture(f, g) ==
  /\ futr[f].life = "live" /\ futr[g].life = "none"
  /\ futr' = [futr EXCEPT
       ![g] = [life |-> "live", prom |-> futr[f].prom,
               local |-> IF futr[f].prom = Null THEN futr[f].local ELSE Pending],
       ![f] = [life |-> "spent", prom |-> Null,
               local |-> IF futr[f].prom = Null THEN Invalid ELSE @.local]]
  /\ prom' = IF futr[f].prom = Null THEN prom
             ELSE [prom EXCEPT ![futr[f].prom].fut = g]
  /\ UNCHANGED <<tsk, supplied, delivered, reported>>

\* set_value() or set_exception() on a promise the client holds.
SetOutcome(p, c) ==
  /\ Held(p) /\ CanSet(p) /\ Fresh(c)
  /\ prom' = PromAfterSet(prom, p, c)
  /\ tsk' = TskAfterSet(prom, tsk, p, c)
  /\ supplied' = supplied \cup {c}
  /\ UNCHANGED <<futr, delivered, reported>>

\* ~promise(), with the continuations it owns and the promises they captured.
DropPromise(p) ==
  /\ Held(p)
  /\ Waited(p) => BreakPromises
  /\ LET D == {p} \cup {tsk[t].pr : t \in HangsFrom(p)}
     IN  /\ prom' = [q \in PA |-> IF q \in D THEN NoPromise ELSE prom[q]]
         /\ futr' = FutAfterAbandon(prom, tsk, futr, D)
         /\ tsk' = [t \in TA |-> IF t \in HangsFrom(p) THEN NoTask ELSE tsk[t]]
         /\ reported' = reported \cup ReportsOfAbandon(prom, tsk, D)
  /\ UNCHANGED <<supplied, delivered>>

\* Slip: ~future() reports without asking whether the state failed().
DropFutureReportsAny(f) ==
  /\ futr[f].life # "none"
  /\ prom' = IF futr[f].prom = Null THEN prom
             ELSE [prom EXCEPT ![futr[f].prom].fut = Null]
  /\ futr' = [futr EXCEPT ![f] = NoFuture]
  /\ reported' = reported \cup ({FutState(f)} \cap Outcomes)
  /\ UNCHANGED <<tsk, supplied, delivered>>

\* Slip: ~future() moves the state out of its promise, pending or not.
DropFutureTakesState(f) ==
  /\ futr[f].life # "none"
  /\ prom' = IF futr[f].prom = Null THEN prom
             ELSE [prom EXCEPT ![futr[f].prom].fut = Null,
                               ![futr[f].prom].local = Invalid]
  /\ futr' = [futr EXCEPT ![f] = NoFuture]
  /\ reported' = reported \cup ({FutState(f)} \cap Errors)
  /\ UNCHANGED <<tsk, supplied, delivered>>

\* ~future(): the failed() test still reads through _promise, and the state is
\* only copied, so the promise keeps a failure that was reported here.
DropFuture(f) ==
  /\ futr[f].life # "none"
  /\ prom' = IF futr[f].prom = Null THEN prom
             ELSE [prom EXCEPT ![futr[f].prom].fut = Null]
  /\ futr' = [futr EXCEPT ![f] = NoFuture]
  /\ reported' = reported \cup ({FutState(f)} \cap Errors)
  /\ UNCHANGED <<tsk, supplied, delivered>>

-----------------------------------------------------------------------------
(* Consuming a future.                                                     *)

\* Slip: get() leaves the outcome where it was.
GetLeavesState(f) ==
  /\ futr[f].life = "live" /\ Available(f)
  /\ Deliver(FutState(f))
  /\ UNCHANGED <<prom, futr, tsk, supplied, reported>>

\* get(): wait() asserts, so only an available future may be asked.
Get(f) ==
  /\ futr[f].life = "live" /\ Available(f)
  /\ Deliver(FutState(f))
  /\ prom' = PromAfterTake(f)
  /\ futr' = FutAfterTake(f)
  /\ UNCHANGED <<tsk, supplied, reported>>

\* then() on an available future when need_preempt() says no: the function is
\* called at once and its outcome becomes the result f2.  (A function that
\* returns another future makes that future the result: that is Get.)
ThenNow(f, f2, k, c) ==
  /\ FALSE \in Preempt
  /\ futr[f].life = "live" /\ futr[f2].life = "none"
  /\ FutState(f) \in (IF k = "then" THEN Values ELSE Outcomes)
  /\ Fresh(c)
  /\ Deliver(FutState(f))
  /\ prom' = PromAfterTake(f)
  /\ futr' = [FutAfterTake(f) EXCEPT
                ![f2] = [life |-> "live", prom |-> Null, local |-> c]]
  /\ supplied' = supplied \cup {c}
  /\ UNCHANGED <<tsk, reported>>

\* ... a failure skips the function of then(), and the function of do_with's
\* then_wrapped() returns the future it was given.
ThenNowPassesOn(f, f2, k) ==
  /\ FALSE \in Preempt
  /\ futr[f].life = "live" /\ futr[f2].life = "none"
  /\ FutState(f) \in (IF k = "then" THEN Errors ELSE Outcomes)
  /\ prom' = PromAfterTake(f)
  /\ futr' = [FutAfterTake(f) EXCEPT
                ![f2] = [life |-> "live", prom |-> Null, local |-> FutState(f)]]
  /\ UNCHANGED <<tsk, supplied, delivered, reported>>

\* The promise then() creates and moves into the continuation t, and its future.
Captured(t, f2) == [life |-> "bound", fut |-> f2, state |-> "local",
                    local |-> Pending, task |-> Null, owner |-> t]

ResultOf(p2) == [life |-> "live", prom |-> p2, local |-> Pending]

RoomForThen(f, p2, f2, t) ==
  /\ futr[f].life = "live"
  /\ prom[p2].life = "none" /\ futr[f2].life = "none" /\ tsk[t].life = "none"

\* then() on an available future when need_preempt() says yes: the state moves
\* into a continuation that is scheduled at once; the future stays linked.
ThenScheduled(f, p2, f2, t, k) ==
  /\ TRUE \in Preempt
  /\ RoomForThen(f, p2, f2, t) /\ Available(f)
  /\ tsk' = [tsk EXCEPT ![t] = [life |-> "queued", state |-> FutState(f),
                                pr |-> p2, kind |-> k]]
  /\ prom' = [(IF futr[f].prom = Null THEN prom
               ELSE [prom EXCEPT ![futr[f].prom].local = Invalid])
              EXCEPT ![p2] = Captured(t, f2)]
  /\ futr' = [futr EXCEPT ![f].life = "spent",
                          ![f].local = IF futr[f].prom = Null THEN Invalid ELSE @,
                          ![f2] = ResultOf(p2)]
  /\ UNCHANGED <<supplied, delivered, reported>>

\* then() on a pending future: promise::schedule() moves the logical value
\* into the continuation, and future and promise forget each other.
ThenAttached(f, p2, f2, t, k) ==
  LET p == futr[f].prom IN
  /\ RoomForThen(f, p2, f2, t)
  /\ FutState(f) = Pending /\ p # Null
  /\ tsk' = [tsk EXCEPT ![t] = [life |-> "attached", state |-> Pending,
                                pr |-> p2, kind |-> k]]
  /\ prom' = [prom EXCEPT ![p].fut = Null, ![p].state = "task", ![p].task = t,
                          ![p2] = Captured(t, f2)]
  /\ futr' = [futr EXCEPT ![f].life = "spent", ![f].prom = Null,
                          ![f2] = ResultOf(p2)]
  /\ UNCHANGED <<supplied, delivered, reported>>

-----------------------------------------------------------------------------
(* Running a continuation: continuation::run(), called by the scheduler.   *)

\* The captured promise is set to c, the lambda is destroyed and the promise
\* in it with it.  F is the heap of futures after the function returned.
Settle(t, c, P, F) ==
  LET pr == tsk[t].pr
      P1 == PromAfterSet(P, pr, c)
      T1 == TskAfterSet(P, tsk, pr, c)
  IN  /\ prom' = [P1 EXCEPT ![pr] = NoPromise]
      /\ tsk' = [T1 EXCEPT ![t] = NoTask]
      /\ futr' = FutAfterAbandon(P1, T1, F, {pr})
      /\ reported' = reported \cup ReportsOfAbandon(P1, T1, {pr})

\* The state moves out of the continuation and the function runs.
CallFunction(t) ==
  tsk' = [tsk EXCEPT ![t].life = "running", ![t].state = Invalid]

\* The function is called with the outcome; what else it does is other actions.
Start(t) ==
  /\ tsk[t].life = "queued"
  /\ tsk[t].state \in (IF tsk[t].kind = "then" THEN Values ELSE Outcomes)
  /\ Deliver(tsk[t].state)
  /\ CallFunction(t)
  /\ UNCHANGED <<prom, futr, supplied, reported>>

\* then() with a failure, or then_wrapped() with a function that returns its
\* argument: the outcome goes to the captured promise.
PassOn(t) ==
  /\ tsk[t].life = "queued"
  /\ tsk[t].state \in (IF tsk[t].kind = "then" THEN Errors ELSE Outcomes)
  /\ Settle(t, tsk[t].state, prom, futr)
  /\ UNCHANGED <<supplied, delivered>>

\* A then_wrapped() function that never looks at its future destroys it.
Ignore(t) ==
  /\ tsk[t].life = "queued" /\ tsk[t].kind = "then_wrapped"
  /\ CallFunction(t)
  /\ reported' = reported \cup ({tsk[t].state} \cap Errors)
  /\ UNCHANGED <<prom, futr, supplied, delivered>>

\* The function returned a value or threw: futurize::apply makes it a future,
\* and that future is forwarded to the captured promise.
Return(t, c) ==
  /\ tsk[t].life = "running" /\ Fresh(c)
  /\ Settle(t, c, prom, futr)
  /\ supplied' = supplied \cup {c}
  /\ UNCHANGED delivered

\* The function returned a future that is available: future_state::forward_to.
ReturnAvailable(t, g) ==
  /\ tsk[t].life = "running"
  /\ futr[g].life = "live" /\ Available(g) /\ prom[tsk[t].pr].fut # g
  /\ Settle(t, FutState(g), PromAfterTake(g), [futr EXCEPT ![g] = NoFuture])
  /\ UNCHANGED <<supplied, delivered>>

\* Slip: the continuation attached to the moved promise stays behind.
TakenOverWithoutTask(r, owner) ==
  [life |-> r.life, fut |-> r.fut, state |-> "local", local |-> Pending,
   task |-> Null, owner |-> owner]

\* What a promise with this owner is after the promise r was moved into it.
TakenOver(r, owner) ==
  [life |-> r.life, fut |-> r.fut, state |-> r.state,
   local |-> IF r.state = "local" THEN r.local ELSE Pending,
   task |-> r.task, owner |-> owner]

\* The function returned a pending future: future::forward_to overwrites that
\* future's promise with the captured one, which becomes a moved-from object.
\* (The future does not wait for the continuation itself.)
ReturnPending(t, g) ==
  LET pr == tsk[t].pr
      ip == futr[g].prom
  IN
  /\ tsk[t].life = "running"
  /\ futr[g].life = "live" /\ FutState(g) = Pending /\ ip # Null
  /\ prom[pr].fut # g /\ prom[ip].owner \notin HangsFrom(pr)
  /\ prom' = [prom EXCEPT ![ip] = TakenOver(prom[pr], prom[ip].owner),
                          ![pr] = NoPromise]
  /\ futr' = [f \in FA |-> CASE f = g -> NoFuture
                             [] f = prom[pr].fut -> [futr[f] EXCEPT !.prom = ip]
                             [] OTHER -> futr[f]]
  /\ tsk' = [tsk EXCEPT ![t] = NoTask]
  /\ UNCHANGED <<supplied, delivered, reported>>

-----------------------------------------------------------------------------
Kinds == {"then", "then_wrapped"}

PromiseStep ==
  \E p \in PA :
    \/ MakePromise(p)
    \/ DropPromise(p)
    \/ \E q \in PA : MovePromise(p, q)
    \/ \E f \in FA : GetFuture(p, f)
    \/ \E c \in Outcomes : SetOutcome(p, c)

FutureStep ==
  \E f \in FA :
    \/ DropFuture(f)
    \/ Get(f)
    \/ \E g \in FA : MoveFuture(f, g)
    \/ \E c \in Outcomes : MakeReadyFuture(f, c)
    \/ \E f2 \in FA, k \in Kinds : ThenNowPassesOn(f, f2, k)
    \/ \E f2 \in FA, k \in Kinds, c \in Outcomes : ThenNow(f, f2, k, c)
    \/ \E p2 \in PA, f2 \in FA, t \in TA, k \in Kinds :
         ThenScheduled(f, p2, f2, t, k) \/ ThenAttached(f, p2, f2, t, k)

TaskStep ==
  \E t \in TA :
    \/ Start(t)
    \/ PassOn(t)
    \/ Ignore(t)
    \/ \E c \in Outcomes : Return(t, c)
    \/ \E g \in FA : ReturnAvailable(t, g) \/ ReturnPending(t, g)

Next == PromiseStep \/ FutureStep \/ TaskStep

Spec == Init /\ [][Next]_vars

-----------------------------------------------------------------------------
(* Properties.                                                             *)

(* The two back pointers agree: promise::_future and future::_promise name *)
(* each other through every move, attach, hand-over and destruction, and a *)
(* linked promise keeps its state locally with no continuation attached,   *)
(* which is what abandoned() asserts before it hands the state over.       *)
BackPointers ==
  /\ \A f \in FA : LET p == futr[f].prom IN
       p # Null => /\ futr[f].life # "none" /\ prom[p].life = "bound"
                   /\ prom[p].fut = f
                   /\ prom[p].state = "local" /\ prom[p].task = Null
  /\ \A p \in PA : LET f == prom[p].fut IN
       f # Null => futr[f].life # "none" /\ futr[f].prom = p

(* _state points into _task exactly while a continuation is attached, and  *)
(* every waiting continuation is owned by one promise, holds an unresolved *)
(* state, and is not yet in the scheduler.                                 *)
AttachedOnce ==
  /\ \A p \in PA :
       /\ (prom[p].state = "task") <=> (prom[p].task # Null)
       /\ LET t == prom[p].task IN
          t # Null => /\ prom[p].life = "bound"
                      /\ tsk[t].life = "attached" /\ tsk[t].state = Pending
  /\ \A p, q \in PA :
       prom[p].task = prom[q].task /\ prom[p].task # Null => p = q
  /\ \A t \in TA : tsk[t].life = "attached" => \E p \in PA : prom[p].task = t

(* A continuation and the promise in its lambda live and die together.     *)
Captures ==
  /\ \A t \in TA : LET p == tsk[t].pr IN
       tsk[t].life # "none" => /\ p \in PA /\ prom[p].life = "bound"
                               /\ prom[p].owner = t
  /\ \A p \in PA : LET t == prom[p].owner IN
       t # Null => tsk[t].life # "none" /\ tsk[t].pr = p

(* The promise in a continuation's lambda can always be resolved: the      *)
(* asserts in set_value() and future_state::set() cannot fire when run()   *)
(* settles it, however its future was moved, attached to, or destroyed.    *)
CanSettle == \A t \in TA : tsk[t].life # "none" => CanSet(tsk[t].pr)

(* A scheduled continuation carries a resolved state: run() never hands a  *)
(* pending or moved-out future_state to the function.                      *)
QueuedIsResolved ==
  \A t \in TA : tsk[t].life = "queued" => tsk[t].state \in Outcomes

(* The inductive invariant the proofs use.                                 *)
IInv == TypeOK /\ BackPointers /\ AttachedOnce /\ Captures /\ CanSettle
          /\ QueuedIsResolved

(* future.hh:107: one logical value, stored in exactly one place.  No      *)
(* outcome is in two of the promise, continuation and future objects.      *)
Slots(c) ==
  {<<"promise", p>> : p \in {q \in PA : prom[q].local = c}}
    \cup {<<"future", f>> : f \in {g \in FA : futr[g].local = c}}
    \cup {<<"task", t>> : t \in {s \in TA : tsk[s].state = c}}

OneLocation == \A c \in Outcomes : Cardinality(Slots(c)) <= 1

(* While no client drops a promise that is waited for, a future in a       *)
(* client's hands is available or has a promise, so neither the assert in  *)
(* future::schedule() nor the dereference in future::forward_to() can go   *)
(* wrong.                                                                  *)
FutureIsUsable ==
  BreakPromises \/ \A f \in FA : futr[f].life = "live" =>
    Available(f) \/ (FutState(f) = Pending /\ futr[f].prom # Null)

(* Every continuation that waits hangs, through the promises of others     *)
(* that wait, from one somebody can still resolve or drop, and it with it: *)
(* a promise held by the client, or captured by a continuation that is     *)
(* scheduled or runs.  (A future that waits without one is not its         *)
(* subject: a client that drops promises leaves futures pending for ever.) *)
Anchored ==
  \A t \in TA : tsk[t].life = "attached" =>
    \E p \in PA :
      /\ t \in HangsFrom(p)
      /\ \/ Held(p)
         \/ prom[p].owner # Null /\ tsk[prom[p].owner].life # "attached"

(* No step loses a continuation: while no client drops a promise that is   *)
(* waited for, an attached one stays or is scheduled, and a scheduled one  *)
(* stays until it runs.                                                    *)
NoContinuationLost ==
  [][\A t \in TA :
       /\ tsk[t].life = "attached" /\ ~BreakPromises =>
            tsk'[t].life \in {"attached", "queued"}
       /\ tsk[t].life = "queued" =>
            tsk'[t] = tsk[t] \/ Start(t) \/ PassOn(t) \/ Ignore(t)]_vars

(* Implementation of SingleUseItem: where each outcome is now.  One that    *)
(* was handed over a second time, or after it was reported, or that is     *)
(* still stored somewhere, has no place there.                             *)
StatusOf(c) ==
  IF delivered[c] > 0
  THEN IF delivered[c] = 1 /\ c \notin reported /\ Slots(c) = {}
       THEN "delivered" ELSE "copied"
  ELSE IF c \in reported THEN "reported"
  ELSE IF Slots(c) # {} THEN "held"
  ELSE IF c \in supplied THEN "discarded" ELSE "unsupplied"

Item == INSTANCE SingleUseItem WITH status <- [c \in Outcomes |-> StatusOf(c)]

(* Every outcome is handed over at most once, and a failure is never       *)
(* dropped in silence: it reaches a continuation, a get(), or              *)
(* report_failed_future(), and not both.                                   *)
ImplementsItem == Item!Spec
============================================================================
