----------------------- MODULE FuturePromise_proofs ------------------------
(***************************************************************************)
(* Proofs about FuturePromise, for any sets of addresses and outcomes.     *)
(*                                                                         *)
(* First the pointers: the type invariant, that back pointers agree, and   *)
(* that a continuation can always resolve the promise it captured.  IInv   *)
(* is inductive.  Each action has a lemma; it first says what the step     *)
(* does to every field of every object (the view) and then proves the      *)
(* conjuncts of IInv' from the view.                                       *)
(*                                                                         *)
(* Then what becomes of an outcome: it is stored in one place at a time,   *)
(* it is handed over at most once and no failure is dropped in silence     *)
(* (the refinement of SingleUseItem), and no continuation is lost or waits *)
(* for nobody.  VInv is inductive.  Every step carries at most one outcome *)
(* from one place to another (Carries); that alone preserves StoredOnce    *)
(* and HandedOver and is a step of SingleUseItem.  Each action has a lemma *)
(* that names the two places.                                              *)
(***************************************************************************)
EXTENDS FuturePromise, FiniteSetTheorems, TLAPS

-----------------------------------------------------------------------------
(* The pointers.                                                           *)

\* The pointers of typed objects point at objects or nowhere.
Sorted ==
  /\ \A p \in PA : /\ prom[p].fut \in FA \cup {Null}
                   /\ prom[p].task \in TA \cup {Null}
                   /\ prom[p].owner \in TA \cup {Null}
                   /\ prom[p].state \in {"none", "local", "task"}
                   /\ prom[p].local \in Content
  /\ \A f \in FA : futr[f].prom \in PA \cup {Null} /\ futr[f].local \in Content
  /\ \A t \in TA : tsk[t].pr \in PA \cup {Null} /\ tsk[t].state \in Content

LEMMA TypeSorted == TypeOK => Sorted
BY DEF TypeOK, Sorted, PromiseType, FutureType, TaskType

LEMMA Parts ==
  IInv => /\ TypeOK /\ Sorted /\ BackPointers /\ AttachedOnce /\ Captures
          /\ CanSettle /\ QueuedIsResolved
BY TypeSorted DEF IInv

\* Updates of single fields keep a heap of promises well typed.
LEMMA UnlinkType ==
  ASSUME NEW P \in [PA -> PromiseType], NEW p \in PA, NEW x \in FA \cup {Null}
  PROVE  [P EXCEPT ![p].fut = x] \in [PA -> PromiseType]
<1>1. P[p] \in PromiseType
  OBVIOUS
<1>2. [P[p] EXCEPT !.fut = x] \in PromiseType
  BY <1>1 DEF PromiseType
<1> QED
  BY <1>2

LEMMA SettledType ==
  ASSUME NEW P \in [PA -> PromiseType], NEW p \in PA, NEW c \in Outcomes
  PROVE  PromAfterSet(P, p, c) \in [PA -> PromiseType]
<1>1. P[p] \in PromiseType
  OBVIOUS
<1>2. [P[p] EXCEPT !.state = "none", !.task = Null] \in PromiseType
  BY <1>1 DEF PromiseType
<1>3. [P[p] EXCEPT !.local = c] \in PromiseType
  BY <1>1 DEF PromiseType, Content
<1> QED
  BY <1>2, <1>3 DEF PromAfterSet

LEMMA InitIInv == Init => IInv
<1> SUFFICES ASSUME Init PROVE IInv
  OBVIOUS
<1> USE SortsAreApart
<1>1. TypeOK
  BY DEF Init, TypeOK, PromiseType, FutureType, TaskType, NoPromise, NoFuture,
         NoTask, Content, Outcomes
<1>2. BackPointers
  BY DEF Init, BackPointers, NoPromise, NoFuture
<1>3. AttachedOnce
  BY DEF Init, AttachedOnce, NoPromise, NoTask
<1>4. Captures
  BY DEF Init, Captures, NoPromise, NoTask
<1>5. CanSettle
  BY DEF Init, CanSettle, NoTask
<1>6. QueuedIsResolved
  BY DEF Init, QueuedIsResolved, NoTask
<1> QED
  BY <1>1, <1>2, <1>3, <1>4, <1>5, <1>6 DEF IInv

LEMMA MakePromiseStep ==
  ASSUME IInv, NEW p \in PA, MakePromise(p) PROVE IInv'
<1> USE SortsAreApart, Parts DEF TypeOK, PromiseType, NoPromise, MakePromise
<1>1. TypeOK'
  BY DEF FutureType, TaskType, Content, Outcomes
<1>2. BackPointers'
  BY DEF BackPointers, Sorted
<1>3. AttachedOnce'
  BY DEF AttachedOnce, Sorted
<1>4. Captures'
  BY DEF Captures, Sorted
<1>5. CanSettle'
  BY DEF CanSettle, CanSet, PromState, Captures, AttachedOnce, Sorted
<1>6. QueuedIsResolved'
  BY DEF QueuedIsResolved
<1> QED
  BY <1>1, <1>2, <1>3, <1>4, <1>5, <1>6 DEF IInv

LEMMA GetFutureStep ==
  ASSUME IInv, NEW p \in PA, NEW f \in FA, GetFuture(p, f) PROVE IInv'
<1> USE SortsAreApart, Parts DEF TypeOK, PromiseType, FutureType, GetFuture
<1>1. TypeOK'
  BY DEF TaskType, Content, Outcomes
<1>2. BackPointers'
  BY DEF BackPointers, Sorted
<1>3. AttachedOnce'
  BY DEF AttachedOnce, Sorted
<1>4. Captures'
  BY DEF Captures, Sorted
<1>5. CanSettle'
  BY DEF CanSettle, CanSet, PromState, Captures, AttachedOnce, Sorted
<1>6. QueuedIsResolved'
  BY DEF QueuedIsResolved
<1> QED
  BY <1>1, <1>2, <1>3, <1>4, <1>5, <1>6 DEF IInv

LEMMA MakeReadyFutureStep ==
  ASSUME IInv, NEW f \in FA, NEW c \in Outcomes, MakeReadyFuture(f, c)
  PROVE  IInv'
<1> USE SortsAreApart, Parts DEF TypeOK, FutureType, MakeReadyFuture
<1>1. TypeOK'
  BY DEF Content, Outcomes
<1>2. BackPointers'
  BY DEF BackPointers, Sorted
<1>3. AttachedOnce' /\ Captures' /\ CanSettle' /\ QueuedIsResolved'
  BY DEF AttachedOnce, Captures, CanSettle, CanSet, PromState, QueuedIsResolved
<1> QED
  BY <1>1, <1>2, <1>3 DEF IInv

LEMMA MovePromiseStep ==
  ASSUME IInv, NEW p \in PA, NEW q \in PA, MovePromise(p, q) PROVE IInv'
<1> USE SortsAreApart
<1>1. /\ TypeOK /\ Sorted /\ BackPointers /\ AttachedOnce /\ Captures
      /\ CanSettle /\ QueuedIsResolved
  BY Parts
<1>2. /\ p # q /\ prom[q].life = "none"
      /\ prom[p].life # "none" /\ prom[p].owner = Null
  BY DEF MovePromise, Held
<1>3. \A x \in PA :
        /\ prom'[x].life = IF x = q THEN prom[p].life ELSE prom[x].life
        /\ prom'[x].fut = IF x = q THEN prom[p].fut
                          ELSE IF x = p THEN Null ELSE prom[x].fut
        /\ prom'[x].state = IF x = q THEN prom[p].state
                            ELSE IF x = p THEN "none" ELSE prom[x].state
        /\ prom'[x].task = IF x = q THEN prom[p].task
                           ELSE IF x = p THEN Null ELSE prom[x].task
        /\ prom'[x].owner = IF x = q THEN Null ELSE prom[x].owner
        /\ x \notin {p, q} => prom'[x] = prom[x]
  BY <1>1, <1>2 DEF MovePromise, TypeOK, PromiseType
<1>4. \A f \in FA :
        /\ futr'[f].life = futr[f].life
        /\ futr'[f].prom = IF f = prom[p].fut THEN q ELSE futr[f].prom
  BY <1>1, <1>2 DEF MovePromise, TypeOK, PromiseType, FutureType
<1>5. tsk' = tsk
  BY DEF MovePromise
<1>6. TypeOK'
  <2>1. prom[p] \in PromiseType
    BY <1>1 DEF TypeOK
  <2>2. [prom[p] EXCEPT !.local =
           IF prom[p].state = "local" THEN prom[p].local ELSE Pending]
          \in PromiseType
    BY <2>1 DEF PromiseType, Content
  <2>3. [prom[p] EXCEPT !.fut = Null, !.state = "none", !.task = Null,
           !.local = IF prom[p].state = "local" THEN Invalid ELSE @]
          \in PromiseType
    BY <2>1 DEF PromiseType, Content
  <2>4. prom' \in [PA -> PromiseType]
    BY <1>1, <2>2, <2>3 DEF TypeOK, MovePromise
  <2>5. futr' \in [FA -> FutureType]
    BY <1>1 DEF MovePromise, TypeOK, FutureType, PromiseType
  <2> QED
    BY <1>1, <2>4, <2>5 DEF MovePromise, TypeOK
<1>7. BackPointers'
  BY <1>1, <1>2, <1>3, <1>4, <1>5 DEF BackPointers, Sorted
<1>8. AttachedOnce'
  BY <1>1, <1>2, <1>3, <1>4, <1>5 DEF AttachedOnce, Sorted
<1>9. Captures'
  BY <1>1, <1>2, <1>3, <1>4, <1>5 DEF Captures, Sorted
<1>10. CanSettle'
  BY <1>1, <1>2, <1>3, <1>4, <1>5
     DEF CanSettle, CanSet, PromState, Captures, Sorted
<1>11. QueuedIsResolved'
  BY <1>1, <1>5 DEF QueuedIsResolved
<1> QED
  BY <1>6, <1>7, <1>8, <1>9, <1>10, <1>11 DEF IInv

LEMMA MoveFutureStep ==
  ASSUME IInv, NEW f \in FA, NEW g \in FA, MoveFuture(f, g) PROVE IInv'
<1> USE SortsAreApart
<1>1. /\ TypeOK /\ Sorted /\ BackPointers /\ AttachedOnce /\ Captures
      /\ CanSettle /\ QueuedIsResolved
  BY Parts
<1>2. f # g /\ futr[f].life = "live" /\ futr[g].life = "none"
  BY DEF MoveFuture
<1>3. \A x \in PA :
        /\ prom'[x].fut = IF x = futr[f].prom THEN g ELSE prom[x].fut
        /\ prom'[x].life = prom[x].life /\ prom'[x].state = prom[x].state
        /\ prom'[x].local = prom[x].local /\ prom'[x].task = prom[x].task
        /\ prom'[x].owner = prom[x].owner
  BY <1>1 DEF MoveFuture, TypeOK, PromiseType, FutureType
<1>4. \A x \in FA :
        /\ futr'[x].life = IF x = g THEN "live"
                           ELSE IF x = f THEN "spent" ELSE futr[x].life
        /\ futr'[x].prom = IF x = g THEN futr[f].prom
                           ELSE IF x = f THEN Null ELSE futr[x].prom
  BY <1>1, <1>2 DEF MoveFuture, TypeOK, FutureType
<1>5. tsk' = tsk
  BY DEF MoveFuture
<1>6. TypeOK'
  <2>1. futr[f] \in FutureType
    BY <1>1 DEF TypeOK
  <2>2. futr' \in [FA -> FutureType]
    BY <1>1, <2>1 DEF MoveFuture, TypeOK, FutureType, Content
  <2>3. prom' \in [PA -> PromiseType]
    BY <1>1, UnlinkType DEF MoveFuture, TypeOK, Sorted
  <2> QED
    BY <1>1, <2>2, <2>3 DEF MoveFuture, TypeOK
<1>7. BackPointers'
  BY <1>1, <1>2, <1>3, <1>4 DEF BackPointers, Sorted
<1>8. AttachedOnce'
  BY <1>1, <1>3, <1>5 DEF AttachedOnce, Sorted
<1>9. Captures'
  BY <1>1, <1>3, <1>5 DEF Captures, Sorted
<1>10. CanSettle'
  BY <1>1, <1>3, <1>5 DEF CanSettle, CanSet, PromState, Captures, Sorted
<1>11. QueuedIsResolved'
  BY <1>1, <1>5 DEF QueuedIsResolved
<1> QED
  BY <1>6, <1>7, <1>8, <1>9, <1>10, <1>11 DEF IInv

LEMMA SetOutcomeStep ==
  ASSUME IInv, NEW p \in PA, NEW c \in Outcomes, SetOutcome(p, c) PROVE IInv'
<1> USE SortsAreApart
<1>1. /\ TypeOK /\ Sorted /\ BackPointers /\ AttachedOnce /\ Captures
      /\ CanSettle /\ QueuedIsResolved
  BY Parts
<1>2. prom[p].owner = Null /\ prom[p].life # "none" /\ prom[p].state # "none"
  BY DEF SetOutcome, Held, CanSet
<1>3. futr' = futr
  BY DEF SetOutcome
<1>4. CASE prom[p].state = "task"
  <2>1. prom[p].task \in TA /\ tsk[prom[p].task].life = "attached"
    BY <1>1, <1>4 DEF AttachedOnce, Sorted
  <2>2. \A x \in PA :
          /\ prom'[x].state = IF x = p THEN "none" ELSE prom[x].state
          /\ prom'[x].task = IF x = p THEN Null ELSE prom[x].task
          /\ prom'[x].life = prom[x].life /\ prom'[x].fut = prom[x].fut
          /\ prom'[x].local = prom[x].local /\ prom'[x].owner = prom[x].owner
    BY <1>1, <1>4 DEF SetOutcome, PromAfterSet, TypeOK, PromiseType
  <2>3. \A t \in TA :
          /\ tsk'[t].life = IF t = prom[p].task THEN "queued" ELSE tsk[t].life
          /\ tsk'[t].state = IF t = prom[p].task THEN c ELSE tsk[t].state
          /\ tsk'[t].pr = tsk[t].pr
    BY <1>1, <1>4 DEF SetOutcome, TskAfterSet, TypeOK, TaskType
  <2>4. TypeOK'
    <3>1. prom' \in [PA -> PromiseType]
      BY <1>1, SettledType DEF SetOutcome, TypeOK
    <3>2. tsk' \in [TA -> TaskType]
      BY <1>1, <1>4, <2>1
         DEF SetOutcome, TskAfterSet, TypeOK, TaskType, Content, Outcomes
    <3> QED
      BY <1>1, <3>1, <3>2 DEF SetOutcome, TypeOK
  <2>5. BackPointers'
    BY <1>1, <1>3, <1>4, <2>2 DEF BackPointers, Sorted
  <2>6. AttachedOnce'
    BY <1>1, <1>2, <2>1, <2>2, <2>3 DEF AttachedOnce, Sorted
  <2>7. Captures'
    BY <1>1, <2>1, <2>2, <2>3 DEF Captures, Sorted
  <2>8. CanSettle'
    BY <1>1, <1>2, <2>1, <2>2, <2>3
       DEF CanSettle, CanSet, PromState, Captures, AttachedOnce, Sorted
  <2>9. QueuedIsResolved'
    BY <1>1, <2>3 DEF QueuedIsResolved
  <2> QED
    BY <2>4, <2>5, <2>6, <2>7, <2>8, <2>9 DEF IInv
<1>5. CASE prom[p].state # "task"
  <2>1. \A x \in PA :
          /\ prom'[x].local = IF x = p THEN c ELSE prom[x].local
          /\ prom'[x].life = prom[x].life /\ prom'[x].fut = prom[x].fut
          /\ prom'[x].state = prom[x].state /\ prom'[x].task = prom[x].task
          /\ prom'[x].owner = prom[x].owner
    BY <1>1, <1>5 DEF SetOutcome, PromAfterSet, TypeOK, PromiseType
  <2>2. tsk' = tsk
    BY <1>5 DEF SetOutcome, TskAfterSet
  <2>3. TypeOK'
    <3>1. prom' \in [PA -> PromiseType]
      BY <1>1, SettledType DEF SetOutcome, TypeOK
    <3> QED
      BY <1>1, <2>2, <3>1 DEF SetOutcome, TypeOK
  <2>4. BackPointers'
    BY <1>1, <1>3, <2>1 DEF BackPointers, Sorted
  <2>5. AttachedOnce'
    BY <1>1, <2>1, <2>2 DEF AttachedOnce, Sorted
  <2>6. Captures'
    BY <1>1, <2>1, <2>2 DEF Captures, Sorted
  <2>7. CanSettle'
    BY <1>1, <1>2, <2>1, <2>2
       DEF CanSettle, CanSet, PromState, Captures, AttachedOnce, Sorted
  <2>8. QueuedIsResolved'
    BY <1>1, <2>2 DEF QueuedIsResolved
  <2> QED
    BY <2>3, <2>4, <2>5, <2>6, <2>7, <2>8 DEF IInv
<1> QED
  BY <1>4, <1>5

LEMMA DropFutureStep ==
  ASSUME IInv, NEW f \in FA, DropFuture(f) PROVE IInv'
<1> USE SortsAreApart
<1>1. /\ TypeOK /\ Sorted /\ BackPointers /\ AttachedOnce /\ Captures
      /\ CanSettle /\ QueuedIsResolved
  BY Parts
<1>2. \A x \in PA :
        /\ prom'[x].fut = IF x = futr[f].prom THEN Null ELSE prom[x].fut
        /\ prom'[x].life = prom[x].life /\ prom'[x].state = prom[x].state
        /\ prom'[x].local = prom[x].local /\ prom'[x].task = prom[x].task
        /\ prom'[x].owner = prom[x].owner
  BY <1>1 DEF DropFuture, TypeOK, PromiseType, FutureType
<1>3. \A x \in FA : futr'[x] = IF x = f THEN NoFuture ELSE futr[x]
  BY <1>1 DEF DropFuture, TypeOK
<1>4. tsk' = tsk
  BY DEF DropFuture
<1>5. TypeOK'
  <2>1. prom' \in [PA -> PromiseType]
    BY <1>1, UnlinkType DEF DropFuture, TypeOK, Sorted
  <2>2. NoFuture \in FutureType
    BY DEF NoFuture, FutureType, Content
  <2> QED
    BY <1>1, <2>1, <2>2 DEF DropFuture, TypeOK
<1>6. BackPointers'
  BY <1>1, <1>2, <1>3 DEF BackPointers, Sorted, NoFuture
<1>7. AttachedOnce'
  BY <1>1, <1>2, <1>4 DEF AttachedOnce, Sorted
<1>8. Captures'
  BY <1>1, <1>2, <1>4 DEF Captures, Sorted
<1>9. CanSettle'
  BY <1>1, <1>2, <1>4 DEF CanSettle, CanSet, PromState, Captures, Sorted
<1>10. QueuedIsResolved'
  BY <1>1, <1>4 DEF QueuedIsResolved
<1> QED
  BY <1>5, <1>6, <1>7, <1>8, <1>9, <1>10 DEF IInv

\* What get_available_state() does to every field; the promise it unlinks is
\* resolved, so no continuation still has to resolve it.
LEMMA TakeView ==
  ASSUME IInv, NEW f \in FA, FutState(f) \in Outcomes
  PROVE  /\ PromAfterTake(f) \in [PA -> PromiseType]
         /\ FutAfterTake(f) \in [FA -> FutureType]
         /\ \A x \in PA :
              /\ PromAfterTake(f)[x].fut =
                   IF x = futr[f].prom THEN Null ELSE prom[x].fut
              /\ PromAfterTake(f)[x].local =
                   IF x = futr[f].prom THEN Invalid ELSE prom[x].local
              /\ PromAfterTake(f)[x].life = prom[x].life
              /\ PromAfterTake(f)[x].state = prom[x].state
              /\ PromAfterTake(f)[x].task = prom[x].task
              /\ PromAfterTake(f)[x].owner = prom[x].owner
              /\ x # futr[f].prom => PromAfterTake(f)[x] = prom[x]
         /\ \A x \in FA : /\ x # f => FutAfterTake(f)[x] = futr[x]
                          /\ FutAfterTake(f)[f].life = "spent"
                          /\ FutAfterTake(f)[f].prom = Null
         /\ \A t \in TA : tsk[t].life # "none" => tsk[t].pr # futr[f].prom
<1> USE SortsAreApart
<1>1. /\ TypeOK /\ Sorted /\ BackPointers /\ AttachedOnce /\ Captures
      /\ CanSettle /\ QueuedIsResolved
  BY Parts
<1>2. futr[f] \in FutureType /\ futr[f].prom \in PA \cup {Null}
  BY <1>1 DEF TypeOK, Sorted
<1>3. FutAfterTake(f) \in [FA -> FutureType]
  BY <1>1, <1>2 DEF FutAfterTake, TypeOK, FutureType, Content
<1>4. PromAfterTake(f) \in [PA -> PromiseType]
  <2>1. CASE futr[f].prom = Null
    BY <1>1, <2>1 DEF PromAfterTake, TypeOK
  <2>2. CASE futr[f].prom \in PA
    <3>1. prom[futr[f].prom] \in PromiseType
      BY <1>1, <2>2 DEF TypeOK
    <3>2. [prom[futr[f].prom] EXCEPT !.fut = Null, !.local = Invalid]
            \in PromiseType
      BY <3>1 DEF PromiseType, Content
    <3> QED
      BY <1>1, <2>2, <3>2 DEF PromAfterTake, TypeOK
  <2> QED
    BY <1>2, <2>1, <2>2
<1>5. \A x \in PA :
        /\ PromAfterTake(f)[x].fut =
             IF x = futr[f].prom THEN Null ELSE prom[x].fut
        /\ PromAfterTake(f)[x].local =
             IF x = futr[f].prom THEN Invalid ELSE prom[x].local
        /\ PromAfterTake(f)[x].life = prom[x].life
        /\ PromAfterTake(f)[x].state = prom[x].state
        /\ PromAfterTake(f)[x].task = prom[x].task
        /\ PromAfterTake(f)[x].owner = prom[x].owner
        /\ x # futr[f].prom => PromAfterTake(f)[x] = prom[x]
  BY <1>1, <1>2 DEF PromAfterTake, TypeOK, PromiseType
<1>6. \A x \in FA : /\ x # f => FutAfterTake(f)[x] = futr[x]
                    /\ FutAfterTake(f)[f].life = "spent"
                    /\ FutAfterTake(f)[f].prom = Null
  BY <1>1 DEF FutAfterTake, TypeOK
<1>7. ASSUME NEW t \in TA, tsk[t].life # "none", tsk[t].pr = futr[f].prom
      PROVE  FALSE
  <2>1. tsk[t].pr \in PA /\ CanSet(tsk[t].pr)
    BY <1>1, <1>7 DEF Captures, CanSettle
  <2>2. FutState(f) = Pending
    BY <1>7, <2>1 DEF FutState, CanSet
  <2> QED
    BY <2>2
<1> QED
  BY <1>3, <1>4, <1>5, <1>6, <1>7

\* The state after a take, with any heap F of futures that differs from the
\* taken one only in unlinked futures at free addresses.
LEMMA TakeStep ==
  ASSUME IInv, NEW f \in FA, FutState(f) \in Outcomes,
         prom' = PromAfterTake(f), tsk' = tsk,
         futr' \in [FA -> FutureType],
         \A x \in FA : \/ futr'[x] = FutAfterTake(f)[x]
                       \/ futr[x].life = "none" /\ futr'[x].prom = Null,
         supplied' \subseteq Outcomes, reported' \subseteq Errors,
         delivered' \in [Outcomes -> Nat]
  PROVE  IInv'
<1> USE SortsAreApart
<1>1. /\ TypeOK /\ Sorted /\ BackPointers /\ AttachedOnce /\ Captures
      /\ CanSettle /\ QueuedIsResolved
  BY Parts
<1>2. \A x \in PA :
        /\ prom'[x].fut = IF x = futr[f].prom THEN Null ELSE prom[x].fut
        /\ prom'[x].life = prom[x].life /\ prom'[x].state = prom[x].state
        /\ prom'[x].task = prom[x].task /\ prom'[x].owner = prom[x].owner
        /\ x # futr[f].prom => prom'[x] = prom[x]
  BY TakeView
<1>3. \A x \in FA :
        \/ x # f /\ futr'[x] = futr[x]
        \/ x = f /\ futr'[x].life = "spent" /\ futr'[x].prom = Null
        \/ futr[x].life = "none" /\ futr'[x].prom = Null
  BY TakeView
<1>4. \A t \in TA : tsk[t].life # "none" => tsk[t].pr # futr[f].prom
  BY TakeView
<1>5. TypeOK'
  BY <1>1, TakeView DEF TypeOK
<1>6. BackPointers'
  BY <1>1, <1>2, <1>3 DEF BackPointers, Sorted
<1>7. AttachedOnce'
  BY <1>1, <1>2 DEF AttachedOnce, Sorted
<1>8. Captures'
  BY <1>1, <1>2 DEF Captures, Sorted
<1>9. CanSettle'
  BY <1>1, <1>2, <1>4 DEF CanSettle, CanSet, PromState, Captures, Sorted
<1>10. QueuedIsResolved'
  BY <1>1 DEF QueuedIsResolved
<1> QED
  BY <1>5, <1>6, <1>7, <1>8, <1>9, <1>10 DEF IInv

LEMMA DeliverType ==
  ASSUME TypeOK, NEW c \in Outcomes, Deliver(c)
  PROVE  delivered' \in [Outcomes -> Nat]
BY DEF TypeOK, Deliver

LEMMA GetStep ==
  ASSUME IInv, NEW f \in FA, Get(f) PROVE IInv'
<1>1. TypeOK /\ FutState(f) \in Outcomes
  BY Parts DEF Get, Available
<1>2. delivered' \in [Outcomes -> Nat]
  BY <1>1, DeliverType DEF Get
<1>3. futr' = FutAfterTake(f) /\ prom' = PromAfterTake(f) /\ tsk' = tsk
  BY DEF Get
<1>4. futr' \in [FA -> FutureType]
  BY <1>1, <1>3, TakeView
<1>5. supplied' \subseteq Outcomes /\ reported' \subseteq Errors
  BY <1>1 DEF Get, TypeOK
<1> QED
  BY <1>1, <1>2, <1>3, <1>4, <1>5, TakeStep

\* A ready future put at a free address beside the one that was taken.
LEMMA ReadyBesideTaken ==
  ASSUME IInv, NEW f \in FA, NEW f2 \in FA, NEW c \in Outcomes,
         FutState(f) \in Outcomes, futr[f2].life = "none",
         futr' = [FutAfterTake(f) EXCEPT
                    ![f2] = [life |-> "live", prom |-> Null, local |-> c]]
  PROVE  /\ futr' \in [FA -> FutureType]
         /\ \A x \in FA : \/ futr'[x] = FutAfterTake(f)[x]
                          \/ futr[x].life = "none" /\ futr'[x].prom = Null
<1>1. FutAfterTake(f) \in [FA -> FutureType]
  BY TakeView
<1>2. [life |-> "live", prom |-> Null, local |-> c] \in FutureType
  BY DEF FutureType, Content
<1> QED
  BY <1>1, <1>2

LEMMA ThenNowStep ==
  ASSUME IInv, NEW f \in FA, NEW f2 \in FA, NEW k \in Kinds,
         NEW c \in Outcomes, ThenNow(f, f2, k, c)
  PROVE  IInv'
<1>1. TypeOK /\ FutState(f) \in Outcomes /\ futr[f2].life = "none"
  BY Parts DEF ThenNow, Outcomes
<1>2. delivered' \in [Outcomes -> Nat]
  BY <1>1, DeliverType DEF ThenNow
<1>3. /\ futr' \in [FA -> FutureType]
      /\ \A x \in FA : \/ futr'[x] = FutAfterTake(f)[x]
                       \/ futr[x].life = "none" /\ futr'[x].prom = Null
  BY <1>1, ReadyBesideTaken DEF ThenNow
<1>4. supplied' \subseteq Outcomes /\ reported' \subseteq Errors
  BY <1>1 DEF ThenNow, TypeOK
<1>5. prom' = PromAfterTake(f) /\ tsk' = tsk
  BY DEF ThenNow
<1> QED
  BY <1>1, <1>2, <1>3, <1>4, <1>5, TakeStep

LEMMA ThenNowPassesOnStep ==
  ASSUME IInv, NEW f \in FA, NEW f2 \in FA, NEW k \in Kinds,
         ThenNowPassesOn(f, f2, k)
  PROVE  IInv'
<1>1. TypeOK /\ FutState(f) \in Outcomes /\ futr[f2].life = "none"
  BY Parts DEF ThenNowPassesOn, Outcomes
<1>2. /\ futr' \in [FA -> FutureType]
      /\ \A x \in FA : \/ futr'[x] = FutAfterTake(f)[x]
                       \/ futr[x].life = "none" /\ futr'[x].prom = Null
  BY <1>1, ReadyBesideTaken DEF ThenNowPassesOn
<1>3. /\ supplied' \subseteq Outcomes /\ reported' \subseteq Errors
      /\ delivered' \in [Outcomes -> Nat]
  BY <1>1 DEF ThenNowPassesOn, TypeOK
<1>4. prom' = PromAfterTake(f) /\ tsk' = tsk
  BY DEF ThenNowPassesOn
<1> QED
  BY <1>1, <1>2, <1>3, <1>4, TakeStep

\* A continuation that starts keeps the promise it captured.
LEMMA StartedTask ==
  ASSUME IInv, NEW t \in TA, tsk[t].life = "queued",
         CallFunction(t),
         UNCHANGED <<prom, futr, supplied>>, reported' \subseteq Errors,
         delivered' \in [Outcomes -> Nat]
  PROVE  IInv'
<1> USE SortsAreApart
<1>1. /\ TypeOK /\ Sorted /\ BackPointers /\ AttachedOnce /\ Captures
      /\ CanSettle /\ QueuedIsResolved
  BY Parts
<1>2. \A s \in TA :
        /\ tsk'[s].life = IF s = t THEN "running" ELSE tsk[s].life
        /\ tsk'[s].pr = tsk[s].pr
        /\ s # t => tsk'[s] = tsk[s]
  BY <1>1 DEF CallFunction, TypeOK, TaskType
<1>3. TypeOK'
  <2>1. tsk[t] \in TaskType
    BY <1>1 DEF TypeOK
  <2>2. [tsk[t] EXCEPT !.life = "running", !.state = Invalid] \in TaskType
    BY <2>1 DEF TaskType, Content
  <2>3. tsk' \in [TA -> TaskType]
    BY <1>1, <2>2 DEF CallFunction, TypeOK
  <2> QED
    BY <1>1, <2>3 DEF TypeOK
<1>4. BackPointers'
  BY <1>1 DEF BackPointers
<1>5. AttachedOnce'
  BY <1>1, <1>2 DEF AttachedOnce, Sorted
<1>6. Captures'
  BY <1>1, <1>2 DEF Captures, Sorted
<1>7. CanSettle'
  BY <1>1, <1>2
     DEF CanSettle, CanSet, PromState, Captures, AttachedOnce, Sorted
<1>8. QueuedIsResolved'
  BY <1>1, <1>2 DEF QueuedIsResolved
<1> QED
  BY <1>3, <1>4, <1>5, <1>6, <1>7, <1>8 DEF IInv

LEMMA StartStep ==
  ASSUME IInv, NEW t \in TA, Start(t) PROVE IInv'
<1>1. TypeOK /\ tsk[t].state \in Outcomes
  BY Parts DEF Start, Outcomes
<1>2. delivered' \in [Outcomes -> Nat] /\ reported' \subseteq Errors
  BY <1>1, DeliverType DEF Start, TypeOK
<1> QED
  BY <1>2, StartedTask DEF Start

LEMMA IgnoreStep ==
  ASSUME IInv, NEW t \in TA, Ignore(t) PROVE IInv'
<1>1. TypeOK
  BY Parts
<1>2. delivered' \in [Outcomes -> Nat] /\ reported' \subseteq Errors
  BY <1>1 DEF Ignore, TypeOK
<1> QED
  BY <1>2, StartedTask DEF Ignore

\* The objects then() creates are well typed.
LEMMA ThenTypes ==
  ASSUME NEW p2 \in PA, NEW f2 \in FA, NEW t \in TA, NEW k \in Kinds,
         NEW c \in Content, NEW l \in {"attached", "queued"}
  PROVE  /\ Captured(t, f2) \in PromiseType
         /\ ResultOf(p2) \in FutureType
         /\ [life |-> l, state |-> c, pr |-> p2, kind |-> k] \in TaskType
<1>1. Captured(t, f2) \in PromiseType
  BY DEF Captured, PromiseType, Content
<1>2. ResultOf(p2) \in FutureType
  BY DEF ResultOf, FutureType, Content
<1>3. [life |-> l, state |-> c, pr |-> p2, kind |-> k] \in TaskType
  BY DEF TaskType, Kinds
<1> QED
  BY <1>1, <1>2, <1>3

LEMMA ThenScheduledStep ==
  ASSUME IInv, NEW f \in FA, NEW p2 \in PA, NEW f2 \in FA, NEW t \in TA,
         NEW k \in Kinds, ThenScheduled(f, p2, f2, t, k)
  PROVE  IInv'
<1> USE SortsAreApart
<1>1. /\ TypeOK /\ Sorted /\ BackPointers /\ AttachedOnce /\ Captures
      /\ CanSettle /\ QueuedIsResolved
  BY Parts
<1>2. /\ futr[f].life = "live" /\ prom[p2].life = "none"
      /\ futr[f2].life = "none" /\ tsk[t].life = "none" /\ f # f2
      /\ FutState(f) \in Outcomes
  BY DEF ThenScheduled, RoomForThen, Available
<1>3. futr[f].prom # p2
  BY <1>1, <1>2 DEF BackPointers
<1>4. \A x \in PA :
        /\ x = p2 => prom'[x] = Captured(t, f2)
        /\ x # p2 => /\ prom'[x].life = prom[x].life
                     /\ prom'[x].fut = prom[x].fut
                     /\ prom'[x].state = prom[x].state
                     /\ prom'[x].task = prom[x].task
                     /\ prom'[x].owner = prom[x].owner
                     /\ x # futr[f].prom => prom'[x] = prom[x]
  BY <1>1, <1>2, <1>3 DEF ThenScheduled, TypeOK, PromiseType
<1>5. \A x \in FA :
        /\ x = f2 => futr'[x] = ResultOf(p2)
        /\ x # f2 => /\ futr'[x].prom = futr[x].prom
                     /\ futr'[x].life = "none" <=> futr[x].life = "none"
  BY <1>1, <1>2 DEF ThenScheduled, TypeOK, FutureType
<1>6. \A s \in TA :
        tsk'[s] = IF s = t THEN [life |-> "queued", state |-> FutState(f),
                                 pr |-> p2, kind |-> k]
                  ELSE tsk[s]
  BY <1>1 DEF ThenScheduled, TypeOK
<1>7. Captured(t, f2) = [life |-> "bound", fut |-> f2, state |-> "local",
                         local |-> Pending, task |-> Null, owner |-> t]
  BY DEF Captured
<1>8. ResultOf(p2) = [life |-> "live", prom |-> p2, local |-> Pending]
  BY DEF ResultOf
<1>9. TypeOK'
  <2>1. FutState(f) \in Content
    BY <1>2 DEF Content
  <2>2. futr[f] \in FutureType /\ prom \in [PA -> PromiseType]
    BY <1>1 DEF TypeOK
  <2>3. prom' \in [PA -> PromiseType]
    <3>1. CASE futr[f].prom = Null
      BY <2>1, <2>2, <3>1, ThenTypes DEF ThenScheduled
    <3>2. CASE futr[f].prom \in PA
      <4>1. [prom[futr[f].prom] EXCEPT !.local = Invalid] \in PromiseType
        BY <2>2, <3>2 DEF PromiseType, Content
      <4> QED
        BY <2>1, <2>2, <3>2, <4>1, ThenTypes DEF ThenScheduled
    <3> QED
      BY <1>1, <3>1, <3>2 DEF Sorted
  <2>4. futr' \in [FA -> FutureType]
    <3>1. [futr[f] EXCEPT !.life = "spent",
             !.local = IF futr[f].prom = Null THEN Invalid ELSE @]
            \in FutureType
      BY <2>2 DEF FutureType, Content
    <3>2. ResultOf(p2) \in FutureType
      BY <2>1, ThenTypes
    <3> QED
      BY <1>1, <1>2, <3>1, <3>2 DEF ThenScheduled, TypeOK
  <2>5. tsk' \in [TA -> TaskType]
    BY <1>1, <2>1, ThenTypes DEF ThenScheduled, TypeOK
  <2> QED
    BY <1>1, <2>3, <2>4, <2>5 DEF ThenScheduled, TypeOK
<1>10. BackPointers'
  BY <1>1, <1>2, <1>3, <1>4, <1>5, <1>7, <1>8 DEF BackPointers, Sorted
<1>11. AttachedOnce'
  BY <1>1, <1>2, <1>4, <1>6, <1>7 DEF AttachedOnce, Sorted
<1>12. Captures'
  BY <1>1, <1>2, <1>4, <1>6, <1>7 DEF Captures, Sorted
<1>13. CanSettle'
  <2>1. ASSUME NEW s \in TA, s # t, tsk[s].life # "none"
        PROVE  tsk[s].pr \in PA /\ prom'[tsk[s].pr] = prom[tsk[s].pr]
    <3>1. tsk[s].pr # futr[f].prom
      BY <1>2, <2>1, TakeView
    <3> QED
      BY <1>1, <1>2, <1>4, <2>1, <3>1 DEF Captures
  <2>2. ASSUME NEW s \in TA, s # t, tsk[s].life # "none"
        PROVE  CanSet(tsk[s].pr)'
    <3>1. CanSet(tsk[s].pr)
      BY <1>1, <2>2 DEF CanSettle
    <3> QED
      BY <1>1, <1>2, <1>6, <2>1, <2>2, <3>1
         DEF CanSet, PromState, AttachedOnce, Sorted
  <2>3. CanSet(p2)'
    BY <1>4, <1>7 DEF CanSet, PromState
  <2> QED
    BY <1>6, <2>2, <2>3 DEF CanSettle
<1>14. QueuedIsResolved'
  BY <1>1, <1>2, <1>6 DEF QueuedIsResolved
<1> QED
  BY <1>9, <1>10, <1>11, <1>12, <1>13, <1>14 DEF IInv

LEMMA ThenAttachedStep ==
  ASSUME IInv, NEW f \in FA, NEW p2 \in PA, NEW f2 \in FA, NEW t \in TA,
         NEW k \in Kinds, ThenAttached(f, p2, f2, t, k)
  PROVE  IInv'
<1> USE SortsAreApart
<1>1. /\ TypeOK /\ Sorted /\ BackPointers /\ AttachedOnce /\ Captures
      /\ CanSettle /\ QueuedIsResolved
  BY Parts
<1> DEFINE p == futr[f].prom
<1>2. /\ futr[f].life = "live" /\ prom[p2].life = "none"
      /\ futr[f2].life = "none" /\ tsk[t].life = "none" /\ f # f2
      /\ p \in PA /\ p # p2 /\ prom[p].fut = f /\ prom[p].life = "bound"
      /\ prom[p].state = "local" /\ prom[p].task = Null
      /\ prom[p].local = Pending
  BY <1>1 DEF ThenAttached, RoomForThen, Sorted, BackPointers, FutState, PromState
<1>3. \A x \in PA :
        /\ x = p2 => prom'[x] = Captured(t, f2)
        /\ x = p => /\ prom'[x].fut = Null /\ prom'[x].state = "task"
                    /\ prom'[x].task = t /\ prom'[x].life = "bound"
                    /\ prom'[x].owner = prom[x].owner
        /\ x \notin {p, p2} => prom'[x] = prom[x]
  BY <1>1, <1>2 DEF ThenAttached, TypeOK, PromiseType
<1>4. \A x \in FA :
        /\ x = f2 => futr'[x] = ResultOf(p2)
        /\ x = f => futr'[x].prom = Null /\ futr'[x].life = "spent"
        /\ x \notin {f, f2} => futr'[x] = futr[x]
  BY <1>1, <1>2 DEF ThenAttached, TypeOK, FutureType
<1>5. \A s \in TA :
        tsk'[s] = IF s = t THEN [life |-> "attached", state |-> Pending,
                                 pr |-> p2, kind |-> k]
                  ELSE tsk[s]
  BY <1>1 DEF ThenAttached, TypeOK
<1>6. Captured(t, f2) = [life |-> "bound", fut |-> f2, state |-> "local",
                         local |-> Pending, task |-> Null, owner |-> t]
  BY DEF Captured
<1>7. ResultOf(p2) = [life |-> "live", prom |-> p2, local |-> Pending]
  BY DEF ResultOf
<1>8. TypeOK'
  <2>1. prom[p] \in PromiseType /\ futr[f] \in FutureType
    BY <1>1, <1>2 DEF TypeOK
  <2>2. [prom[p] EXCEPT !.fut = Null, !.state = "task", !.task = t]
          \in PromiseType
    BY <2>1 DEF PromiseType
  <2>3. [futr[f] EXCEPT !.life = "spent", !.prom = Null] \in FutureType
    BY <2>1 DEF FutureType
  <2>4. Pending \in Content
    BY DEF Content
  <2>5. prom' \in [PA -> PromiseType]
    BY <1>1, <1>2, <2>2, <2>4, ThenTypes DEF ThenAttached, TypeOK
  <2>6. futr' \in [FA -> FutureType]
    BY <1>1, <1>2, <2>3, <2>4, ThenTypes DEF ThenAttached, TypeOK
  <2>7. tsk' \in [TA -> TaskType]
    BY <1>1, <2>4, ThenTypes DEF ThenAttached, TypeOK
  <2> QED
    BY <1>1, <2>5, <2>6, <2>7 DEF ThenAttached, TypeOK
<1> HIDE DEF p
<1>9. BackPointers'
  BY <1>1, <1>2, <1>3, <1>4, <1>6, <1>7 DEF BackPointers, Sorted, p
<1>10. AttachedOnce'
  BY <1>1, <1>2, <1>3, <1>5, <1>6 DEF AttachedOnce, Sorted
<1>11. Captures'
  BY <1>1, <1>2, <1>3, <1>5, <1>6 DEF Captures, Sorted
<1>12. CanSettle'
  <2>1. ASSUME NEW s \in TA, s # t, tsk[s].life # "none"
        PROVE  CanSet(tsk[s].pr)'
    <3>1. CanSet(tsk[s].pr) /\ tsk[s].pr \in PA /\ tsk[s].pr # p2
      BY <1>1, <1>2, <2>1 DEF CanSettle, Captures
    <3>2. CASE tsk[s].pr = p
      BY <1>2, <1>3, <1>5, <2>1, <3>1, <3>2 DEF CanSet, PromState
    <3>3. CASE tsk[s].pr # p
      BY <1>1, <1>2, <1>3, <1>5, <2>1, <3>1, <3>3
         DEF CanSet, PromState, AttachedOnce, Sorted
    <3> QED
      BY <3>2, <3>3
  <2>2. CanSet(p2)'
    BY <1>3, <1>6 DEF CanSet, PromState
  <2> QED
    BY <1>5, <2>1, <2>2 DEF CanSettle
<1>13. QueuedIsResolved'
  BY <1>1, <1>5 DEF QueuedIsResolved
<1> QED
  BY <1>8, <1>9, <1>10, <1>11, <1>12, <1>13 DEF IInv

\* How the heaps look after continuation t settled its captured promise with c.
SettledHeaps(t, c, P, F) ==
  LET pr == tsk[t].pr
      u == prom[pr].task
  IN  /\ pr \in PA
      /\ \A x \in PA : prom'[x] = IF x = pr THEN NoPromise ELSE P[x]
      /\ \A x \in FA : /\ futr'[x].life = F[x].life
                       /\ futr'[x].prom = IF x = prom[pr].fut THEN Null
                                          ELSE F[x].prom
                       /\ futr'[x].local = IF x = prom[pr].fut THEN c
                                           ELSE F[x].local
      /\ reported' = reported \cup
            IF prom[pr].fut = Null /\ u = Null THEN {c} \cap Errors ELSE {}
      /\ u # Null => /\ u \in TA /\ u # t /\ tsk[u].life = "attached"
                     /\ tsk'[u].life = "queued" /\ tsk'[u].state = c
                     /\ tsk'[u].pr = tsk[u].pr
      /\ tsk'[t] = NoTask
      /\ \A s \in TA : s \notin {t, u} => tsk'[s] = tsk[s]
      /\ prom' \in [PA -> PromiseType]
      /\ futr' \in [FA -> FutureType]
      /\ tsk' \in [TA -> TaskType]

\* What settling continuation t does to every field of the heaps P, F and tsk
\* it starts from.  The captured promise dies; its future, or the continuation
\* attached to it, has the outcome.
LEMMA SettleView ==
  ASSUME IInv, NEW t \in TA, tsk[t].life \in {"queued", "running"},
         NEW c \in Outcomes,
         NEW P \in [PA -> PromiseType], NEW F \in [FA -> FutureType],
         P[tsk[t].pr] = prom[tsk[t].pr],
         Settle(t, c, P, F)
  PROVE  SettledHeaps(t, c, P, F)
<1> USE SortsAreApart
<1>1. /\ TypeOK /\ Sorted /\ BackPointers /\ AttachedOnce /\ Captures
      /\ CanSettle /\ QueuedIsResolved
  BY Parts
<1> DEFINE pr == tsk[t].pr
           u == prom[pr].task
           P1 == PromAfterSet(P, pr, c)
           T1 == TskAfterSet(P, tsk, pr, c)
<1>2. /\ pr \in PA /\ P[pr] = prom[pr] /\ prom[pr].owner = t
      /\ prom[pr].state # "none" /\ PromState(prom, tsk, pr) = Pending
  BY <1>1 DEF Captures, CanSettle, CanSet
<1>3. /\ u # Null => /\ u \in TA /\ u # t /\ tsk[u].life = "attached"
      /\ prom[pr].state = "task" <=> u # Null
  BY <1>1, <1>2 DEF AttachedOnce, Sorted
<1>4. /\ prom' = [P1 EXCEPT ![pr] = NoPromise]
      /\ tsk' = [T1 EXCEPT ![t] = NoTask]
      /\ futr' = FutAfterAbandon(P1, T1, F, {pr})
  BY DEF Settle
<1>5. /\ P1 \in [PA -> PromiseType]
      /\ \A x \in PA : x # pr => P1[x] = P[x]
      /\ P1[pr].fut = prom[pr].fut
      /\ P1[pr].state # "task"
  <2>1. P1 \in [PA -> PromiseType]
    BY <1>2, SettledType
  <2>2. P[pr] \in PromiseType
    BY <1>2
  <2>3. CASE P[pr].state = "task"
    <3>1. P1 = [P EXCEPT ![pr].state = "none", ![pr].task = Null]
      BY <2>3 DEF PromAfterSet
    <3> HIDE DEF P1
    <3>2. \A x \in PA : x # pr => P1[x] = P[x]
      BY <3>1
    <3>3. P1[pr] = [P[pr] EXCEPT !.state = "none", !.task = Null]
      BY <1>2, <3>1
    <3>4. P1[pr].fut = P[pr].fut /\ P1[pr].state = "none"
      BY <2>2, <3>3 DEF PromiseType
    <3> QED
      BY <1>2, <2>1, <3>2, <3>4
  <2>4. CASE P[pr].state # "task"
    <3>1. P1 = [P EXCEPT ![pr].local = c]
      BY <2>4 DEF PromAfterSet
    <3> HIDE DEF P1
    <3> QED
      BY <1>2, <2>1, <2>2, <2>4, <3>1 DEF PromiseType
  <2> QED
    BY <2>3, <2>4
<1>6. NoPromise \in PromiseType /\ NoTask \in TaskType
  BY DEF NoPromise, NoTask, PromiseType, TaskType, Content
<1>7. prom' \in [PA -> PromiseType]
  BY <1>4, <1>5, <1>6
<1>8. \A x \in PA : prom'[x] = IF x = pr THEN NoPromise ELSE P[x]
  BY <1>2, <1>4, <1>5
<1>9. T1 \in [TA -> TaskType]
  <2>1. CASE prom[pr].state = "task"
    <3>1. tsk[u] \in TaskType
      BY <1>1, <1>3, <2>1 DEF TypeOK
    <3>2. [tsk[u] EXCEPT !.state = c, !.life = "queued"] \in TaskType
      BY <3>1 DEF TaskType, Content
    <3> QED
      BY <1>1, <1>2, <1>3, <2>1, <3>2 DEF TskAfterSet, TypeOK
  <2>2. CASE prom[pr].state # "task"
    BY <1>1, <1>2, <2>2 DEF TskAfterSet, TypeOK
  <2> QED
    BY <2>1, <2>2
<1>10. /\ u # Null => /\ T1[u].life = "queued" /\ T1[u].state = c
                      /\ T1[u].pr = tsk[u].pr
       /\ \A s \in TA : s # u => T1[s] = tsk[s]
  <2>1. tsk \in [TA -> TaskType]
    BY <1>1 DEF TypeOK
  <2>2. CASE P[pr].state = "task"
    <3>1. T1 = [tsk EXCEPT ![u].state = c, ![u].life = "queued"]
      BY <1>2, <2>2 DEF TskAfterSet
    <3> HIDE DEF T1, u
    <3>2. CASE u # Null
      <4>1. u \in TA /\ tsk[u] \in TaskType
        BY <1>3, <2>1, <3>2
      <4> QED
        BY <2>1, <3>1, <4>1 DEF TaskType
    <3>3. u # Null
      BY <1>2, <1>3, <2>2
    <3> QED
      BY <3>2, <3>3
  <2>3. CASE P[pr].state # "task"
    <3>1. T1 = tsk
      BY <2>3 DEF TskAfterSet
    <3>2. u = Null
      BY <1>2, <1>3, <2>3
    <3> QED
      BY <3>1, <3>2
  <2> QED
    BY <2>2, <2>3
<1>11. tsk' \in [TA -> TaskType]
  BY <1>4, <1>6, <1>9
<1>12. /\ tsk'[t] = NoTask
       /\ \A s \in TA : s \notin {t, u} => tsk'[s] = tsk[s]
       /\ u # Null => /\ tsk'[u].life = "queued" /\ tsk'[u].state = c
                      /\ tsk'[u].pr = tsk[u].pr
  BY <1>3, <1>4, <1>9, <1>10
<1>13. PromState(P1, T1, pr) \in Content
  BY <1>2, <1>5 DEF PromState, PromiseType
<1>14. futr' = [x \in FA |->
          IF x = prom[pr].fut
            THEN [F[x] EXCEPT !.local = PromState(P1, T1, pr), !.prom = Null]
            ELSE F[x]]
  <2>1. ASSUME NEW x \in FA
        PROVE  /\ (\E q \in {pr} : P1[q].fut = x) <=> x = prom[pr].fut
               /\ x = prom[pr].fut =>
                    (CHOOSE q \in {pr} : P1[q].fut = x) = pr
    BY <1>5
  <2> QED
    BY <1>4, <2>1 DEF FutAfterAbandon
<1>15. futr' \in [FA -> FutureType]
  <2>1. ASSUME NEW x \in FA
        PROVE  [F[x] EXCEPT !.local = PromState(P1, T1, pr), !.prom = Null]
                 \in FutureType
    <3>1. F[x] \in FutureType
      OBVIOUS
    <3> QED
      BY <1>13, <3>1 DEF FutureType
  <2> QED
    BY <1>14, <2>1
<1>16. u = Null => PromState(P1, T1, pr) = c
  <2>1. P[pr] \in PromiseType
    BY <1>2
  <2> QED
    BY <1>2, <1>3, <2>1 DEF PromState, PromAfterSet, PromiseType
<1>17. \A x \in FA : /\ futr'[x].life = F[x].life
                     /\ futr'[x].prom = IF x = prom[pr].fut THEN Null
                                        ELSE F[x].prom
                     /\ futr'[x].local = IF x = prom[pr].fut THEN c
                                         ELSE F[x].local
  <2>2. prom[pr].fut # Null => u = Null
    BY <1>1, <1>2 DEF BackPointers, Sorted
  <2>3. ASSUME NEW x \in FA, x = prom[pr].fut
        PROVE  futr'[x] = [F[x] EXCEPT !.local = c, !.prom = Null]
    <3>1. PromState(P1, T1, pr) = c
      BY <1>16, <2>2, <2>3
    <3> HIDE DEF pr, u, P1, T1
    <3> QED
      BY <1>14, <2>3, <3>1
  <2>4. \A x \in FA : x # prom[pr].fut => futr'[x] = F[x]
    BY <1>14
  <2> SUFFICES ASSUME NEW x \in FA
               PROVE  /\ futr'[x].life = F[x].life
                      /\ futr'[x].prom = IF x = prom[pr].fut THEN Null
                                         ELSE F[x].prom
                      /\ futr'[x].local = IF x = prom[pr].fut THEN c
                                          ELSE F[x].local
    OBVIOUS
  <2>5. F[x] \in FutureType
    OBVIOUS
  <2>6. CASE x = prom[pr].fut
    BY <2>3, <2>5, <2>6 DEF FutureType
  <2>7. CASE x # prom[pr].fut
    BY <2>4, <2>7
  <2> QED
    BY <2>6, <2>7
<1>18. reported' = reported \cup
         IF prom[pr].fut = Null /\ u = Null THEN {c} \cap Errors ELSE {}
  <2>1. reported' = reported \cup ReportsOfAbandon(P1, T1, {pr})
    BY DEF Settle
  <2>2. CASE u = Null
    <3>1. P1[pr].state # "none"
      BY <1>2, <1>3, <2>2 DEF PromAfterSet
    <3> QED
      BY <1>5, <1>16, <2>1, <2>2, <3>1 DEF ReportsOfAbandon
  <2>3. CASE u # Null
    <3>1. P1[pr].state = "none"
      <4>1. P[pr] \in PromiseType
        BY <1>2
      <4> QED
        BY <1>2, <1>3, <2>3, <4>1 DEF PromAfterSet, PromiseType
    <3> QED
      BY <2>1, <2>3, <3>1 DEF ReportsOfAbandon
  <2> QED
    BY <2>2, <2>3
<1> QED
  BY <1>2, <1>3, <1>7, <1>8, <1>11, <1>12, <1>15, <1>17, <1>18 DEF SettledHeaps

\* P and F are the heaps after taking from, and destroying, the futures in G,
\* which are those linked to ip; no continuation captured ip.
TakenHeaps(P, F, ip, G) ==
  /\ P \in [PA -> PromiseType] /\ F \in [FA -> FutureType]
  /\ ip \in PA \cup {Null} /\ G \subseteq FA
  /\ \A s \in TA : tsk[s].life # "none" => tsk[s].pr # ip
  /\ \A x \in PA : /\ P[x].fut = IF x = ip THEN Null ELSE prom[x].fut
                   /\ P[x].life = prom[x].life
                   /\ P[x].state = prom[x].state
                   /\ P[x].task = prom[x].task
                   /\ P[x].owner = prom[x].owner
                   /\ x # ip => P[x] = prom[x]
  /\ \A x \in FA : IF x \in G THEN futr[x].prom = ip /\ F[x].prom = Null
                              ELSE F[x] = futr[x]
  /\ ip # Null => prom[ip].fut \in G

\* Settling preserves the invariant, whether the function returned a value or
\* an available future g: then g has been taken and destroyed.
LEMMA SettleStep ==
  ASSUME IInv, NEW t \in TA, tsk[t].life \in {"queued", "running"},
         NEW c \in Outcomes,
         NEW P, NEW F, NEW ip, NEW G, TakenHeaps(P, F, ip, G),
         Settle(t, c, P, F),
         supplied' \subseteq Outcomes, delivered' \in [Outcomes -> Nat]
  PROVE  IInv'
<1> USE SortsAreApart
<1>1. /\ TypeOK /\ Sorted /\ BackPointers /\ AttachedOnce /\ Captures
      /\ CanSettle /\ QueuedIsResolved
  BY Parts
<1> DEFINE pr == tsk[t].pr
           u == prom[pr].task
<1>2. pr \in PA /\ pr # ip /\ prom[pr].owner = t /\ P[pr] = prom[pr]
  BY <1>1 DEF Captures, TakenHeaps
<1>3. /\ \A x \in PA : prom'[x] = IF x = pr THEN NoPromise ELSE P[x]
      /\ \A x \in FA : /\ futr'[x].life = F[x].life
                       /\ futr'[x].prom = IF x = prom[pr].fut THEN Null
                                          ELSE F[x].prom
      /\ u # Null => /\ u \in TA /\ u # t /\ tsk[u].life = "attached"
                     /\ tsk'[u].life = "queued" /\ tsk'[u].state = c
                     /\ tsk'[u].pr = tsk[u].pr
      /\ tsk'[t] = NoTask
      /\ \A s \in TA : s \notin {t, u} => tsk'[s] = tsk[s]
      /\ prom' \in [PA -> PromiseType] /\ futr' \in [FA -> FutureType]
      /\ tsk' \in [TA -> TaskType]
  <2>1. P \in [PA -> PromiseType] /\ F \in [FA -> FutureType]
    BY DEF TakenHeaps
  <2>2. SettledHeaps(t, c, P, F)
    BY <1>2, <2>1, SettleView
  <2> QED
    BY <2>2 DEF SettledHeaps
<1>4. /\ NoPromise.life = "none" /\ NoPromise.fut = Null
      /\ NoPromise.state = "none" /\ NoPromise.task = Null
      /\ NoPromise.owner = Null
      /\ NoTask.life = "none" /\ NoTask.pr = Null
  BY DEF NoPromise, NoTask
<1>5. TypeOK'
  <2>1. reported' \subseteq Errors
    BY <1>1 DEF Settle, ReportsOfAbandon, TypeOK
  <2> QED
    BY <1>3, <2>1 DEF TypeOK
<1> HIDE DEF pr, u
<1>6. BackPointers'
  <2>1. ASSUME NEW f \in FA, futr'[f].prom # Null
        PROVE  /\ futr'[f].life # "none" /\ prom'[futr'[f].prom].life = "bound"
               /\ prom'[futr'[f].prom].fut = f
               /\ prom'[futr'[f].prom].state = "local"
               /\ prom'[futr'[f].prom].task = Null
    <3>1. f # prom[pr].fut /\ F[f].prom # Null /\ futr'[f].prom = F[f].prom
      BY <1>3, <2>1
    <3>2. f \notin G /\ F[f] = futr[f]
      BY <3>1 DEF TakenHeaps
    <3>3. PICK x \in PA : x = futr[f].prom
      BY <1>1, <3>1, <3>2 DEF Sorted
    <3>4. /\ futr[f].life # "none" /\ prom[x].life = "bound" /\ prom[x].fut = f
          /\ prom[x].state = "local" /\ prom[x].task = Null
      BY <1>1, <3>1, <3>2, <3>3 DEF BackPointers
    <3>5. x # ip /\ x # pr
      BY <3>1, <3>2, <3>4 DEF TakenHeaps
    <3> QED
      BY <1>3, <3>1, <3>2, <3>3, <3>4, <3>5 DEF TakenHeaps
  <2>2. ASSUME NEW x \in PA, prom'[x].fut # Null
        PROVE  futr'[prom'[x].fut].life # "none" /\ futr'[prom'[x].fut].prom = x
    <3>1. x # pr /\ x # ip /\ prom'[x].fut = prom[x].fut
      BY <1>3, <1>4, <2>2 DEF TakenHeaps
    <3>2. PICK f \in FA : f = prom[x].fut
      BY <1>1, <2>2, <3>1 DEF Sorted
    <3>3. futr[f].life # "none" /\ futr[f].prom = x
      BY <1>1, <2>2, <3>1, <3>2 DEF BackPointers
    <3>4. f \notin G /\ F[f] = futr[f]
      BY <3>1, <3>3 DEF TakenHeaps
    <3>5. f # prom[pr].fut
      BY <1>1, <1>2, <3>1, <3>3 DEF BackPointers
    <3> QED
      BY <1>3, <3>1, <3>2, <3>3, <3>4, <3>5
  <2> QED
    BY <2>1, <2>2 DEF BackPointers
<1>7. AttachedOnce'
  <2>1. \A x \in PA : /\ x # pr => /\ prom'[x].task = prom[x].task
                                   /\ prom'[x].state = prom[x].state
                                   /\ prom'[x].life = prom[x].life
                      /\ x = pr => /\ prom'[x].task = Null
                                   /\ prom'[x].state = "none"
    BY <1>3, <1>4 DEF TakenHeaps
  <2>2. \A x \in PA : x # pr /\ prom[x].task # Null =>
          prom[x].task \in TA /\ prom[x].task # u
    BY <1>1, <1>2 DEF AttachedOnce, Sorted, u
  <2>3. \A x \in PA : x # pr /\ prom[x].task # Null =>
          prom[x].task # t
    BY <1>1 DEF AttachedOnce
  <2>4. ASSUME NEW x \in PA
        PROVE  /\ (prom'[x].state = "task") <=> (prom'[x].task # Null)
               /\ prom'[x].task # Null =>
                    /\ prom'[x].life = "bound"
                    /\ tsk'[prom'[x].task].life = "attached"
                    /\ tsk'[prom'[x].task].state = Pending
    BY <1>1, <1>3, <2>1, <2>2, <2>3 DEF AttachedOnce
  <2>5. ASSUME NEW s \in TA, tsk'[s].life = "attached"
        PROVE  \E x \in PA : prom'[x].task = s
    <3>1. s \notin {t, u} /\ tsk[s].life = "attached"
      BY <1>3, <1>4, <2>5
    <3>2. PICK x \in PA : prom[x].task = s
      BY <1>1, <3>1 DEF AttachedOnce
    <3> QED
      BY <2>1, <3>1, <3>2 DEF u
  <2>6. \A x, y \in PA :
          prom'[x].task = prom'[y].task /\ prom'[x].task # Null => x = y
    BY <1>1, <2>1 DEF AttachedOnce
  <2> QED
    BY <2>4, <2>5, <2>6 DEF AttachedOnce
<1>8. Captures'
  <2>1. ASSUME NEW s \in TA, tsk'[s].life # "none"
        PROVE  /\ tsk'[s].pr \in PA /\ prom'[tsk'[s].pr].life = "bound"
               /\ prom'[tsk'[s].pr].owner = s
    <3>1. s # t /\ tsk'[s].pr = tsk[s].pr /\ tsk[s].life # "none"
      BY <1>3, <1>4, <2>1
    <3>2. PICK x \in PA : x = tsk[s].pr
      BY <1>1, <3>1 DEF Captures
    <3>3. prom[x].life = "bound" /\ prom[x].owner = s /\ x # pr
      BY <1>1, <1>2, <3>1, <3>2 DEF Captures
    <3> QED
      BY <1>3, <3>1, <3>2, <3>3 DEF TakenHeaps
  <2>2. ASSUME NEW x \in PA, prom'[x].owner # Null
        PROVE  tsk'[prom'[x].owner].life # "none" /\ tsk'[prom'[x].owner].pr = x
    <3>1. x # pr /\ prom'[x].owner = prom[x].owner
      BY <1>3, <1>4, <2>2 DEF TakenHeaps
    <3>2. PICK s \in TA : s = prom[x].owner
      BY <1>1, <2>2, <3>1 DEF Sorted
    <3>3. tsk[s].life # "none" /\ tsk[s].pr = x /\ s # t
      BY <1>1, <2>2, <3>1, <3>2 DEF Captures, pr
    <3> QED
      BY <1>3, <3>1, <3>2, <3>3
  <2> QED
    BY <2>1, <2>2 DEF Captures
<1>9. CanSettle'
  <2>1. ASSUME NEW s \in TA, tsk'[s].life # "none"
        PROVE  CanSet(tsk[s].pr)'
    <3>1. s # t /\ tsk'[s].pr = tsk[s].pr /\ tsk[s].life # "none"
      BY <1>3, <1>4, <2>1
    <3>2. tsk[s].pr \in PA /\ tsk[s].pr # pr /\ CanSet(tsk[s].pr)
      BY <1>1, <1>2, <3>1 DEF Captures, CanSettle
    <3>3. prom'[tsk[s].pr] = prom[tsk[s].pr]
      BY <1>1, <1>3, <2>1, <3>1, <3>2 DEF TakenHeaps, Captures
    <3>4. CASE prom[tsk[s].pr].state = "task"
      <4>1. prom[tsk[s].pr].task \in TA
        BY <1>1, <3>2, <3>4 DEF AttachedOnce, Sorted
      <4>2. prom[tsk[s].pr].task \notin {t, u}
        BY <1>1, <1>2, <3>2, <4>1 DEF AttachedOnce, u
      <4> QED
        BY <1>3, <3>1, <3>2, <3>3, <3>4, <4>1, <4>2 DEF CanSet, PromState
    <3>5. CASE prom[tsk[s].pr].state # "task"
      BY <3>1, <3>2, <3>3, <3>5 DEF CanSet, PromState
    <3> QED
      BY <3>4, <3>5
  <2> QED
    BY <2>1 DEF CanSettle
<1>10. QueuedIsResolved'
  BY <1>1, <1>3, <1>4 DEF QueuedIsResolved
<1> QED
  BY <1>5, <1>6, <1>7, <1>8, <1>9, <1>10 DEF IInv

LEMMA PassOnStep ==
  ASSUME IInv, NEW t \in TA, PassOn(t) PROVE IInv'
<1> USE SortsAreApart
<1>1. TypeOK /\ Captures
  BY Parts
<1>2. tsk[t].state \in Outcomes /\ tsk[t].life = "queued"
  BY DEF PassOn, Outcomes
<1>3. \A s \in TA : tsk[s].life # "none" => tsk[s].pr # Null
  BY <1>1 DEF Captures
<1>4. /\ Settle(t, tsk[t].state, prom, futr)
      /\ supplied' \subseteq Outcomes /\ delivered' \in [Outcomes -> Nat]
  BY <1>1 DEF PassOn, TypeOK
<1> QED
  <2>1. TakenHeaps(prom, futr, Null, {})
    BY <1>1, <1>3 DEF TakenHeaps, TypeOK
  <2> QED
    BY <1>2, <1>4, <2>1, SettleStep

LEMMA ReturnStep ==
  ASSUME IInv, NEW t \in TA, NEW c \in Outcomes, Return(t, c) PROVE IInv'
<1> USE SortsAreApart
<1>1. TypeOK /\ Captures
  BY Parts
<1>2. tsk[t].life = "running"
  BY DEF Return
<1>3. \A s \in TA : tsk[s].life # "none" => tsk[s].pr # Null
  BY <1>1 DEF Captures
<1>4. /\ Settle(t, c, prom, futr)
      /\ supplied' \subseteq Outcomes /\ delivered' \in [Outcomes -> Nat]
  BY <1>1 DEF Return, TypeOK
<1> QED
  <2>1. TakenHeaps(prom, futr, Null, {})
    BY <1>1, <1>3 DEF TakenHeaps, TypeOK
  <2> QED
    BY <1>2, <1>4, <2>1, SettleStep

LEMMA ReturnAvailableStep ==
  ASSUME IInv, NEW t \in TA, NEW g \in FA, ReturnAvailable(t, g) PROVE IInv'
<1> USE SortsAreApart
<1>1. TypeOK /\ Sorted /\ BackPointers
  BY Parts
<1>2. tsk[t].life = "running" /\ FutState(g) \in Outcomes
  BY DEF ReturnAvailable, Available
<1> DEFINE P == PromAfterTake(g)
           F == [futr EXCEPT ![g] = NoFuture]
           ip == futr[g].prom
<1>3. /\ Settle(t, FutState(g), P, F)
      /\ supplied' \subseteq Outcomes /\ delivered' \in [Outcomes -> Nat]
  BY <1>1 DEF ReturnAvailable, TypeOK
<1>4. /\ ip \in PA \cup {Null} /\ {g} \in SUBSET FA
      /\ ip # Null => prom[ip].fut \in {g}
  BY <1>1 DEF Sorted, BackPointers
<1>5. /\ F \in [FA -> FutureType]
      /\ \A x \in FA : IF x \in {g} THEN futr[x].prom = ip /\ F[x].prom = Null
                                    ELSE F[x] = futr[x]
  <2>1. NoFuture \in FutureType /\ NoFuture.prom = Null
    BY DEF NoFuture, FutureType, Content
  <2> QED
    BY <1>1, <2>1 DEF TypeOK
<1>6. /\ P \in [PA -> PromiseType]
      /\ \A s \in TA : tsk[s].life # "none" => tsk[s].pr # ip
      /\ \A x \in PA : /\ P[x].fut = IF x = ip THEN Null ELSE prom[x].fut
                       /\ P[x].life = prom[x].life
                       /\ P[x].state = prom[x].state
                       /\ P[x].task = prom[x].task
                       /\ P[x].owner = prom[x].owner
                       /\ x # ip => P[x] = prom[x]
  BY <1>2, TakeView
<1> HIDE DEF P, F, ip
<1>7. TakenHeaps(P, F, ip, {g})
  BY <1>4, <1>5, <1>6 DEF TakenHeaps
<1> QED
  BY <1>2, <1>3, <1>7, SettleStep

LEMMA ReturnPendingStep ==
  ASSUME IInv, NEW t \in TA, NEW g \in FA, ReturnPending(t, g) PROVE IInv'
<1> USE SortsAreApart
<1>1. /\ TypeOK /\ Sorted /\ BackPointers /\ AttachedOnce /\ Captures
      /\ CanSettle /\ QueuedIsResolved
  BY Parts
<1> DEFINE pr == tsk[t].pr
           ip == futr[g].prom
<1>2. /\ tsk[t].life = "running" /\ pr \in PA /\ prom[pr].owner = t
      /\ prom[pr].life = "bound" /\ CanSet(pr)
  BY <1>1 DEF ReturnPending, Captures, CanSettle
<1>3. /\ ip \in PA /\ ip # pr /\ prom[ip].fut = g /\ prom[pr].fut # g
      /\ prom[ip].state = "local" /\ prom[ip].task = Null
      /\ prom[ip].life = "bound"
  BY <1>1 DEF ReturnPending, BackPointers, Sorted
<1> DEFINE T == TakenOver(prom[pr], prom[ip].owner)
<1>0. /\ T.life = "bound" /\ T.fut = prom[pr].fut /\ T.state = prom[pr].state
      /\ T.local = IF prom[pr].state = "local" THEN prom[pr].local ELSE Pending
      /\ T.task = prom[pr].task /\ T.owner = prom[ip].owner
      /\ T \in PromiseType
  <2>1. prom[ip] \in PromiseType /\ prom[pr] \in PromiseType
    BY <1>1, <1>2, <1>3 DEF TypeOK
  <2> QED
    BY <1>2, <2>1 DEF TakenOver, PromiseType, Content
<1>a. prom' = [prom EXCEPT ![ip] = T, ![pr] = NoPromise]
  BY DEF ReturnPending
<1> HIDE DEF T
<1>4. \A x \in PA :
        /\ x = ip => /\ prom'[x].life = "bound"
                     /\ prom'[x].fut = prom[pr].fut
                     /\ prom'[x].state = prom[pr].state
                     /\ prom'[x].local = IF prom[pr].state = "local"
                                           THEN prom[pr].local ELSE Pending
                     /\ prom'[x].task = prom[pr].task
                     /\ prom'[x].owner = prom[ip].owner
        /\ x = pr => prom'[x] = NoPromise
        /\ x \notin {ip, pr} => prom'[x] = prom[x]
  BY <1>0, <1>1, <1>2, <1>3, <1>a DEF TypeOK
<1>5. \A x \in FA :
        /\ x = g => futr'[x] = NoFuture
        /\ x # g => /\ futr'[x].prom = IF x = prom[pr].fut THEN ip
                                       ELSE futr[x].prom
                    /\ futr'[x].life = futr[x].life
  BY <1>1, <1>2, <1>3 DEF ReturnPending, TypeOK, FutureType
<1>6. \A s \in TA : tsk'[s] = IF s = t THEN NoTask ELSE tsk[s]
  BY <1>1 DEF ReturnPending, TypeOK
<1>7. /\ NoPromise.life = "none" /\ NoPromise.fut = Null
      /\ NoPromise.state = "none" /\ NoPromise.task = Null
      /\ NoPromise.owner = Null
      /\ NoTask.life = "none" /\ NoTask.pr = Null
      /\ NoFuture.life = "none" /\ NoFuture.prom = Null
  BY DEF NoPromise, NoTask, NoFuture
<1>8. TypeOK'
  <2>3. NoPromise \in PromiseType /\ NoFuture \in FutureType /\ NoTask \in TaskType
    BY DEF NoPromise, NoFuture, NoTask, PromiseType, FutureType, TaskType, Content
  <2>4. prom' \in [PA -> PromiseType]
    BY <1>0, <1>1, <1>a, <2>3 DEF TypeOK
  <2>5. \A x \in FA : [futr[x] EXCEPT !.prom = ip] \in FutureType
    BY <1>1, <1>3 DEF TypeOK, FutureType
  <2>6. futr' \in [FA -> FutureType]
    BY <1>1, <2>3, <2>5 DEF ReturnPending, TypeOK
  <2>7. tsk' \in [TA -> TaskType]
    BY <1>1, <2>3 DEF ReturnPending, TypeOK
  <2> QED
    BY <1>1, <2>4, <2>6, <2>7 DEF ReturnPending, TypeOK
<1> HIDE DEF pr, ip
<1>9. BackPointers'
  <2>1. prom[pr].fut # Null => prom[pr].state = "local" /\ prom[pr].task = Null
    BY <1>1, <1>2 DEF BackPointers, Sorted
  <2> QED
    BY <1>1, <1>2, <1>3, <1>4, <1>5, <1>7, <2>1 DEF BackPointers, Sorted
<1>10. AttachedOnce'
  <2>1. prom[pr].task # t
    BY <1>1, <1>2 DEF AttachedOnce, Sorted
  <2>2. ASSUME NEW x \in PA
        PROVE  /\ (prom'[x].state = "task") <=> (prom'[x].task # Null)
               /\ prom'[x].task # Null =>
                    /\ prom'[x].life = "bound"
                    /\ tsk'[prom'[x].task].life = "attached"
                    /\ tsk'[prom'[x].task].state = Pending
    <3>1. PICK y \in PA : /\ prom'[x].state = prom[y].state \/ prom'[x].state = "none"
                          /\ prom'[x].task = prom[y].task \/ prom'[x].task = Null
                          /\ x = pr \/ prom'[x].task = prom[y].task
                          /\ x = pr \/ prom'[x].state = prom[y].state
                          /\ prom[y].task # Null => x = pr \/ prom'[x].life = "bound"
      BY <1>1, <1>2, <1>3, <1>4, <1>7 DEF AttachedOnce
    <3>2. prom[y].task # Null => prom[y].task \in TA /\ prom[y].task # t
      BY <1>1, <1>2 DEF AttachedOnce, Sorted
    <3> QED
      BY <1>1, <1>4, <1>6, <1>7, <3>1, <3>2 DEF AttachedOnce
  <2>3. ASSUME NEW s \in TA, tsk'[s].life = "attached"
        PROVE  \E x \in PA : prom'[x].task = s
    <3>1. s # t /\ tsk[s].life = "attached"
      BY <1>6, <1>7, <2>3
    <3>2. PICK x \in PA : prom[x].task = s
      BY <1>1, <3>1 DEF AttachedOnce
    <3> QED
      BY <1>3, <1>4, <3>2
  <2>4. \A x, y \in PA :
          prom'[x].task = prom'[y].task /\ prom'[x].task # Null => x = y
    BY <1>1, <1>2, <1>3, <1>4, <1>7 DEF AttachedOnce
  <2> QED
    BY <2>2, <2>3, <2>4 DEF AttachedOnce
<1>11. Captures'
  BY <1>1, <1>2, <1>3, <1>4, <1>6, <1>7 DEF Captures, Sorted, pr
<1>12. CanSettle'
  <2>1. ASSUME NEW s \in TA, tsk'[s].life # "none"
        PROVE  CanSet(tsk[s].pr)'
    <3>1. s # t /\ tsk[s].life # "none" /\ tsk'[s] = tsk[s]
      BY <1>6, <1>7, <2>1
    <3>2. tsk[s].pr \in PA /\ tsk[s].pr # pr /\ CanSet(tsk[s].pr)
      BY <1>1, <1>2, <3>1 DEF Captures, CanSettle
    <3>3. \A x \in PA : prom[x].state = "task" =>
            prom[x].task \in TA /\ tsk'[prom[x].task] = tsk[prom[x].task]
      BY <1>1, <1>2, <1>6 DEF AttachedOnce, Sorted
    <3>4. CASE tsk[s].pr = ip
      BY <1>2, <1>4, <3>1, <3>2, <3>3, <3>4 DEF CanSet, PromState
    <3>5. CASE tsk[s].pr # ip
      BY <1>4, <3>1, <3>2, <3>3, <3>5 DEF CanSet, PromState
    <3> QED
      BY <3>4, <3>5
  <2> QED
    BY <2>1 DEF CanSettle
<1>13. QueuedIsResolved'
  BY <1>1, <1>6, <1>7 DEF QueuedIsResolved
<1> QED
  BY <1>8, <1>9, <1>10, <1>11, <1>12, <1>13 DEF IInv

\* The continuations that die with a promise: the one attached to it, and with
\* each of them the one attached to the promise it captured; no other.
LEMMA HangsFromFacts ==
  ASSUME IInv, NEW p \in PA
  PROVE  /\ prom[p].task # Null => prom[p].task \in HangsFrom(p)
         /\ \A t \in HangsFrom(p) :
              /\ tsk[t].life = "attached" /\ tsk[t].pr \in PA
              /\ prom[tsk[t].pr].task # Null =>
                   prom[tsk[t].pr].task \in HangsFrom(p)
              /\ \/ prom[p].task = t
                 \/ \E s \in HangsFrom(p) : prom[tsk[s].pr].task = t
<1> USE SortsAreApart
<1>1. /\ TypeOK /\ Sorted /\ BackPointers /\ AttachedOnce /\ Captures
      /\ CanSettle /\ QueuedIsResolved
  BY Parts
<1> DEFINE Closed(S) ==
      /\ prom[p].task \in S \cup {Null}
      /\ \A s \in S : tsk[s].life # "none" =>
                        prom[tsk[s].pr].task \in S \cup {Null}
           H == HangsFrom(p)
           A == {t \in TA : tsk[t].life = "attached"}
<1>2. H \subseteq TA /\ \A S \in SUBSET TA : Closed(S) => H \subseteq S
  BY DEF HangsFrom
<1>3. \A t \in TA : (\A S \in SUBSET TA : Closed(S) => t \in S) => t \in H
  BY DEF HangsFrom
<1> HIDE DEF H
<1>4. prom[p].task # Null => prom[p].task \in H
  BY <1>1, <1>3 DEF Sorted
<1>5. Closed(A)
  BY <1>1 DEF AttachedOnce, Captures, Sorted
<1>6. H \subseteq A
  BY <1>2, <1>5
<1>7. ASSUME NEW t \in H, prom[tsk[t].pr].task # Null
      PROVE  prom[tsk[t].pr].task \in H
  <2>1. tsk[t].life # "none" /\ t \in TA /\ tsk[t].pr \in PA
    BY <1>1, <1>6 DEF Captures
  <2>2. prom[tsk[t].pr].task \in TA
    BY <1>1, <1>7, <2>1 DEF Sorted
  <2>3. ASSUME NEW S \in SUBSET TA, Closed(S)
        PROVE  prom[tsk[t].pr].task \in S
    BY <1>2, <1>7, <2>1, <2>2, <2>3
  <2> QED
    BY <1>3, <2>2, <2>3
<1>8. ASSUME NEW t \in H, prom[p].task # t,
             \A s \in H : prom[tsk[s].pr].task # t
      PROVE  FALSE
  <2>1. Closed(H \ {t}) /\ H \ {t} \in SUBSET TA
    BY <1>1, <1>2, <1>4, <1>7, <1>8
  <2> QED
    BY <1>2, <2>1
<1> QED
  BY <1>1, <1>4, <1>6, <1>7, <1>8 DEF H, Captures

LEMMA DropPromiseStep ==
  ASSUME IInv, NEW p \in PA, DropPromise(p) PROVE IInv'
<1> USE SortsAreApart
<1>1. /\ TypeOK /\ Sorted /\ BackPointers /\ AttachedOnce /\ Captures
      /\ CanSettle /\ QueuedIsResolved
  BY Parts
<1> DEFINE H == HangsFrom(p)
           D == {p} \cup {tsk[t].pr : t \in H}
<1>2. prom[p].life # "none" /\ prom[p].owner = Null
  BY DEF DropPromise, Held
<1>3. /\ H \subseteq TA
      /\ prom[p].task # Null => prom[p].task \in H
      /\ \A t \in H :
           /\ tsk[t].life = "attached" /\ tsk[t].pr \in PA
           /\ prom[tsk[t].pr].task # Null => prom[tsk[t].pr].task \in H
           /\ prom[p].task = t \/ \E s \in H : prom[tsk[s].pr].task = t
  BY HangsFromFacts DEF HangsFrom
<1>4. /\ prom' = [q \in PA |-> IF q \in D THEN NoPromise ELSE prom[q]]
      /\ tsk' = [t \in TA |-> IF t \in H THEN NoTask ELSE tsk[t]]
      /\ futr' = FutAfterAbandon(prom, tsk, futr, D)
  BY DEF DropPromise
<1> HIDE DEF H
<1>5. D \subseteq PA /\ p \in D /\ \A t \in H : tsk[t].pr \in D
  BY <1>3
<1>6. \A q \in D : /\ prom[q].task # Null => prom[q].task \in H
                   /\ prom[q].owner # Null => prom[q].owner \in H
  BY <1>1, <1>2, <1>3 DEF Captures
<1>7. \A q \in PA \ D : /\ prom[q].task \notin H
                        /\ prom[q].owner \notin H
  <2>1. ASSUME NEW q \in PA \ D, prom[q].task \in H
        PROVE  FALSE
    <3>1. prom[p].task = prom[q].task
            \/ \E s \in H : prom[tsk[s].pr].task = prom[q].task
      BY <1>3, <2>1
    <3>2. prom[q].task # Null
      BY <1>3, <2>1
    <3> QED
      BY <1>1, <1>3, <1>5, <2>1, <3>1, <3>2 DEF AttachedOnce
  <2>2. ASSUME NEW q \in PA \ D, prom[q].owner \in H
        PROVE  FALSE
    BY <1>1, <1>3, <1>5, <2>2 DEF Captures
  <2> QED
    BY <2>1, <2>2
<1> HIDE DEF D
<1>8. \A x \in FA :
        /\ futr'[x].life = futr[x].life
        /\ futr'[x].prom = IF \E q \in D : prom[q].fut = x THEN Null
                           ELSE futr[x].prom
        /\ futr'[x] \in FutureType
  <2>1. ASSUME NEW x \in FA
        PROVE  /\ futr'[x].life = futr[x].life
               /\ futr'[x].prom = IF \E q \in D : prom[q].fut = x THEN Null
                                  ELSE futr[x].prom
               /\ futr'[x] \in FutureType
    <3>1. futr[x] \in FutureType
      BY <1>1 DEF TypeOK
    <3>2. CASE \E q \in D : prom[q].fut = x
      <4> DEFINE q0 == CHOOSE q \in D : prom[q].fut = x
      <4>1. q0 \in D /\ prom[q0].fut = x
        BY <3>2
      <4>2. futr'[x] = [futr[x] EXCEPT !.local = PromState(prom, tsk, q0),
                                       !.prom = Null]
        BY <1>4, <3>2 DEF FutAfterAbandon
      <4> HIDE DEF q0
      <4>3. q0 \in PA /\ prom[q0].state = "local"
        BY <1>1, <1>5, <4>1 DEF BackPointers, Sorted
      <4>4. PromState(prom, tsk, q0) \in Content
        BY <1>1, <4>3 DEF PromState, Sorted
      <4> QED
        BY <3>1, <3>2, <4>2, <4>4 DEF FutureType
    <3>3. CASE ~ \E q \in D : prom[q].fut = x
      BY <1>4, <3>1, <3>3 DEF FutAfterAbandon
    <3> QED
      BY <3>2, <3>3
  <2> QED
    BY <2>1
<1>9. /\ NoPromise.life = "none" /\ NoPromise.fut = Null
      /\ NoPromise.state = "none" /\ NoPromise.task = Null
      /\ NoPromise.owner = Null
      /\ NoTask.life = "none" /\ NoTask.pr = Null
  BY DEF NoPromise, NoTask
<1>10. TypeOK'
  <2>1. NoPromise \in PromiseType /\ NoTask \in TaskType
    BY DEF NoPromise, NoTask, PromiseType, TaskType, Content
  <2>2. prom' \in [PA -> PromiseType] /\ tsk' \in [TA -> TaskType]
    BY <1>1, <1>4, <2>1 DEF TypeOK
  <2>3. futr' \in [FA -> FutureType]
    BY <1>4, <1>8 DEF FutAfterAbandon
  <2>4. reported' \subseteq Errors
    BY <1>1 DEF DropPromise, ReportsOfAbandon, TypeOK
  <2> QED
    BY <1>1, <2>2, <2>3, <2>4 DEF DropPromise, TypeOK
<1>11. BackPointers'
  <2>1. \A x \in FA : futr[x].prom \in D => futr'[x].prom = Null
    BY <1>1, <1>5, <1>8 DEF BackPointers
  <2> QED
    BY <1>1, <1>4, <1>5, <1>8, <1>9, <2>1 DEF BackPointers, Sorted
<1>12. AttachedOnce'
  <2>1. \A q \in PA \ D : prom'[q] = prom[q]
    BY <1>4
  <2>2. \A q \in D : prom'[q] = NoPromise
    BY <1>4, <1>5
  <2>3. \A t \in TA \ H : tsk'[t] = tsk[t]
    BY <1>4
  <2>4. ASSUME NEW t \in TA, tsk'[t].life = "attached"
        PROVE  \E q \in PA : prom'[q].task = t
    <3>1. t \notin H /\ tsk[t].life = "attached"
      BY <1>4, <1>9, <2>4
    <3>2. PICK q \in PA : prom[q].task = t
      BY <1>1, <3>1 DEF AttachedOnce
    <3>3. q \notin D
      BY <1>6, <3>1, <3>2
    <3> QED
      BY <2>1, <3>2, <3>3
  <2>5. ASSUME NEW q \in PA
        PROVE  /\ (prom'[q].state = "task") <=> (prom'[q].task # Null)
               /\ prom'[q].task # Null =>
                    /\ prom'[q].life = "bound"
                    /\ tsk'[prom'[q].task].life = "attached"
                    /\ tsk'[prom'[q].task].state = Pending
    BY <1>1, <1>7, <1>9, <2>1, <2>2, <2>3 DEF AttachedOnce, Sorted
  <2>6. \A q, r \in PA :
          prom'[q].task = prom'[r].task /\ prom'[q].task # Null => q = r
    BY <1>1, <1>9, <2>1, <2>2 DEF AttachedOnce
  <2> QED
    BY <2>4, <2>5, <2>6 DEF AttachedOnce
<1>13. Captures'
  <2>1. ASSUME NEW t \in TA, tsk'[t].life # "none"
        PROVE  /\ tsk'[t].pr \in PA /\ prom'[tsk'[t].pr].life = "bound"
               /\ prom'[tsk'[t].pr].owner = t
    <3>1. t \notin H /\ tsk'[t] = tsk[t]
      BY <1>4, <1>9, <2>1
    <3>2. tsk[t].pr \in PA /\ prom[tsk[t].pr].owner = t
      BY <1>1, <2>1, <3>1 DEF Captures
    <3>3. tsk[t].pr \notin D
      BY <1>6, <3>1, <3>2
    <3> QED
      BY <1>1, <1>4, <2>1, <3>1, <3>2, <3>3 DEF Captures
  <2>2. ASSUME NEW q \in PA, prom'[q].owner # Null
        PROVE  /\ tsk'[prom'[q].owner].life # "none"
               /\ tsk'[prom'[q].owner].pr = q
    <3>1. q \notin D /\ prom'[q] = prom[q]
      BY <1>4, <1>9, <2>2
    <3>2. prom[q].owner \in TA \ H
      BY <1>1, <1>7, <2>2, <3>1 DEF Sorted
    <3> QED
      BY <1>1, <1>4, <2>2, <3>1, <3>2 DEF Captures
  <2> QED
    BY <2>1, <2>2 DEF Captures
<1>14. CanSettle'
  <2>1. ASSUME NEW t \in TA, tsk'[t].life # "none"
        PROVE  CanSet(tsk[t].pr)'
    <3>1. t \notin H /\ tsk'[t] = tsk[t] /\ tsk[t].life # "none"
      BY <1>4, <1>9, <2>1
    <3>2. tsk[t].pr \in PA /\ prom[tsk[t].pr].owner = t /\ CanSet(tsk[t].pr)
      BY <1>1, <3>1 DEF Captures, CanSettle
    <3>3. tsk[t].pr \notin D
      BY <1>6, <3>1, <3>2
    <3>4. prom'[tsk[t].pr] = prom[tsk[t].pr]
      BY <1>4, <3>2, <3>3
    <3>5. prom[tsk[t].pr].state = "task" =>
            tsk'[prom[tsk[t].pr].task] = tsk[prom[tsk[t].pr].task]
      BY <1>1, <1>4, <1>7, <3>2, <3>3 DEF AttachedOnce, Sorted
    <3> QED
      BY <3>1, <3>2, <3>4, <3>5 DEF CanSet, PromState
  <2> QED
    BY <2>1 DEF CanSettle
<1>15. QueuedIsResolved'
  BY <1>1, <1>4, <1>9 DEF QueuedIsResolved
<1> QED
  BY <1>10, <1>11, <1>12, <1>13, <1>14, <1>15 DEF IInv

LEMMA NextIInv == IInv /\ [Next]_vars => IInv'
<1> SUFFICES ASSUME IInv, [Next]_vars PROVE IInv'
  OBVIOUS
<1>1. ASSUME PromiseStep PROVE IInv'
  BY <1>1, MakePromiseStep, DropPromiseStep, MovePromiseStep, GetFutureStep,
     SetOutcomeStep DEF PromiseStep
<1>2. ASSUME FutureStep PROVE IInv'
  BY <1>2, DropFutureStep, GetStep, MoveFutureStep, MakeReadyFutureStep,
     ThenNowPassesOnStep, ThenNowStep, ThenScheduledStep, ThenAttachedStep
     DEF FutureStep
<1>3. ASSUME TaskStep PROVE IInv'
  BY <1>3, StartStep, PassOnStep, IgnoreStep, ReturnStep, ReturnAvailableStep,
     ReturnPendingStep DEF TaskStep
<1>4. CASE UNCHANGED vars
  BY <1>4 DEF vars, IInv, TypeOK, BackPointers, AttachedOnce, Captures,
     CanSettle, CanSet, PromState, QueuedIsResolved
<1> QED
  BY <1>1, <1>2, <1>3, <1>4 DEF Next

(* The heap is consistent in every reachable state, for any addresses and  *)
(* outcomes, however clients move, drop, chain and resolve.                *)
THEOREM Consistent == Spec => []IInv
<1> QED
  BY InitIInv, NextIInv, PTL DEF Spec

(* Every variable stays in its type.                                       *)
THEOREM TypeCorrect == Spec => []TypeOK
<1>1. IInv => TypeOK
  BY DEF IInv
<1> QED
  BY <1>1, Consistent, PTL

(* promise::_future and future::_promise always name each other, which is  *)
(* what ~promise(), ~future() and then() dereference.                      *)
THEOREM PointersAgree == Spec => []BackPointers
<1>1. IInv => BackPointers
  BY DEF IInv
<1> QED
  BY <1>1, Consistent, PTL

(* A waiting continuation is owned by one promise, unresolved.             *)
THEOREM AttachedToOne == Spec => []AttachedOnce
<1>1. IInv => AttachedOnce
  BY DEF IInv
<1> QED
  BY <1>1, Consistent, PTL

(* The asserts in set_value(), set_exception() and future_state::set()     *)
(* cannot fire for the promise a continuation captured.                    *)
THEOREM CapturedCanSettle == Spec => []CanSettle
<1>1. IInv => CanSettle
  BY DEF IInv
<1> QED
  BY <1>1, Consistent, PTL


-----------------------------------------------------------------------------
(* What becomes of an outcome: the inductive invariant.                    *)

\* The objects that can store an outcome, and what each stores.
AtP(p) == <<"promise", p>>
AtF(f) == <<"future", f>>
AtT(t) == <<"task", t>>

Places == {AtP(p) : p \in PA} \cup {AtF(f) : f \in FA} \cup {AtT(t) : t \in TA}

At(s) == CASE s[1] = "promise" -> prom[s[2]].local
           [] s[1] = "future"  -> futr[s[2]].local
           [] s[1] = "task"    -> tsk[s[2]].state

Stored(c) == \E s \in Places : At(s) = c

\* A bound promise nobody is linked to: what it stores can only be moved to
\* another such promise, or be reported (again) when it is destroyed.
AtRest(s) == \E p \in PA : /\ s = AtP(p)
                           /\ prom[p].life = "bound" /\ prom[p].fut = Null

\* No outcome is stored twice, and only what was supplied is stored.
StoredOnce ==
  /\ \A r, s \in Places : At(r) \in Outcomes /\ At(r) = At(s) => r = s
  /\ \A s \in Places : At(s) \in Outcomes => At(s) \in supplied

\* An outcome handed over is gone; one that was reported can be handed to
\* nobody any more.
HandedOver ==
  /\ \A c \in Outcomes : delivered[c] # 0 =>
       delivered[c] = 1 /\ c \in supplied /\ c \notin reported /\ ~Stored(c)
  /\ reported \subseteq supplied
  /\ \A s \in Places : At(s) \in reported => AtRest(s)

\* Which objects may store an outcome: no free address; a linked future's is in its promise, a
\* promise with a continuation has none, and a continuation has one only while
\* it is queued.
Stores ==
  /\ \A p \in PA : prom[p].local \in Outcomes =>
                     prom[p].state = "local" /\ prom[p].life # "none"
  /\ \A f \in FA : futr[f].local \in Outcomes =>
                     futr[f].prom = Null /\ futr[f].life # "none"
  /\ \A t \in TA : tsk[t].state \in Outcomes => tsk[t].life = "queued"

\* What a future that is alive can be asked for.
Usable ==
  /\ \A p \in PA : prom[p].life = "fresh" /\ prom[p].state = "local" =>
                     prom[p].local # Invalid
  /\ \A f \in FA : futr[f].life = "live" =>
       /\ futr[f].prom # Null => prom[futr[f].prom].local # Invalid
       /\ futr[f].prom = Null => futr[f].local \in Outcomes \/ BreakPromises

\* Waiting continuations do not wait for each other in a circle: in any set of
\* them there is one whose promise none of the others captured.
Rooted ==
  \A S \in SUBSET TA :
    S # {} /\ (\A t \in S : tsk[t].life = "attached") =>
      \E t \in S : \A p \in PA : prom[p].task = t => prom[p].owner \notin S

VInv == IInv /\ StoredOnce /\ HandedOver /\ Stores /\ Usable /\ Rooted

-----------------------------------------------------------------------------
(* What a step of any action does.                                         *)

\* At most one outcome arrives at a place, at dst: a new one, or the one that
\* leaves src.  What is handed over or reported was stored or is new, and a
\* failure that leaves its place arrives, or is handed over or reported.
Carries(src, dst) ==
  /\ supplied \subseteq supplied' /\ reported \subseteq reported'
  /\ \A s \in Places : s # dst /\ At(s)' \in Outcomes =>
       At(s)' = At(s) /\ (AtRest(s) => AtRest(s)')
  /\ At(dst)' \in Outcomes =>
       \/ At(dst)' = At(dst) /\ (AtRest(dst) => AtRest(dst)')
       \/ At(dst)' \in supplied' \ supplied
       \/ /\ src # dst /\ At(dst)' = At(src) /\ At(src)' \notin Outcomes
          /\ AtRest(src) => AtRest(dst)'
  /\ \A c \in Outcomes :
       \/ delivered'[c] = delivered[c]
       \/ /\ delivered'[c] = delivered[c] + 1 /\ Stored(c)
          /\ c \notin reported' /\ ~Stored(c)'
  /\ \A c \in reported' \ reported :
       /\ Stored(c) \/ c \in supplied' \ supplied
       /\ \A s \in Places : At(s)' = c => AtRest(s)'
  /\ \A c \in Errors : Stored(c) \/ c \in supplied' \ supplied =>
       c \in reported' \/ delivered'[c] # delivered[c] \/ Stored(c)'

\* A step of SingleUseItem, or none.
ItemStep ==
  \A c \in Outcomes : /\ StatusOf(c)' \in Item!Statuses
                      /\ StatusOf(c)' \in Item!MayBecome(c, StatusOf(c))

\* What a step may do to the continuations: the body of NoContinuationLost.
ContinuationsKept ==
  \A t \in TA :
    /\ tsk[t].life = "attached" /\ ~BreakPromises =>
         tsk'[t].life \in {"attached", "queued"}
    /\ tsk[t].life = "queued" =>
         tsk'[t] = tsk[t] \/ Start(t) \/ PassOn(t) \/ Ignore(t)

\* What is to be proved of every step.
StepIsGood == /\ StoredOnce' /\ HandedOver' /\ ItemStep
              /\ Stores' /\ Usable' /\ Rooted' /\ ContinuationsKept

LEMMA PlaceFacts ==
  /\ \A p \in PA : /\ AtP(p) \in Places
                   /\ At(AtP(p)) = prom[p].local
                   /\ At(AtP(p))' = prom'[p].local
  /\ \A f \in FA : /\ AtF(f) \in Places
                   /\ At(AtF(f)) = futr[f].local
                   /\ At(AtF(f))' = futr'[f].local
  /\ \A t \in TA : /\ AtT(t) \in Places
                   /\ At(AtT(t)) = tsk[t].state
                   /\ At(AtT(t))' = tsk'[t].state
  /\ \A s \in Places : \/ \E p \in PA : s = AtP(p)
                       \/ \E f \in FA : s = AtF(f)
                       \/ \E t \in TA : s = AtT(t)
<1>1. /\ \A p \in PA : AtP(p) \in Places
      /\ \A f \in FA : AtF(f) \in Places
      /\ \A t \in TA : AtT(t) \in Places
      /\ \A s \in Places : \/ \E p \in PA : s = AtP(p)
                           \/ \E f \in FA : s = AtF(f)
                           \/ \E t \in TA : s = AtT(t)
  BY DEF Places
<1>2. \A p \in PA : At(AtP(p)) = prom[p].local /\ At(AtP(p))' = prom'[p].local
  BY DEF At, AtP
<1>3. \A f \in FA : At(AtF(f)) = futr[f].local /\ At(AtF(f))' = futr'[f].local
  BY DEF At, AtF
<1>4. \A t \in TA : At(AtT(t)) = tsk[t].state /\ At(AtT(t))' = tsk'[t].state
  BY DEF At, AtT
<1> QED
  BY <1>1, <1>2, <1>3, <1>4

LEMMA PlacesDiffer ==
  /\ \A p, q : AtP(p) = AtP(q) => p = q
  /\ \A p, q : AtF(p) = AtF(q) => p = q
  /\ \A p, q : AtT(p) = AtT(q) => p = q
  /\ \A p, q : AtP(p) # AtF(q) /\ AtP(p) # AtT(q) /\ AtF(p) # AtT(q)
BY DEF AtP, AtF, AtT

LEMMA RestFacts ==
  /\ \A p \in PA : AtRest(AtP(p)) <=> prom[p].life = "bound" /\ prom[p].fut = Null
  /\ \A p \in PA : AtRest(AtP(p))' <=> prom'[p].life = "bound" /\ prom'[p].fut = Null
  /\ \A f : ~AtRest(AtF(f)) /\ ~AtRest(AtF(f))'
  /\ \A t : ~AtRest(AtT(t)) /\ ~AtRest(AtT(t))'
BY PlacesDiffer DEF AtRest

LEMMA SlotsFacts ==
  \A c : /\ Slots(c) # {} <=> Stored(c)
         /\ Slots(c)' # {} <=> Stored(c)'
         /\ \A s : s \in Slots(c) <=> s \in Places /\ At(s) = c
<1> SUFFICES ASSUME NEW c
             PROVE  /\ \A s : s \in Slots(c) <=> s \in Places /\ At(s) = c
                    /\ \A s : s \in Slots(c)' <=> s \in Places /\ At(s)' = c
  BY DEF Stored
<1>1. \A s : s \in Slots(c) <=> \/ \E p \in PA : s = AtP(p) /\ prom[p].local = c
                                \/ \E f \in FA : s = AtF(f) /\ futr[f].local = c
                                \/ \E t \in TA : s = AtT(t) /\ tsk[t].state = c
  BY DEF Slots, AtP, AtF, AtT
<1>2. \A s : s \in Slots(c)' <=> \/ \E p \in PA : s = AtP(p) /\ prom'[p].local = c
                                 \/ \E f \in FA : s = AtF(f) /\ futr'[f].local = c
                                 \/ \E t \in TA : s = AtT(t) /\ tsk'[t].state = c
  BY DEF Slots, AtP, AtF, AtT
<1> QED
  BY <1>1, <1>2, PlaceFacts

LEMMA VParts ==
  VInv => /\ IInv /\ StoredOnce /\ HandedOver /\ Stores /\ Usable /\ Rooted
          /\ TypeOK /\ Sorted /\ BackPointers /\ AttachedOnce /\ Captures
          /\ CanSettle /\ QueuedIsResolved
BY Parts DEF VInv

\* Carrying one outcome at a time keeps every outcome in one place and every
\* promise of SingleUseItem.
LEMMA CarriesIsGood ==
  ASSUME VInv, IInv', NEW src \in Places, NEW dst \in Places, Carries(src, dst)
  PROVE  StoredOnce' /\ HandedOver' /\ ItemStep
<1> USE SortsAreApart
<1>1. StoredOnce /\ HandedOver /\ TypeOK /\ TypeOK'
  BY VParts DEF IInv
<1>2. /\ supplied \subseteq Outcomes /\ supplied' \subseteq Outcomes
      /\ reported \subseteq Errors /\ reported' \subseteq Errors
      /\ \A c \in Outcomes : delivered[c] \in Nat /\ delivered'[c] \in Nat
  BY <1>1 DEF TypeOK
<1>3. \A s \in Places : At(s)' \in Outcomes /\ At(s)' \notin supplied' \ supplied =>
        \E r \in Places : At(r) = At(s)'
  BY DEF Carries
<1>4. StoredOnce'
  <2>1. ASSUME NEW s \in Places, At(s)' \in Outcomes
        PROVE  At(s)' \in supplied'
    BY <1>1, <1>3, <2>1 DEF StoredOnce, Carries
  <2>2. ASSUME NEW s \in Places, s # dst, At(s)' \in Outcomes, At(s)' = At(dst)'
        PROVE  FALSE
    <3>1. At(s) = At(s)' /\ At(s) \in supplied
      BY <1>1, <2>2 DEF Carries, StoredOnce
    <3>2. CASE At(dst)' = At(dst)
      BY <1>1, <2>2, <3>1, <3>2 DEF StoredOnce
    <3>3. CASE At(dst)' \in supplied' \ supplied
      BY <2>2, <3>1, <3>3
    <3>4. CASE src # dst /\ At(dst)' = At(src) /\ At(src)' \notin Outcomes
      BY <1>1, <2>2, <3>1, <3>4 DEF StoredOnce
    <3> QED
      BY <2>2, <3>2, <3>3, <3>4 DEF Carries
  <2>3. ASSUME NEW r \in Places, NEW s \in Places, r # dst, s # dst,
               At(r)' \in Outcomes, At(r)' = At(s)'
        PROVE  r = s
    BY <1>1, <2>3 DEF Carries, StoredOnce
  <2> QED
    BY <2>1, <2>2, <2>3 DEF StoredOnce
<1>5. HandedOver'
  <2>1. ASSUME NEW c \in Outcomes, delivered'[c] # 0
        PROVE  /\ delivered'[c] = 1 /\ c \in supplied' /\ c \notin reported'
               /\ ~Stored(c)'
    <3>1. CASE delivered'[c] = delivered[c]
      <4>1. delivered[c] = 1 /\ c \in supplied /\ c \notin reported /\ ~Stored(c)
        BY <1>1, <2>1, <3>1 DEF HandedOver
      <4>2. c \notin supplied' \ supplied
        BY <4>1
      <4>3. ~Stored(c)'
        BY <1>3, <4>1, <4>2 DEF Stored
      <4> QED
        BY <3>1, <4>1, <4>2, <4>3 DEF Carries
    <3>2. CASE delivered'[c] # delivered[c]
      <4>1. /\ delivered'[c] = delivered[c] + 1 /\ Stored(c)
            /\ c \notin reported' /\ ~Stored(c)'
        BY <3>2 DEF Carries
      <4>2. delivered[c] = 0
        BY <1>1, <4>1 DEF HandedOver
      <4>3. c \in supplied
        BY <1>1, <4>1 DEF StoredOnce, Stored
      <4> QED
        BY <4>1, <4>2, <4>3 DEF Carries
    <3> QED
      BY <3>1, <3>2
  <2>2. reported' \subseteq supplied'
    <3>1. ASSUME NEW c \in reported' \ reported
          PROVE  c \in supplied'
      BY <1>1, <1>2, <3>1 DEF Carries, StoredOnce, Stored, Outcomes
    <3> QED
      BY <1>1, <3>1 DEF Carries, HandedOver
  <2>3. ASSUME NEW s \in Places, At(s)' \in reported'
        PROVE  AtRest(s)'
    <3>1. At(s)' \in Outcomes
      BY <1>2, <2>3 DEF Outcomes
    <3>2. CASE At(s)' \notin reported
      BY <2>3, <3>2 DEF Carries
    <3>3. CASE At(s)' \in reported
      <4>1. At(s)' \in supplied
        BY <1>1, <3>3 DEF HandedOver
      <4> QED
        BY <1>1, <3>1, <3>3, <4>1 DEF Carries, HandedOver
    <3> QED
      BY <3>2, <3>3
  <2> QED
    BY <2>1, <2>2, <2>3 DEF HandedOver
<1>6. ItemStep
  <2> SUFFICES ASSUME NEW c \in Outcomes
               PROVE  /\ StatusOf(c)' \in Item!Statuses
                      /\ StatusOf(c)' \in Item!MayBecome(c, StatusOf(c))
    BY DEF ItemStep
  <2>1. StatusOf(c) =
          IF delivered[c] # 0 THEN "delivered"
          ELSE IF c \in reported THEN "reported"
          ELSE IF Stored(c) THEN "held"
          ELSE IF c \in supplied THEN "discarded" ELSE "unsupplied"
    BY <1>1, <1>2, SlotsFacts DEF StatusOf, HandedOver
  <2>2. StatusOf(c)' =
          IF delivered'[c] # 0 THEN "delivered"
          ELSE IF c \in reported' THEN "reported"
          ELSE IF Stored(c)' THEN "held"
          ELSE IF c \in supplied' THEN "discarded" ELSE "unsupplied"
    BY <1>2, <1>5, SlotsFacts DEF StatusOf, HandedOver
  <2>3. StatusOf(c)' \in Item!Statuses
    BY <2>2 DEF Item!Statuses
  <2>4. delivered'[c] # delivered[c] => Stored(c) /\ delivered'[c] # 0
    BY <1>2 DEF Carries
  <2>5. c \in reported' \ reported => c \in Errors /\ (Stored(c) \/ c \notin supplied)
    BY <1>2 DEF Carries
  <2>6. Stored(c)' => Stored(c) \/ c \notin supplied
    BY <1>3 DEF Stored
  <2>7. c \in Errors /\ (Stored(c) \/ c \in supplied' \ supplied) =>
          c \in reported' \/ delivered'[c] # delivered[c] \/ Stored(c)'
    BY DEF Carries
  <2>8. /\ Stored(c) => c \in supplied
        /\ c \in supplied => c \in supplied'
        /\ c \in reported => c \in reported'
        /\ c \in reported => c \in supplied
        /\ delivered[c] # 0 => ~Stored(c) /\ c \in supplied
        /\ delivered'[c] # 0 => c \notin reported'
    BY <1>1, <1>5 DEF Carries, StoredOnce, Stored, HandedOver
  <2>9. /\ Item!MayBecome(c, "unsupplied") =
             {"unsupplied", "held"} \cup Item!Ends(c)
        /\ Item!MayBecome(c, "held") = {"held", "delivered"} \cup Item!Ends(c)
        /\ \A s \in {"delivered", "reported", "discarded"} :
             Item!MayBecome(c, s) = {s}
        /\ c \in Errors => Item!Ends(c) = {"reported"}
        /\ c \notin Errors => Item!Ends(c) = {"discarded"}
    BY DEF Item!MayBecome, Item!Ends
  <2>10. CASE delivered[c] # 0
    <3>1. StatusOf(c) = "delivered" /\ StatusOf(c)' = "delivered"
      BY <2>1, <2>2, <2>4, <2>8, <2>10
    <3> QED
      BY <2>3, <2>9, <3>1
  <2>11. CASE delivered[c] = 0 /\ c \in reported
    <3>1. StatusOf(c) = "reported" /\ StatusOf(c)' = "reported"
      BY <2>1, <2>2, <2>8, <2>11
    <3> QED
      BY <2>3, <2>9, <3>1
  <2>12. CASE delivered[c] = 0 /\ c \notin reported /\ Stored(c)
    <3>1. StatusOf(c) = "held"
      BY <2>1, <2>12
    <3>2. StatusOf(c)' \in {"held", "delivered"}
                            \cup (IF c \in Errors THEN {"reported"} ELSE {"discarded"})
      BY <2>2, <2>5, <2>7, <2>8, <2>12
    <3> QED
      BY <2>3, <2>9, <3>1, <3>2
  <2>13. CASE delivered[c] = 0 /\ c \notin reported /\ ~Stored(c)
    <3>1. delivered'[c] = 0
      BY <2>4, <2>13
    <3>2. CASE c \in supplied
      <4>1. StatusOf(c) = "discarded" /\ StatusOf(c)' = "discarded"
        BY <2>1, <2>2, <2>5, <2>6, <2>8, <2>13, <3>1, <3>2
      <4> QED
        BY <2>3, <2>9, <4>1
    <3>3. CASE c \notin supplied
      <4>1. StatusOf(c) = "unsupplied"
        BY <2>1, <2>13, <3>3
      <4>2. StatusOf(c)' \in {"unsupplied", "held"}
                              \cup (IF c \in Errors THEN {"reported"} ELSE {"discarded"})
        BY <2>2, <2>5, <2>7, <2>8, <2>13, <3>1, <3>3
      <4> QED
        BY <2>3, <2>9, <4>1, <4>2
    <3> QED
      BY <3>2, <3>3
  <2> QED
    BY <2>3, <2>10, <2>11, <2>12, <2>13
<1> QED
  BY <1>4, <1>5, <1>6

-----------------------------------------------------------------------------
(* What the invariant says of a state.                                     *)

LEMMA OnePlace == VInv => OneLocation
<1> SUFFICES ASSUME VInv, NEW c \in Outcomes PROVE Cardinality(Slots(c)) <= 1
  BY DEF OneLocation
<1>1. \A r, s \in Slots(c) : r = s
  BY VParts, SlotsFacts DEF StoredOnce
<1>2. CASE Slots(c) = {}
  BY <1>2, FS_EmptySet
<1>3. ASSUME NEW s \in Slots(c) PROVE Cardinality(Slots(c)) <= 1
  <2>1. Slots(c) = {s}
    BY <1>1, <1>3
  <2> QED
    BY <2>1, FS_Singleton
<1> QED
  BY <1>2, <1>3

LEMMA LiveIsUsable == VInv => FutureIsUsable
<1> USE SortsAreApart
<1> SUFFICES ASSUME VInv, ~BreakPromises, NEW f \in FA, futr[f].life = "live"
             PROVE  \/ FutState(f) \in Outcomes
                    \/ FutState(f) = Pending /\ futr[f].prom # Null
  BY DEF FutureIsUsable, Available
<1>1. Usable /\ BackPointers /\ Sorted
  BY VParts
<1>2. CASE futr[f].prom = Null
  BY <1>1, <1>2 DEF Usable, FutState
<1>3. CASE futr[f].prom # Null
  <2>1. /\ futr[f].prom \in PA /\ FutState(f) = prom[futr[f].prom].local
        /\ FutState(f) # Invalid
    BY <1>1, <1>3 DEF Usable, Sorted, BackPointers, FutState, PromState
  <2>2. FutState(f) \in Content
    BY <1>1, <2>1 DEF Sorted
  <2> QED
    BY <1>3, <2>1, <2>2 DEF Content
<1> QED
  BY <1>2, <1>3

\* Of the waiting continuations that hang from nobody who can resolve them one
\* would have a promise none of the others captured; but that promise is held,
\* or captured by one that runs, or by one that hangs from somebody.
LEMMA RootedIsAnchored == VInv => Anchored
<1> USE SortsAreApart
<1> SUFFICES ASSUME VInv PROVE Anchored
  OBVIOUS
<1>1. IInv /\ Rooted /\ AttachedOnce /\ Captures /\ Sorted
  BY VParts
<1> DEFINE Resolves(p) == \/ Held(p)
                          \/ /\ prom[p].owner # Null
                             /\ tsk[prom[p].owner].life # "attached"
           Hangs(t) == \E p \in PA : t \in HangsFrom(p) /\ Resolves(p)
           S == {t \in TA : tsk[t].life = "attached" /\ ~Hangs(t)}
<1>2. ASSUME S # {} PROVE FALSE
  <2>1. PICK m \in S : \A p \in PA : prom[p].task = m => prom[p].owner \notin S
    BY <1>1, <1>2 DEF Rooted
  <2>2. PICK p \in PA : prom[p].task = m /\ prom[p].life = "bound"
    BY <1>1, <2>1 DEF AttachedOnce
  <2>3. prom[p].task # Null /\ m \in HangsFrom(p)
    BY <1>1, <2>1, <2>2, HangsFromFacts
  <2>4. ~Resolves(p)
    BY <2>1, <2>3
  <2>5. /\ prom[p].owner # Null /\ prom[p].owner \in TA
        /\ tsk[prom[p].owner].life = "attached" /\ tsk[prom[p].owner].pr = p
    BY <1>1, <2>2, <2>4 DEF Held, Sorted, Captures
  <2>6. prom[p].owner \notin S
    BY <2>1, <2>2
  <2>7. PICK q \in PA : prom[p].owner \in HangsFrom(q) /\ Resolves(q)
    BY <2>5, <2>6
  <2>8. m \in HangsFrom(q)
    BY <1>1, <2>2, <2>3, <2>5, <2>7, HangsFromFacts
  <2> QED
    BY <2>1, <2>7, <2>8
<1> QED
  BY <1>2 DEF Anchored

LEMMA InitVInv == Init => VInv
<1> SUFFICES ASSUME Init PROVE VInv
  OBVIOUS
<1> USE SortsAreApart
<1>1. /\ \A p \in PA : prom[p] = NoPromise
      /\ \A f \in FA : futr[f] = NoFuture
      /\ \A t \in TA : tsk[t] = NoTask
      /\ supplied = {} /\ reported = {}
      /\ \A c \in Outcomes : delivered[c] = 0
  BY DEF Init
<1>2. /\ NoPromise.local = Invalid /\ NoFuture.local = Invalid
      /\ NoTask.state = Invalid /\ NoPromise.life = "none"
      /\ NoFuture.life = "none" /\ NoTask.life = "none"
  BY DEF NoPromise, NoFuture, NoTask
<1>3. \A s \in Places : At(s) = Invalid
  BY <1>1, <1>2, PlaceFacts
<1>4. StoredOnce /\ HandedOver
  BY <1>1, <1>3 DEF StoredOnce, HandedOver, Stored
<1>5. Stores /\ Usable
  BY <1>1, <1>2 DEF Stores, Usable
<1>6. Rooted
  BY <1>1, <1>2 DEF Rooted
<1> QED
  BY <1>4, <1>5, <1>6, InitIInv DEF VInv

\* A step with which nobody starts to wait for anybody.
LEMMA NoNewWait ==
  ASSUME Rooted, Sorted, SortsAreApart,
         \A t \in TA : tsk'[t].life = "attached" =>
           /\ tsk[t].life = "attached"
           /\ \A q \in PA : prom'[q].task = t => \E p \in PA :
                /\ prom[p].task = t
                /\ prom'[q].owner \in {prom[p].owner, Null}
  PROVE  Rooted'
<1> SUFFICES ASSUME NEW S \in SUBSET TA, S # {},
                    \A t \in S : tsk'[t].life = "attached"
             PROVE  \E t \in S : \A p \in PA :
                      prom'[p].task = t => prom'[p].owner \notin S
  BY DEF Rooted
<1>1. PICK m \in S : \A p \in PA : prom[p].task = m => prom[p].owner \notin S
  BY DEF Rooted
<1> QED
  BY <1>1

-----------------------------------------------------------------------------
(* The actions on promises and futures.                                    *)

\* A step that leaves every stored outcome where it is.
LEMMA QuietStep ==
  ASSUME VInv, IInv', NEW d \in Places,
         \A s \in Places : At(s) \in Outcomes \/ At(s)' \in Outcomes =>
           At(s)' = At(s) /\ (AtRest(s) => AtRest(s)'),
         UNCHANGED <<supplied, delivered, reported>>
  PROVE  StoredOnce' /\ HandedOver' /\ ItemStep
<1>1. \A c \in Outcomes : Stored(c) => Stored(c)'
  BY DEF Stored
<1>2. \A c \in Errors : Stored(c) => Stored(c)'
  BY <1>1 DEF Outcomes
<1>3. Carries(d, d)
  BY <1>2 DEF Carries
<1> QED
  BY <1>3, CarriesIsGood

\* What the objects of a free address store.
LEMMA EmptyFields ==
  /\ NoPromise.local = Invalid /\ NoPromise.life = "none"
  /\ NoPromise.fut = Null /\ NoPromise.state = "none"
  /\ NoPromise.task = Null /\ NoPromise.owner = Null
  /\ NoFuture.local = Invalid /\ NoFuture.life = "none" /\ NoFuture.prom = Null
  /\ NoTask.state = Invalid /\ NoTask.life = "none" /\ NoTask.pr = Null
BY DEF NoPromise, NoFuture, NoTask

LEMMA MakePromiseIsGood ==
  ASSUME VInv, IInv', NEW p \in PA, MakePromise(p) PROVE StepIsGood
<1> USE SortsAreApart
<1>1. /\ TypeOK /\ Sorted /\ BackPointers /\ AttachedOnce /\ Captures
      /\ Stores /\ Usable /\ Rooted
  BY VParts
<1>2. /\ prom[p].life = "none" /\ prom'[p].local = Pending
      /\ prom'[p].state = "local" /\ prom'[p].life = "fresh"
      /\ prom'[p].task = Null
      /\ \A x \in PA : x # p => prom'[x] = prom[x]
      /\ UNCHANGED <<futr, tsk, supplied, delivered, reported>>
  BY <1>1 DEF MakePromise, TypeOK, NoPromise
<1>3. StoredOnce' /\ HandedOver' /\ ItemStep
  <2>1. At(AtP(p)) \notin Outcomes /\ At(AtP(p))' \notin Outcomes
    BY <1>1, <1>2, PlaceFacts DEF Stores
  <2>2. \A s \in Places : s # AtP(p) => At(s)' = At(s) /\ (AtRest(s) => AtRest(s)')
    BY <1>2, PlaceFacts, RestFacts
  <2> QED
    BY <1>2, <2>1, <2>2, PlaceFacts, QuietStep
<1>4. Stores'
  BY <1>1, <1>2 DEF Stores
<1>5. Usable'
  BY <1>1, <1>2 DEF Usable, BackPointers, Sorted
<1>6. Rooted'
  BY <1>1, <1>2, NoNewWait
<1>7. ContinuationsKept
  BY <1>2 DEF ContinuationsKept
<1> QED
  BY <1>3, <1>4, <1>5, <1>6, <1>7 DEF StepIsGood

LEMMA GetFutureIsGood ==
  ASSUME VInv, IInv', NEW p \in PA, NEW f \in FA, GetFuture(p, f)
  PROVE  StepIsGood
<1> USE SortsAreApart
<1>1. /\ TypeOK /\ Sorted /\ BackPointers /\ AttachedOnce /\ Captures
      /\ Stores /\ Usable /\ Rooted
  BY VParts
<1>2. /\ prom[p].life = "fresh" /\ prom[p].state = "local" /\ prom[p].fut = Null
      /\ prom'[p].local = prom[p].local /\ prom'[p].state = "local"
      /\ prom'[p].life = "bound" /\ prom'[p].task = Null
      /\ prom'[p].fut = f /\ prom'[p].owner = prom[p].owner
      /\ \A x \in PA : x # p => prom'[x] = prom[x]
  BY <1>1 DEF GetFuture, TypeOK, PromiseType, AttachedOnce, Sorted
<1>3. /\ futr[f].life = "none" /\ futr'[f].life = "live"
      /\ futr'[f].prom = p /\ futr'[f].local = Pending
      /\ \A x \in FA : x # f => futr'[x] = futr[x]
      /\ UNCHANGED <<tsk, supplied, delivered, reported>>
  BY <1>1 DEF GetFuture, TypeOK
<1>4. StoredOnce' /\ HandedOver' /\ ItemStep
  <2>1. At(AtF(f)) \notin Outcomes /\ At(AtF(f))' \notin Outcomes
    BY <1>1, <1>3, PlaceFacts DEF Stores
  <2>2. \A s \in Places : s # AtF(f) => At(s)' = At(s) /\ (AtRest(s) => AtRest(s)')
    BY <1>2, <1>3, PlaceFacts, RestFacts
  <2> QED
    BY <1>3, <2>1, <2>2, PlaceFacts, QuietStep
<1>5. Stores'
  BY <1>1, <1>2, <1>3 DEF Stores
<1>6. Usable'
  BY <1>1, <1>2, <1>3 DEF Usable, BackPointers, Sorted
<1>7. Rooted'
  BY <1>1, <1>2, <1>3, NoNewWait
<1>8. ContinuationsKept
  BY <1>3 DEF ContinuationsKept
<1> QED
  BY <1>4, <1>5, <1>6, <1>7, <1>8 DEF StepIsGood

LEMMA MakeReadyFutureIsGood ==
  ASSUME VInv, IInv', NEW f \in FA, NEW c \in Outcomes, MakeReadyFuture(f, c)
  PROVE  StepIsGood
<1> USE SortsAreApart
<1>1. /\ TypeOK /\ Sorted /\ BackPointers /\ AttachedOnce /\ Captures
      /\ Stores /\ Usable /\ Rooted
  BY VParts
<1>2. /\ futr[f].life = "none" /\ futr'[f].life = "live"
      /\ futr'[f].prom = Null /\ futr'[f].local = c
      /\ \A x \in FA : x # f => futr'[x] = futr[x]
      /\ UNCHANGED <<prom, tsk, delivered, reported>>
      /\ supplied' = supplied \cup {c} /\ c \notin supplied
  BY <1>1 DEF MakeReadyFuture, TypeOK, Fresh
<1>3. StoredOnce' /\ HandedOver' /\ ItemStep
  <2>1. At(AtF(f)) \notin Outcomes /\ At(AtF(f))' = c
    BY <1>1, <1>2, PlaceFacts DEF Stores
  <2>2. \A s \in Places : s # AtF(f) => At(s)' = At(s) /\ (AtRest(s) => AtRest(s)')
    BY <1>2, PlaceFacts, RestFacts
  <2>3. \A e \in Outcomes : Stored(e) \/ e = c => Stored(e)'
    BY <2>1, <2>2, PlaceFacts DEF Stored
  <2>4. Carries(AtF(f), AtF(f))
    BY <1>2, <2>1, <2>2, <2>3 DEF Carries, Outcomes
  <2> QED
    BY <2>4, PlaceFacts, CarriesIsGood
<1>4. Stores'
  BY <1>1, <1>2 DEF Stores
<1>5. Usable'
  BY <1>1, <1>2 DEF Usable
<1>6. Rooted'
  BY <1>1, <1>2, NoNewWait
<1>7. ContinuationsKept
  BY <1>2 DEF ContinuationsKept
<1> QED
  BY <1>3, <1>4, <1>5, <1>6, <1>7 DEF StepIsGood

LEMMA MovePromiseIsGood ==
  ASSUME VInv, IInv', NEW p \in PA, NEW q \in PA, MovePromise(p, q)
  PROVE  StepIsGood
<1> USE SortsAreApart
<1>1. /\ TypeOK /\ Sorted /\ BackPointers /\ AttachedOnce /\ Captures
      /\ Stores /\ Usable /\ Rooted
  BY VParts
<1>2. /\ p # q /\ prom[q].life = "none"
      /\ prom[p].life # "none" /\ prom[p].owner = Null
  BY DEF MovePromise, Held
<1>3. /\ prom'[q].life = prom[p].life /\ prom'[q].fut = prom[p].fut
      /\ prom'[q].state = prom[p].state /\ prom'[q].task = prom[p].task
      /\ prom'[q].owner = Null
      /\ prom'[q].local = IF prom[p].state = "local" THEN prom[p].local ELSE Pending
      /\ prom'[p].life = prom[p].life /\ prom'[p].fut = Null
      /\ prom'[p].state = "none" /\ prom'[p].task = Null
      /\ prom'[p].local = IF prom[p].state = "local" THEN Invalid ELSE prom[p].local
      /\ \A x \in PA : x \notin {p, q} => prom'[x] = prom[x]
  BY <1>1, <1>2 DEF MovePromise, TypeOK, PromiseType
<1>4. /\ \A f \in FA :
           /\ futr'[f].life = futr[f].life /\ futr'[f].local = futr[f].local
           /\ futr'[f].prom = IF f = prom[p].fut THEN q ELSE futr[f].prom
      /\ UNCHANGED <<tsk, supplied, delivered, reported>>
  BY <1>1, <1>2 DEF MovePromise, TypeOK, PromiseType, FutureType
<1>5. StoredOnce' /\ HandedOver' /\ ItemStep
  <2>1. /\ AtP(p) \in Places /\ AtP(q) \in Places /\ AtP(p) # AtP(q)
        /\ At(AtP(q)) \notin Outcomes /\ At(AtP(p))' \notin Outcomes
        /\ At(AtP(p)) \in Outcomes => At(AtP(q))' = At(AtP(p))
        /\ At(AtP(q))' \in Outcomes => At(AtP(q))' = At(AtP(p))
        /\ AtRest(AtP(p)) => AtRest(AtP(q))'
    BY <1>1, <1>2, <1>3, PlaceFacts, PlacesDiffer, RestFacts DEF Stores
  <2>2. \A s \in Places : s \notin {AtP(p), AtP(q)} =>
          At(s)' = At(s) /\ (AtRest(s) => AtRest(s)')
    BY <1>3, <1>4, PlaceFacts, RestFacts
  <2>3. \A e \in Outcomes : Stored(e) => Stored(e)'
    BY <2>1, <2>2 DEF Stored
  <2>4. Carries(AtP(p), AtP(q))
    BY <1>4, <2>1, <2>2, <2>3 DEF Carries, Outcomes
  <2> QED
    BY <2>1, <2>4, CarriesIsGood
<1>6. Stores'
  BY <1>1, <1>2, <1>3, <1>4 DEF Stores, BackPointers, Sorted
<1>7. Usable'
  <2>1. prom[p].fut # Null => prom[p].state = "local"
    BY <1>1 DEF BackPointers, Sorted
  <2> QED
    BY <1>1, <1>2, <1>3, <1>4, <2>1 DEF Usable, BackPointers, Sorted
<1>8. Rooted'
  BY <1>1, <1>3, <1>4, NoNewWait
<1>9. ContinuationsKept
  BY <1>4 DEF ContinuationsKept
<1> QED
  BY <1>5, <1>6, <1>7, <1>8, <1>9 DEF StepIsGood

LEMMA MoveFutureIsGood ==
  ASSUME VInv, IInv', NEW f \in FA, NEW g \in FA, MoveFuture(f, g)
  PROVE  StepIsGood
<1> USE SortsAreApart
<1>1. /\ TypeOK /\ Sorted /\ BackPointers /\ AttachedOnce /\ Captures
      /\ Stores /\ Usable /\ Rooted
  BY VParts
<1>2. f # g /\ futr[f].life = "live" /\ futr[g].life = "none"
  BY DEF MoveFuture
<1>3. \A x \in PA :
        /\ prom'[x].fut = IF x = futr[f].prom THEN g ELSE prom[x].fut
        /\ prom'[x].life = prom[x].life /\ prom'[x].state = prom[x].state
        /\ prom'[x].local = prom[x].local /\ prom'[x].task = prom[x].task
        /\ prom'[x].owner = prom[x].owner
  BY <1>1 DEF MoveFuture, TypeOK, PromiseType, FutureType
<1>4. /\ futr'[g].life = "live" /\ futr'[g].prom = futr[f].prom
      /\ futr'[g].local = IF futr[f].prom = Null THEN futr[f].local ELSE Pending
      /\ futr'[f].life = "spent" /\ futr'[f].prom = Null
      /\ futr'[f].local = IF futr[f].prom = Null THEN Invalid ELSE futr[f].local
      /\ \A x \in FA : x \notin {f, g} => futr'[x] = futr[x]
      /\ UNCHANGED <<tsk, supplied, delivered, reported>>
  BY <1>1, <1>2 DEF MoveFuture, TypeOK, FutureType
<1>5. \A x \in PA : x = futr[f].prom => prom[x].fut # Null
  BY <1>1 DEF BackPointers
<1>6. StoredOnce' /\ HandedOver' /\ ItemStep
  <2>1. /\ AtF(f) \in Places /\ AtF(g) \in Places /\ AtF(f) # AtF(g)
        /\ At(AtF(g)) \notin Outcomes /\ At(AtF(f))' \notin Outcomes
        /\ At(AtF(f)) \in Outcomes => At(AtF(g))' = At(AtF(f))
        /\ At(AtF(g))' \in Outcomes => At(AtF(g))' = At(AtF(f))
        /\ ~AtRest(AtF(f))
    BY <1>1, <1>2, <1>4, PlaceFacts, PlacesDiffer, RestFacts DEF Stores
  <2>2. \A s \in Places : s \notin {AtF(f), AtF(g)} =>
          At(s)' = At(s) /\ (AtRest(s) => AtRest(s)')
    BY <1>3, <1>4, <1>5, PlaceFacts, RestFacts
  <2>3. \A e \in Outcomes : Stored(e) => Stored(e)'
    BY <2>1, <2>2 DEF Stored
  <2>4. Carries(AtF(f), AtF(g))
    BY <1>4, <2>1, <2>2, <2>3 DEF Carries, Outcomes
  <2> QED
    BY <2>1, <2>4, CarriesIsGood
<1>7. Stores'
  BY <1>1, <1>2, <1>3, <1>4 DEF Stores
<1>8. Usable'
  BY <1>1, <1>2, <1>3, <1>4 DEF Usable, Sorted
<1>9. Rooted'
  BY <1>1, <1>3, <1>4, NoNewWait
<1>10. ContinuationsKept
  BY <1>4 DEF ContinuationsKept
<1> QED
  BY <1>6, <1>7, <1>8, <1>9, <1>10 DEF StepIsGood

LEMMA DropFutureIsGood ==
  ASSUME VInv, IInv', NEW f \in FA, DropFuture(f) PROVE StepIsGood
<1> USE SortsAreApart
<1>1. /\ TypeOK /\ Sorted /\ BackPointers /\ AttachedOnce /\ Captures
      /\ Stores /\ Usable /\ Rooted /\ StoredOnce
  BY VParts
<1>2. \A x \in PA :
        /\ prom'[x].fut = IF x = futr[f].prom THEN Null ELSE prom[x].fut
        /\ prom'[x].life = prom[x].life /\ prom'[x].state = prom[x].state
        /\ prom'[x].local = prom[x].local /\ prom'[x].task = prom[x].task
        /\ prom'[x].owner = prom[x].owner
  BY <1>1 DEF DropFuture, TypeOK, PromiseType, FutureType
<1>3. /\ futr'[f] = NoFuture
      /\ \A x \in FA : x # f => futr'[x] = futr[x]
      /\ UNCHANGED <<tsk, supplied, delivered>>
      /\ reported' = reported \cup ({FutState(f)} \cap Errors)
  BY <1>1 DEF DropFuture, TypeOK
<1>4. futr[f].prom # Null => /\ futr[f].prom \in PA
                             /\ prom[futr[f].prom].life = "bound"
                             /\ FutState(f) = prom[futr[f].prom].local
  BY <1>1 DEF BackPointers, Sorted, FutState, PromState
<1>5. StoredOnce' /\ HandedOver' /\ ItemStep
  <2>1. /\ AtF(f) \in Places /\ At(AtF(f))' \notin Outcomes
        /\ At(AtF(f)) \in Outcomes => At(AtF(f)) = FutState(f)
    BY <1>1, <1>3, PlaceFacts, EmptyFields DEF Stores, FutState
  <2>2. \A s \in Places : s # AtF(f) => At(s)' = At(s) /\ (AtRest(s) => AtRest(s)')
    BY <1>2, <1>3, PlaceFacts, RestFacts
  <2>3. \A e \in Outcomes : Stored(e) => Stored(e)' \/ e = FutState(f)
    BY <2>1, <2>2 DEF Stored
  <2>4. ASSUME NEW c \in Errors, c = FutState(f)
        PROVE  Stored(c) /\ \A s \in Places : At(s)' = c => AtRest(s)'
    <3>1. CASE futr[f].prom = Null
      <4>1. At(AtF(f)) = c /\ c \in Outcomes
        BY <2>4, <3>1, PlaceFacts DEF FutState, Outcomes
      <4> QED
        BY <1>1, <2>1, <2>2, <4>1 DEF Stored, StoredOnce
    <3>2. CASE futr[f].prom # Null
      <4>1. PICK p \in PA : /\ prom'[p].life = "bound" /\ prom'[p].fut = Null
                            /\ prom[p].local = c
        BY <1>2, <1>4, <2>4, <3>2
      <4>2. AtP(p) \in Places /\ At(AtP(p)) = c /\ AtRest(AtP(p))'
        BY <4>1, PlaceFacts, RestFacts
      <4>3. c \in Outcomes
        BY DEF Outcomes
      <4>4. ASSUME NEW s \in Places, At(s)' = c
            PROVE  s = AtP(p)
        BY <1>1, <2>1, <2>2, <4>2, <4>3, <4>4 DEF StoredOnce
      <4> QED
        BY <4>2, <4>4 DEF Stored
    <3> QED
      BY <3>1, <3>2
  <2>5. Carries(AtF(f), AtF(f))
    BY <1>3, <2>1, <2>2, <2>3, <2>4 DEF Carries, Outcomes
  <2> QED
    BY <2>1, <2>5, CarriesIsGood
<1>6. Stores'
  BY <1>1, <1>2, <1>3, EmptyFields DEF Stores
<1>7. Usable'
  BY <1>1, <1>2, <1>3, EmptyFields DEF Usable, Sorted
<1>8. Rooted'
  BY <1>1, <1>2, <1>3, NoNewWait
<1>9. ContinuationsKept
  BY <1>3 DEF ContinuationsKept
<1> QED
  BY <1>5, <1>6, <1>7, <1>8, <1>9 DEF StepIsGood

-----------------------------------------------------------------------------
(* The actions that consume a future.                                      *)

\* Taking from f empties the place its state is in and touches no other; f2
\* is nowhere, or a free address where a ready future is put in the same step.
LEMMA TakenPlace ==
  ASSUME VInv, NEW f \in FA, FutState(f) \in Outcomes, futr[f].life # "none",
         prom' = PromAfterTake(f), tsk' = tsk,
         NEW f2 \in FA \cup {Null}, f2 \in FA => futr[f2].life = "none",
         \A x \in FA \ {f2} : futr'[x] = FutAfterTake(f)[x]
  PROVE  \E src \in Places :
           /\ At(src) = FutState(f) /\ At(src)' \notin Outcomes /\ ~AtRest(src)
           /\ src # AtF(f2)
           /\ \A s \in Places : s # src /\ s # AtF(f2) =>
                At(s)' = At(s) /\ (AtRest(s) => AtRest(s)')
<1> USE SortsAreApart
<1>1. IInv /\ TypeOK /\ Sorted /\ BackPointers /\ Stores
  BY VParts
<1>2. \A x \in PA :
        /\ prom'[x].fut = IF x = futr[f].prom THEN Null ELSE prom[x].fut
        /\ prom'[x].local = IF x = futr[f].prom THEN Invalid ELSE prom[x].local
        /\ prom'[x].life = prom[x].life
  BY <1>1, TakeView
<1>3. \A x \in FA \ {f2} :
        futr'[x].local = IF x = f /\ futr[f].prom = Null THEN Invalid
                         ELSE futr[x].local
  BY <1>1 DEF FutAfterTake, TypeOK
<1>4. f # f2
  OBVIOUS
<1>5. \A s \in Places : AtRest(s) => AtRest(s)'
  BY <1>2, PlaceFacts, RestFacts
<1>6. CASE futr[f].prom = Null
  <2>1. \A p \in PA : prom'[p].local = prom[p].local
    BY <1>2, <1>6
  <2>2. /\ AtF(f) \in Places /\ At(AtF(f)) = FutState(f) /\ ~AtRest(AtF(f))
        /\ At(AtF(f))' = Invalid
    BY <1>3, <1>4, <1>6, PlaceFacts, RestFacts DEF FutState
  <2>3. \A s \in Places : s # AtF(f) /\ s # AtF(f2) => At(s)' = At(s)
    BY <1>3, <2>1, PlaceFacts
  <2> QED
    BY <1>4, <1>5, <2>2, <2>3, PlacesDiffer
<1>7. CASE futr[f].prom # Null
  <2>1. PICK p \in PA : p = futr[f].prom
    BY <1>1, <1>7 DEF Sorted
  <2>2. prom[p].fut = f /\ prom[p].local = FutState(f) /\ f # Null
    BY <1>1, <1>7, <2>1 DEF BackPointers, FutState, PromState
  <2>3. \A x \in PA : prom'[x].local = IF x = p THEN Invalid ELSE prom[x].local
    BY <1>2, <2>1
  <2>4. /\ AtP(p) \in Places /\ At(AtP(p)) = FutState(f) /\ ~AtRest(AtP(p))
        /\ At(AtP(p))' = Invalid
    BY <2>2, <2>3, PlaceFacts, RestFacts
  <2>5. \A s \in Places : s # AtP(p) /\ s # AtF(f2) => At(s)' = At(s)
    BY <1>3, <1>7, <2>3, PlaceFacts
  <2> QED
    BY <1>5, <2>4, <2>5, PlacesDiffer
<1> QED
  BY <1>6, <1>7

\* ... and the rest of what is to be proved of such a step.
LEMMA TakeKeeps ==
  ASSUME VInv, NEW f \in FA, FutState(f) \in Outcomes, futr[f].life # "none",
         prom' = PromAfterTake(f), tsk' = tsk,
         NEW f2 \in FA \cup {Null}, f2 \in FA => futr[f2].life = "none",
         \A x \in FA \ {f2} : futr'[x] = FutAfterTake(f)[x],
         f2 \in FA => /\ futr'[f2].life = "live" /\ futr'[f2].prom = Null
                      /\ futr'[f2].local \in Outcomes
  PROVE  Stores' /\ Usable' /\ Rooted' /\ ContinuationsKept
<1> USE SortsAreApart
<1>1. /\ IInv /\ TypeOK /\ Sorted /\ BackPointers
      /\ Stores /\ Usable /\ Rooted
  BY VParts
<1>2. \A x \in PA :
        /\ prom'[x].local = IF x = futr[f].prom THEN Invalid ELSE prom[x].local
        /\ prom'[x].life = prom[x].life /\ prom'[x].state = prom[x].state
        /\ prom'[x].task = prom[x].task /\ prom'[x].owner = prom[x].owner
  BY <1>1, TakeView
<1>3. \A x \in FA \ {f2} :
        /\ x # f => futr'[x] = futr[x]
        /\ x = f => /\ futr'[x].life = "spent" /\ futr'[x].prom = Null
                    /\ futr'[x].local = IF futr[f].prom = Null THEN Invalid
                                        ELSE futr[x].local
  BY <1>1 DEF FutAfterTake, TypeOK
<1>4. Stores'
  BY <1>1, <1>2, <1>3 DEF Stores
<1>5. Usable'
  <2>1. \A p \in PA : prom'[p].life = "fresh" => prom'[p].local = prom[p].local
    BY <1>1, <1>2 DEF BackPointers
  <2>2. \A x \in FA \ {f2} : x # f /\ futr[x].prom # Null => futr[x].prom # futr[f].prom
    BY <1>1 DEF BackPointers
  <2> QED
    BY <1>1, <1>2, <1>3, <2>1, <2>2 DEF Usable, Sorted
<1>6. Rooted'
  BY <1>1, <1>2, NoNewWait
<1> QED
  BY <1>4, <1>5, <1>6 DEF ContinuationsKept

LEMMA GetIsGood ==
  ASSUME VInv, IInv', NEW f \in FA, Get(f) PROVE StepIsGood
<1> USE SortsAreApart
<1>1. TypeOK /\ StoredOnce /\ HandedOver /\ Sorted
  BY VParts
<1>2. /\ FutState(f) \in Outcomes /\ futr[f].life = "live"
      /\ prom' = PromAfterTake(f) /\ futr' = FutAfterTake(f)
      /\ UNCHANGED <<tsk, supplied, reported>>
  BY DEF Get, Available
<1>3. \A c \in Outcomes : delivered'[c] = IF c = FutState(f) THEN delivered[c] + 1
                                          ELSE delivered[c]
  BY <1>1, <1>2 DEF Get, Deliver, TypeOK
<1>4. PICK src \in Places :
        /\ At(src) = FutState(f) /\ At(src)' \notin Outcomes /\ ~AtRest(src)
        /\ \A s \in Places : s # src => At(s)' = At(s) /\ (AtRest(s) => AtRest(s)')
  <2>1. Null \notin FA /\ AtF(Null) \notin Places
    BY PlaceFacts, PlacesDiffer
  <2>2. \A x \in FA \ {Null} : futr'[x] = FutAfterTake(f)[x]
    BY <1>2
  <2> QED
    BY <1>2, <2>1, <2>2, TakenPlace
<1>5. /\ Stored(FutState(f)) /\ FutState(f) \notin reported
      /\ \A s \in Places : At(s)' # FutState(f)
  BY <1>1, <1>2, <1>4 DEF Stored, StoredOnce, HandedOver
<1>6. ASSUME NEW c \in Outcomes, Stored(c), c # FutState(f)
      PROVE  Stored(c)'
  BY <1>4, <1>6 DEF Stored
<1>7. ASSUME NEW c \in Outcomes, c = FutState(f)
      PROVE  delivered'[c] = delivered[c] + 1 /\ delivered'[c] # delivered[c]
             /\ Stored(c) /\ c \notin reported' /\ ~Stored(c)'
  <2>1. delivered[c] \in Nat
    BY <1>1 DEF TypeOK
  <2> QED
    BY <1>2, <1>3, <1>5, <1>7, <2>1 DEF Stored
<1>8. Carries(src, src)
  BY <1>2, <1>3, <1>4, <1>6, <1>7 DEF Carries, Outcomes
<1>9. StoredOnce' /\ HandedOver' /\ ItemStep
  BY <1>8, CarriesIsGood
<1>10. Stores' /\ Usable' /\ Rooted' /\ ContinuationsKept
  <2>1. Null \notin FA /\ \A x \in FA \ {Null} : futr'[x] = FutAfterTake(f)[x]
    BY <1>2
  <2> QED
    BY <1>2, <2>1, TakeKeeps
<1> QED
  BY <1>9, <1>10 DEF StepIsGood

LEMMA ThenNowIsGood ==
  ASSUME VInv, IInv', NEW f \in FA, NEW f2 \in FA, NEW k \in Kinds,
         NEW c2 \in Outcomes, ThenNow(f, f2, k, c2)
  PROVE  StepIsGood
<1> USE SortsAreApart
<1>1. TypeOK /\ StoredOnce /\ HandedOver /\ Stores
  BY VParts
<1>2. /\ FutState(f) \in Outcomes /\ futr[f].life = "live"
      /\ futr[f2].life = "none" /\ c2 \notin supplied
      /\ prom' = PromAfterTake(f) /\ supplied' = supplied \cup {c2}
      /\ UNCHANGED <<tsk, reported>>
  BY DEF ThenNow, Fresh, Outcomes
<1>3. \A c \in Outcomes : delivered'[c] = IF c = FutState(f) THEN delivered[c] + 1
                                          ELSE delivered[c]
  BY <1>1, <1>2 DEF ThenNow, Deliver, TypeOK
<1>4. /\ futr'[f2].life = "live" /\ futr'[f2].prom = Null /\ futr'[f2].local = c2
      /\ \A x \in FA \ {f2} : futr'[x] = FutAfterTake(f)[x]
  BY <1>1 DEF ThenNow, FutAfterTake, TypeOK
<1>5. PICK src \in Places :
        /\ At(src) = FutState(f) /\ At(src)' \notin Outcomes /\ ~AtRest(src)
        /\ src # AtF(f2)
        /\ \A s \in Places : s # src /\ s # AtF(f2) =>
             At(s)' = At(s) /\ (AtRest(s) => AtRest(s)')
  BY <1>2, <1>4, TakenPlace
<1>6. AtF(f2) \in Places /\ At(AtF(f2)) \notin Outcomes /\ At(AtF(f2))' = c2
  BY <1>1, <1>2, <1>4, PlaceFacts DEF Stores
<1>7. /\ Stored(FutState(f)) /\ FutState(f) \notin reported
      /\ FutState(f) \in supplied
      /\ \A s \in Places : At(s)' # FutState(f)
  BY <1>1, <1>2, <1>5, <1>6 DEF Stored, StoredOnce, HandedOver
<1>8. ASSUME NEW c \in Outcomes, Stored(c) \/ c = c2, c # FutState(f)
      PROVE  Stored(c)'
  BY <1>5, <1>6, <1>8 DEF Stored
<1>9. ASSUME NEW c \in Outcomes, c = FutState(f)
      PROVE  delivered'[c] = delivered[c] + 1 /\ delivered'[c] # delivered[c]
             /\ Stored(c) /\ c \notin reported' /\ ~Stored(c)'
  <2>1. delivered[c] \in Nat
    BY <1>1 DEF TypeOK
  <2> QED
    BY <1>2, <1>3, <1>7, <1>9, <2>1 DEF Stored
<1>10. Carries(src, AtF(f2))
  BY <1>2, <1>3, <1>5, <1>6, <1>8, <1>9 DEF Carries, Outcomes
<1>11. StoredOnce' /\ HandedOver' /\ ItemStep
  BY <1>6, <1>10, CarriesIsGood
<1>12. Stores' /\ Usable' /\ Rooted' /\ ContinuationsKept
  BY <1>2, <1>4, TakeKeeps
<1> QED
  BY <1>11, <1>12 DEF StepIsGood

LEMMA ThenNowPassesOnIsGood ==
  ASSUME VInv, IInv', NEW f \in FA, NEW f2 \in FA, NEW k \in Kinds,
         ThenNowPassesOn(f, f2, k)
  PROVE  StepIsGood
<1> USE SortsAreApart
<1>1. TypeOK /\ Stores
  BY VParts
<1>2. /\ FutState(f) \in Outcomes /\ futr[f].life = "live"
      /\ futr[f2].life = "none" /\ prom' = PromAfterTake(f)
      /\ UNCHANGED <<tsk, supplied, delivered, reported>>
  BY DEF ThenNowPassesOn, Outcomes
<1>3. /\ futr'[f2].life = "live" /\ futr'[f2].prom = Null
      /\ futr'[f2].local = FutState(f)
      /\ \A x \in FA \ {f2} : futr'[x] = FutAfterTake(f)[x]
  BY <1>1 DEF ThenNowPassesOn, FutAfterTake, TypeOK
<1>4. PICK src \in Places :
        /\ At(src) = FutState(f) /\ At(src)' \notin Outcomes /\ ~AtRest(src)
        /\ src # AtF(f2)
        /\ \A s \in Places : s # src /\ s # AtF(f2) =>
             At(s)' = At(s) /\ (AtRest(s) => AtRest(s)')
  BY <1>2, <1>3, TakenPlace
<1>5. /\ AtF(f2) \in Places /\ At(AtF(f2)) \notin Outcomes
      /\ At(AtF(f2))' = FutState(f)
  BY <1>1, <1>2, <1>3, PlaceFacts DEF Stores
<1>6. ASSUME NEW c \in Outcomes, Stored(c)
      PROVE  Stored(c)'
  BY <1>4, <1>5, <1>6 DEF Stored
<1>7. Carries(src, AtF(f2))
  BY <1>2, <1>4, <1>5, <1>6 DEF Carries, Outcomes
<1>8. StoredOnce' /\ HandedOver' /\ ItemStep
  BY <1>5, <1>7, CarriesIsGood
<1>9. Stores' /\ Usable' /\ Rooted' /\ ContinuationsKept
  BY <1>2, <1>3, TakeKeeps
<1> QED
  BY <1>8, <1>9 DEF StepIsGood

LEMMA ThenScheduledIsGood ==
  ASSUME VInv, IInv', NEW f \in FA, NEW p2 \in PA, NEW f2 \in FA, NEW t \in TA,
         NEW k \in Kinds, ThenScheduled(f, p2, f2, t, k)
  PROVE  StepIsGood
<1> USE SortsAreApart
<1>1. /\ TypeOK /\ Sorted /\ BackPointers /\ AttachedOnce /\ Captures
      /\ Stores /\ Usable /\ Rooted
  BY VParts
<1>2. /\ futr[f].life = "live" /\ prom[p2].life = "none"
      /\ futr[f2].life = "none" /\ tsk[t].life = "none" /\ f # f2
      /\ FutState(f) \in Outcomes
      /\ UNCHANGED <<supplied, delivered, reported>>
  BY DEF ThenScheduled, RoomForThen, Available
<1>3. /\ futr[f].prom # p2
      /\ futr[f].prom # Null => /\ prom[futr[f].prom].fut = f /\ f # Null
                                /\ FutState(f) = prom[futr[f].prom].local
      /\ futr[f].prom = Null => FutState(f) = futr[f].local
  BY <1>1, <1>2 DEF BackPointers, Sorted, FutState, PromState
<1>4. /\ prom'[p2].local = Pending /\ prom'[p2].life = "bound"
      /\ prom'[p2].state = "local" /\ prom'[p2].task = Null
      /\ \A x \in PA : x # p2 =>
           /\ prom'[x].local = IF x = futr[f].prom THEN Invalid ELSE prom[x].local
           /\ prom'[x].life = prom[x].life /\ prom'[x].fut = prom[x].fut
           /\ prom'[x].state = prom[x].state /\ prom'[x].task = prom[x].task
           /\ prom'[x].owner = prom[x].owner
  BY <1>1, <1>2, <1>3 DEF ThenScheduled, TypeOK, PromiseType, Captured
<1>5. /\ futr'[f2].life = "live" /\ futr'[f2].prom = p2 /\ futr'[f2].local = Pending
      /\ futr'[f].life = "spent" /\ futr'[f].prom = futr[f].prom
      /\ futr'[f].local = IF futr[f].prom = Null THEN Invalid ELSE futr[f].local
      /\ \A x \in FA : x \notin {f, f2} => futr'[x] = futr[x]
  BY <1>1, <1>2 DEF ThenScheduled, TypeOK, FutureType, ResultOf
<1>6. /\ tsk'[t].life = "queued" /\ tsk'[t].state = FutState(f)
      /\ \A s \in TA : s # t => tsk'[s] = tsk[s]
  BY <1>1 DEF ThenScheduled, TypeOK
<1>7. \A s \in Places : s # AtP(p2) => (AtRest(s) => AtRest(s)')
  BY <1>4, PlaceFacts, RestFacts
<1>8. /\ AtP(p2) \in Places /\ AtF(f2) \in Places /\ AtT(t) \in Places
      /\ At(AtP(p2))' \notin Outcomes /\ At(AtP(p2)) \notin Outcomes
      /\ At(AtF(f2))' \notin Outcomes /\ At(AtF(f2)) \notin Outcomes
      /\ At(AtT(t)) \notin Outcomes /\ At(AtT(t))' = FutState(f)
  BY <1>1, <1>2, <1>4, <1>5, <1>6, PlaceFacts DEF Stores
<1>9. PICK src \in Places :
        /\ At(src) = FutState(f) /\ At(src)' \notin Outcomes /\ ~AtRest(src)
        /\ \A s \in Places : s \notin {src, AtP(p2), AtF(f2), AtT(t)} =>
             At(s)' = At(s)
  <2>1. CASE futr[f].prom = Null
    <3>1. /\ AtF(f) \in Places /\ At(AtF(f)) = FutState(f)
          /\ At(AtF(f))' = Invalid /\ ~AtRest(AtF(f))
      BY <1>3, <1>5, <2>1, PlaceFacts, RestFacts
    <3>2. \A p \in PA : p # p2 => prom'[p].local = prom[p].local
      BY <1>4, <2>1
    <3>3. \A s \in Places : s \notin {AtF(f), AtP(p2), AtF(f2), AtT(t)} =>
             At(s)' = At(s)
      BY <1>5, <1>6, <3>2, PlaceFacts
    <3> QED
      BY <3>1, <3>3
  <2>2. CASE futr[f].prom # Null
    <3>1. PICK p \in PA : p = futr[f].prom
      BY <1>1, <2>2 DEF Sorted
    <3>2. /\ AtP(p) \in Places /\ At(AtP(p)) = FutState(f)
          /\ At(AtP(p))' = Invalid /\ ~AtRest(AtP(p))
      BY <1>3, <1>4, <2>2, <3>1, PlaceFacts, RestFacts
    <3>3. \A x \in PA : x \notin {p, p2} => prom'[x].local = prom[x].local
      BY <1>4, <3>1
    <3>4. \A x \in FA : x # f2 => futr'[x].local = futr[x].local
      BY <1>5, <2>2
    <3>5. \A s \in Places : s \notin {AtP(p), AtP(p2), AtF(f2), AtT(t)} =>
             At(s)' = At(s)
      BY <1>6, <3>3, <3>4, PlaceFacts
    <3> QED
      BY <3>2, <3>5
  <2> QED
    BY <2>1, <2>2
<1>10. ASSUME NEW c \in Outcomes, Stored(c)
       PROVE  Stored(c)'
  BY <1>8, <1>9, <1>10 DEF Stored
<1>11. Carries(src, AtT(t))
  <2>1. src # AtT(t)
    BY <1>2, <1>8, <1>9
  <2> QED
    BY <1>2, <1>7, <1>8, <1>9, <1>10, <2>1 DEF Carries, Outcomes
<1>12. StoredOnce' /\ HandedOver' /\ ItemStep
  BY <1>8, <1>11, CarriesIsGood
<1>13. Stores'
  BY <1>1, <1>2, <1>4, <1>5, <1>6 DEF Stores
<1>14. Usable'
  <2>1. \A p \in PA : p # p2 /\ prom'[p].life = "fresh" =>
          prom'[p].local = prom[p].local
    BY <1>1, <1>4 DEF BackPointers
  <2>2. \A x \in FA : x # f /\ futr[x].prom # Null =>
          futr[x].prom # futr[f].prom /\ futr[x].prom # p2
    BY <1>1, <1>2 DEF BackPointers
  <2> QED
    BY <1>1, <1>2, <1>4, <1>5, <2>1, <2>2 DEF Usable, Sorted
<1>15. Rooted'
  BY <1>1, <1>4, <1>6, NoNewWait
<1>16. ContinuationsKept
  BY <1>2, <1>6 DEF ContinuationsKept
<1> QED
  BY <1>12, <1>13, <1>14, <1>15, <1>16 DEF StepIsGood

LEMMA ThenAttachedIsGood ==
  ASSUME VInv, IInv', NEW f \in FA, NEW p2 \in PA, NEW f2 \in FA, NEW t \in TA,
         NEW k \in Kinds, ThenAttached(f, p2, f2, t, k)
  PROVE  StepIsGood
<1> USE SortsAreApart
<1>1. /\ TypeOK /\ Sorted /\ BackPointers /\ AttachedOnce /\ Captures
      /\ Stores /\ Usable /\ Rooted
  BY VParts
<1>2. /\ futr[f].life = "live" /\ prom[p2].life = "none"
      /\ futr[f2].life = "none" /\ tsk[t].life = "none" /\ f # f2
      /\ UNCHANGED <<supplied, delivered, reported>>
  BY DEF ThenAttached, RoomForThen
<1>3. PICK p \in PA : p = futr[f].prom
  BY <1>1 DEF ThenAttached, Sorted
<1>4. /\ p # p2 /\ prom[p].fut = f /\ prom[p].life = "bound"
      /\ prom[p].state = "local" /\ prom[p].task = Null
      /\ prom[p].local = Pending
  BY <1>1, <1>2, <1>3 DEF ThenAttached, BackPointers, FutState, PromState
<1>5. /\ prom'[p2].local = Pending /\ prom'[p2].life = "bound"
      /\ prom'[p2].state = "local" /\ prom'[p2].task = Null
      /\ prom'[p].fut = Null /\ prom'[p].state = "task" /\ prom'[p].task = t
      /\ prom'[p].life = "bound" /\ prom'[p].local = Pending
      /\ prom'[p].owner = prom[p].owner
      /\ \A x \in PA : x \notin {p, p2} => prom'[x] = prom[x]
  <2>1. /\ prom \in [PA -> PromiseType]
        /\ prom' = [prom EXCEPT ![p].fut = Null, ![p].state = "task", ![p].task = t,
                                ![p2] = Captured(t, f2)]
    BY <1>1, <1>3 DEF ThenAttached, TypeOK
  <2>2. /\ prom'[p2] = Captured(t, f2)
        /\ prom'[p] = [prom[p] EXCEPT !.fut = Null, !.state = "task", !.task = t]
        /\ \A x \in PA : x \notin {p, p2} => prom'[x] = prom[x]
    BY <1>4, <2>1
  <2>3. prom[p] \in PromiseType
    BY <2>1
  <2>4. /\ prom'[p].fut = Null /\ prom'[p].state = "task" /\ prom'[p].task = t
        /\ prom'[p].life = prom[p].life /\ prom'[p].local = prom[p].local
        /\ prom'[p].owner = prom[p].owner
    BY <2>2, <2>3 DEF PromiseType
  <2> QED
    BY <1>4, <2>2, <2>4 DEF Captured
<1>6. /\ futr'[f2].life = "live" /\ futr'[f2].prom = p2 /\ futr'[f2].local = Pending
      /\ futr'[f].life = "spent" /\ futr'[f].local = futr[f].local
      /\ \A x \in FA : x \notin {f, f2} => futr'[x] = futr[x]
  BY <1>1, <1>2 DEF ThenAttached, TypeOK, FutureType, ResultOf
<1>7. /\ tsk'[t].life = "attached" /\ tsk'[t].state = Pending
      /\ \A s \in TA : s # t => tsk'[s] = tsk[s]
  BY <1>1 DEF ThenAttached, TypeOK
<1>8. StoredOnce' /\ HandedOver' /\ ItemStep
  <2>1. /\ AtP(p) \in Places
        /\ At(AtP(p2)) \notin Outcomes /\ At(AtP(p2))' \notin Outcomes
        /\ At(AtF(f2)) \notin Outcomes /\ At(AtF(f2))' \notin Outcomes
        /\ At(AtT(t)) \notin Outcomes /\ At(AtT(t))' \notin Outcomes
    BY <1>1, <1>2, <1>5, <1>6, <1>7, PlaceFacts DEF Stores
  <2>2. \A s \in Places : s \notin {AtP(p2), AtF(f2), AtT(t)} =>
          At(s)' = At(s) /\ (AtRest(s) => AtRest(s)')
    BY <1>4, <1>5, <1>6, <1>7, PlaceFacts, RestFacts
  <2>3. \A s \in Places : At(s) \in Outcomes \/ At(s)' \in Outcomes =>
          At(s)' = At(s) /\ (AtRest(s) => AtRest(s)')
    BY <2>1, <2>2
  <2> QED
    BY <1>2, <2>1, <2>3, QuietStep
<1>9. Stores'
  BY <1>1, <1>2, <1>3, <1>5, <1>6, <1>7 DEF Stores
<1>10. Usable'
  <2>1. \A x \in FA : x # f /\ futr[x].prom # Null => futr[x].prom \notin {p, p2}
    BY <1>1, <1>2, <1>4 DEF BackPointers
  <2> QED
    BY <1>1, <1>2, <1>4, <1>5, <1>6, <2>1 DEF Usable, Sorted
<1>11. Rooted'
  <2> SUFFICES ASSUME NEW S \in SUBSET TA, S # {},
                      \A s \in S : tsk'[s].life = "attached"
               PROVE  \E s \in S : \A x \in PA :
                        prom'[x].task = s => prom'[x].owner \notin S
    BY DEF Rooted
  <2>1. prom[p].owner # t /\ \A x \in PA : prom[x].task # t /\ prom[x].owner # t
    BY <1>1, <1>2 DEF Captures, AttachedOnce
  <2>2. CASE S = {t}
    <3>1. \A x \in PA : prom'[x].task = t => x = p
      BY <1>1, <1>5, <2>1
    <3> QED
      BY <1>5, <2>1, <2>2, <3>1
  <2>3. CASE S # {t}
    <3>1. S \ {t} \in SUBSET TA /\ S \ {t} # {}
          /\ \A s \in S \ {t} : tsk[s].life = "attached"
      BY <1>7, <2>3
    <3>2. PICK m \in S \ {t} :
            \A x \in PA : prom[x].task = m => prom[x].owner \notin S \ {t}
      BY <1>1, <3>1 DEF Rooted
    <3>3. ASSUME NEW x \in PA, prom'[x].task = m
          PROVE  prom'[x].owner \notin S
      <4>1. x \notin {p, p2} /\ prom'[x] = prom[x]
        BY <1>1, <1>5, <3>2, <3>3
      <4> QED
        BY <2>1, <3>2, <3>3, <4>1
    <3> QED
      BY <3>3
  <2> QED
    BY <2>2, <2>3
<1>12. ContinuationsKept
  BY <1>2, <1>7 DEF ContinuationsKept
<1> QED
  BY <1>8, <1>9, <1>10, <1>11, <1>12 DEF StepIsGood

-----------------------------------------------------------------------------
(* Setting a promise, and calling a continuation's function.               *)

LEMMA SetOutcomeIsGood ==
  ASSUME VInv, IInv', NEW p \in PA, NEW c \in Outcomes, SetOutcome(p, c)
  PROVE  StepIsGood
<1> USE SortsAreApart
<1>1. /\ TypeOK /\ Sorted /\ BackPointers /\ AttachedOnce /\ Captures
      /\ Stores /\ Usable /\ Rooted
  BY VParts
<1>2. /\ prom[p].life # "none" /\ prom[p].state # "none"
      /\ PromState(prom, tsk, p) = Pending
      /\ c \notin supplied /\ supplied' = supplied \cup {c}
      /\ UNCHANGED <<futr, delivered, reported>>
  BY DEF SetOutcome, Held, CanSet, Fresh
<1>3. PICK u \in TA \cup {Null} : u = prom[p].task
  BY <1>1 DEF Sorted
<1>4. prom[p].state = "task" <=> u # Null
  BY <1>1, <1>3 DEF AttachedOnce
<1>5. /\ \A x \in PA :
           /\ prom'[x].life = prom[x].life /\ prom'[x].fut = prom[x].fut
           /\ prom'[x].owner = prom[x].owner
           /\ prom'[x].state = IF x = p /\ u # Null THEN "none" ELSE prom[x].state
           /\ prom'[x].task = IF x = p THEN Null ELSE prom[x].task
           /\ prom'[x].local = IF x = p /\ u = Null THEN c ELSE prom[x].local
  BY <1>1, <1>3, <1>4 DEF SetOutcome, PromAfterSet, TypeOK, PromiseType
<1>6. \A t \in TA :
        IF t = u THEN /\ tsk[t].life = "attached" /\ tsk[t].state = Pending
                      /\ tsk'[t].life = "queued" /\ tsk'[t].state = c
                 ELSE tsk'[t] = tsk[t]
  <2>1. u # Null => tsk[u].life = "attached" /\ tsk[u].state = Pending
    BY <1>1, <1>3 DEF AttachedOnce
  <2> QED
    BY <1>1, <1>3, <1>4, <2>1 DEF SetOutcome, TskAfterSet, TypeOK, TaskType
<1>7. PICK dst \in Places :
        /\ At(dst) \notin Outcomes /\ At(dst)' = c
        /\ \A s \in Places : s # dst => At(s)' = At(s)
  <2>1. CASE u = Null
    <3>1. AtP(p) \in Places /\ At(AtP(p)) \notin Outcomes /\ At(AtP(p))' = c
      BY <1>2, <1>4, <1>5, <2>1, PlaceFacts DEF PromState
    <3>2. \A s \in Places : s # AtP(p) => At(s)' = At(s)
      BY <1>2, <1>5, <1>6, <2>1, PlaceFacts
    <3> QED
      BY <3>1, <3>2
  <2>2. CASE u # Null
    <3>1. AtT(u) \in Places /\ At(AtT(u)) \notin Outcomes /\ At(AtT(u))' = c
      BY <1>6, <2>2, PlaceFacts
    <3>2. \A x \in PA : prom'[x].local = prom[x].local
      BY <1>5, <2>2
    <3>3. \A s \in Places : s # AtT(u) => At(s)' = At(s)
      BY <1>2, <1>6, <3>2, PlaceFacts
    <3> QED
      BY <3>1, <3>3
  <2> QED
    BY <2>1, <2>2
<1>8. StoredOnce' /\ HandedOver' /\ ItemStep
  <2>1. \A s \in Places : AtRest(s) => AtRest(s)'
    BY <1>5, PlaceFacts, RestFacts
  <2>2. \A e \in Outcomes : Stored(e) \/ e = c => Stored(e)'
    BY <1>7 DEF Stored
  <2>3. Carries(dst, dst)
    BY <1>2, <1>7, <2>1, <2>2 DEF Carries, Outcomes
  <2> QED
    BY <2>3, CarriesIsGood
<1>9. Stores'
  BY <1>1, <1>2, <1>4, <1>5, <1>6 DEF Stores, Sorted
<1>10. Usable'
  BY <1>1, <1>2, <1>5 DEF Usable, Sorted
<1>11. Rooted'
  BY <1>1, <1>5, <1>6, NoNewWait
<1>12. ContinuationsKept
  BY <1>6 DEF ContinuationsKept
<1> QED
  BY <1>8, <1>9, <1>10, <1>11, <1>12 DEF StepIsGood

\* A continuation that starts to run gives up the outcome c it was queued
\* with: to its function, or to nobody.
LEMMA StartedIsGood ==
  ASSUME VInv, IInv', NEW t \in TA, tsk[t].life = "queued", CallFunction(t),
         NEW c \in Outcomes, tsk[t].state = c, Start(t) \/ Ignore(t),
         UNCHANGED <<prom, futr, supplied>>,
         \/ delivered' = delivered /\ reported' = reported \cup ({c} \cap Errors)
         \/ Deliver(c) /\ reported' = reported
  PROVE  StepIsGood
<1> USE SortsAreApart
<1>1. /\ TypeOK /\ Sorted /\ StoredOnce /\ HandedOver
      /\ Stores /\ Usable /\ Rooted
  BY VParts
<1>2. /\ tsk'[t].life = "running" /\ tsk'[t].state = Invalid
      /\ \A s \in TA : s # t => tsk'[s] = tsk[s]
  BY <1>1 DEF CallFunction, TypeOK, TaskType
<1>3. /\ AtT(t) \in Places /\ At(AtT(t)) = c /\ At(AtT(t))' \notin Outcomes
      /\ ~AtRest(AtT(t))
      /\ \A s \in Places : s # AtT(t) => At(s)' = At(s)
      /\ \A s : AtRest(s) => AtRest(s)'
  BY <1>2, PlaceFacts, RestFacts DEF AtRest
<1>4. Stored(c) /\ c \notin reported /\ \A s \in Places : At(s)' # c
  BY <1>1, <1>3 DEF Stored, StoredOnce, HandedOver
<1>5. ASSUME NEW e \in Outcomes, Stored(e), e # c
      PROVE  Stored(e)'
  BY <1>3, <1>5 DEF Stored
<1>6. Carries(AtT(t), AtT(t))
  <2>1. CASE delivered' = delivered /\ reported' = reported \cup ({c} \cap Errors)
    BY <1>3, <1>4, <1>5, <2>1 DEF Carries, Outcomes
  <2>2. CASE Deliver(c) /\ reported' = reported
    <3>1. /\ delivered'[c] = delivered[c] + 1 /\ delivered[c] \in Nat
          /\ \A e \in Outcomes : e # c => delivered'[e] = delivered[e]
      BY <1>1, <2>2 DEF Deliver, TypeOK
    <3>2. ~Stored(c)'
      BY <1>4 DEF Stored
    <3> QED
      BY <1>3, <1>4, <1>5, <2>2, <3>1, <3>2 DEF Carries, Outcomes
  <2> QED
    BY <2>1, <2>2
<1>7. StoredOnce' /\ HandedOver' /\ ItemStep
  BY <1>3, <1>6, CarriesIsGood
<1>8. Stores'
  BY <1>1, <1>2 DEF Stores
<1>9. Usable'
  BY <1>1 DEF Usable
<1>10. Rooted'
  BY <1>1, <1>2, NoNewWait
<1>11. ContinuationsKept
  BY <1>2 DEF ContinuationsKept
<1> QED
  BY <1>7, <1>8, <1>9, <1>10, <1>11 DEF StepIsGood

LEMMA StartIsGood ==
  ASSUME VInv, IInv', NEW t \in TA, Start(t) PROVE StepIsGood
<1>1. /\ tsk[t].life = "queued" /\ tsk[t].state \in Outcomes
      /\ CallFunction(t) /\ UNCHANGED <<prom, futr, supplied>>
      /\ Deliver(tsk[t].state) /\ reported' = reported
  BY DEF Start, Outcomes
<1> QED
  BY <1>1, StartedIsGood

LEMMA IgnoreIsGood ==
  ASSUME VInv, IInv', NEW t \in TA, Ignore(t) PROVE StepIsGood
<1>1. QueuedIsResolved
  BY VParts
<1>2. /\ tsk[t].life = "queued" /\ tsk[t].state \in Outcomes
      /\ CallFunction(t) /\ UNCHANGED <<prom, futr, supplied>>
      /\ delivered' = delivered
      /\ reported' = reported \cup ({tsk[t].state} \cap Errors)
  BY <1>1 DEF Ignore, QueuedIsResolved
<1> QED
  BY <1>2, StartedIsGood

-----------------------------------------------------------------------------
(* Settling a captured promise.                                            *)

\* The places such a step empties: the continuation's own, and those of the
\* futures in G it takes from and of the promise ip they are linked to.
Emptied(s, t, ip, G) ==
  s = AtT(t) \/ (ip # Null /\ s = AtP(ip)) \/ \E x \in G : s = AtF(x)

\* What a settling step (see SettleStep) carries: c to the future of the
\* captured promise, or to the continuation attached to it, or, when there is
\* neither, to nobody.
LEMMA SettledPlace ==
  ASSUME VInv, NEW t \in TA, tsk[t].life \in {"queued", "running"},
         NEW c \in Outcomes,
         NEW P, NEW F, NEW ip, NEW G, TakenHeaps(P, F, ip, G),
         ip \in PA => P[ip].local = Invalid,
         \A x \in G : F[x] = NoFuture,
         Settle(t, c, P, F)
  PROVE  \E dst \in Places :
           /\ \A s \in Places : s # dst =>
                \/ At(s)' = At(s) /\ (AtRest(s) => AtRest(s)')
                \/ At(s)' = Invalid /\ (At(s) \notin Outcomes \/ Emptied(s, t, ip, G))
           /\ \A s \in Places : Emptied(s, t, ip, G) => At(s)' = Invalid
           /\ \/ /\ At(dst)' = c /\ At(dst) \notin Outcomes
                 /\ reported' = reported
              \/ /\ At(dst)' = Invalid /\ dst = AtT(t)
                 /\ reported' = reported \cup ({c} \cap Errors)
<1> USE SortsAreApart
<1>1. /\ IInv /\ TypeOK /\ Sorted /\ BackPointers /\ AttachedOnce /\ Captures
      /\ CanSettle /\ Stores
  BY VParts
<1>2. PICK pr \in PA : pr = tsk[t].pr
  BY <1>1 DEF Captures
<1>3. PICK u \in TA \cup {Null} : u = prom[pr].task
  BY <1>1 DEF Sorted
<1>4. PICK X \in FA \cup {Null} : X = prom[pr].fut
  BY <1>1 DEF Sorted
<1>5. /\ P \in [PA -> PromiseType] /\ F \in [FA -> FutureType]
      /\ pr # ip /\ P[pr] = prom[pr]
      /\ \A x \in PA : /\ x # ip => P[x] = prom[x]
                       /\ P[x].life = prom[x].life
                       /\ P[x].fut = IF x = ip THEN Null ELSE prom[x].fut
      /\ \A x \in FA : x \notin G => F[x] = futr[x]
      /\ \A x \in G : futr[x].prom = ip
      /\ ip \in PA \cup {Null}
  BY <1>1, <1>2 DEF TakenHeaps
<1>6. /\ \A x \in PA : prom'[x] = IF x = pr THEN NoPromise ELSE P[x]
      /\ \A x \in FA : futr'[x].local = IF x = X THEN c ELSE F[x].local
      /\ reported' = reported \cup
           IF X = Null /\ u = Null THEN {c} \cap Errors ELSE {}
      /\ u # Null => u # t /\ tsk[u].life = "attached" /\ tsk'[u].state = c
      /\ tsk'[t] = NoTask
      /\ \A s \in TA : s \notin {t, u} => tsk'[s] = tsk[s]
  <2>1. SettledHeaps(t, c, P, F)
    BY <1>1, <1>2, <1>5, SettleView
  <2> QED
    BY <1>2, <1>3, <1>4, <2>1 DEF SettledHeaps
<1>7. /\ X # Null => u = Null /\ X \notin G /\ futr[X].prom = pr
      /\ prom[pr].local \notin Outcomes
  <2>1. X # Null => u = Null /\ futr[X].prom = pr
    BY <1>1, <1>3, <1>4 DEF BackPointers, Sorted
  <2>2. CanSet(pr)
    BY <1>1, <1>2 DEF CanSettle
  <2>3. prom[pr].local \notin Outcomes
    BY <1>1, <2>2 DEF CanSet, PromState, Stores
  <2> QED
    BY <1>5, <2>1, <2>3
<1>8. ASSUME NEW p \in PA
      PROVE  /\ \/ At(AtP(p))' = At(AtP(p)) /\ (AtRest(AtP(p)) => AtRest(AtP(p))')
                \/ At(AtP(p))' = Invalid
                     /\ (At(AtP(p)) \notin Outcomes \/ Emptied(AtP(p), t, ip, G))
             /\ Emptied(AtP(p), t, ip, G) => At(AtP(p))' = Invalid
  <2>1. p # ip => ~Emptied(AtP(p), t, ip, G)
    BY PlacesDiffer DEF Emptied
  <2>2. CASE p = pr
    <3>1. prom[p].local \notin Outcomes
      BY <1>7, <2>2
    <3>2. prom'[p].local = Invalid
      BY <1>6, <2>2, EmptyFields
    <3> QED
      BY <3>1, <3>2, PlaceFacts
  <2>3. CASE p = ip
    <3>1. prom'[p].local = Invalid /\ Emptied(AtP(p), t, ip, G)
      BY <1>5, <1>6, <2>3 DEF Emptied
    <3> QED
      BY <3>1, PlaceFacts
  <2>4. CASE p \notin {pr, ip}
    BY <1>5, <1>6, <2>1, <2>4, PlaceFacts, RestFacts
  <2> QED
    BY <2>2, <2>3, <2>4
<1>9. ASSUME NEW f \in FA, f # X
      PROVE  /\ \/ At(AtF(f))' = At(AtF(f)) /\ ~AtRest(AtF(f))
                \/ At(AtF(f))' = Invalid /\ Emptied(AtF(f), t, ip, G)
             /\ Emptied(AtF(f), t, ip, G) => At(AtF(f))' = Invalid
  <2>1. Emptied(AtF(f), t, ip, G) <=> f \in G
    BY PlacesDiffer DEF Emptied
  <2> QED
    BY <1>5, <1>6, <1>9, <2>1, PlaceFacts, RestFacts, EmptyFields
<1>10. ASSUME NEW s \in TA, s # u
       PROVE  /\ \/ At(AtT(s))' = At(AtT(s)) /\ ~AtRest(AtT(s))
                 \/ At(AtT(s))' = Invalid /\ Emptied(AtT(s), t, ip, G)
              /\ Emptied(AtT(s), t, ip, G) => At(AtT(s))' = Invalid
  <2>1. Emptied(AtT(s), t, ip, G) <=> s = t
    BY PlacesDiffer DEF Emptied
  <2> QED
    BY <1>6, <1>10, <2>1, PlaceFacts, RestFacts, EmptyFields
<1>11. CASE u # Null
  <2>1. /\ AtT(u) \in Places /\ At(AtT(u))' = c /\ At(AtT(u)) \notin Outcomes
        /\ X = Null /\ reported' = reported
    BY <1>1, <1>6, <1>7, <1>11, PlaceFacts DEF Stores
  <2>2. ~Emptied(AtT(u), t, ip, G)
    BY <1>6, <1>11, PlacesDiffer DEF Emptied
  <2> QED
    BY <1>8, <1>9, <1>10, <2>1, <2>2, PlaceFacts
<1>12. CASE X # Null
  <2>1. /\ AtF(X) \in Places /\ At(AtF(X))' = c /\ At(AtF(X)) \notin Outcomes
        /\ u = Null /\ reported' = reported
    BY <1>1, <1>6, <1>7, <1>12, PlaceFacts DEF Stores
  <2>2. ~Emptied(AtF(X), t, ip, G)
    BY <1>7, <1>12, PlacesDiffer DEF Emptied
  <2> QED
    BY <1>8, <1>9, <1>10, <2>1, <2>2, PlaceFacts
<1>13. CASE u = Null /\ X = Null
  <2>1. /\ AtT(t) \in Places /\ At(AtT(t))' = Invalid
        /\ reported' = reported \cup ({c} \cap Errors)
    BY <1>6, <1>13, PlaceFacts, EmptyFields
  <2> QED
    BY <1>8, <1>9, <1>10, <1>13, <2>1, PlaceFacts
<1> QED
  BY <1>11, <1>12, <1>13

\* ... and the rest of what is to be proved of it.
LEMMA SettleKeeps ==
  ASSUME VInv, NEW t \in TA, tsk[t].life \in {"queued", "running"},
         NEW c \in Outcomes,
         NEW P, NEW F, NEW ip, NEW G, TakenHeaps(P, F, ip, G),
         ip \in PA => P[ip].local = Invalid,
         \A x \in G : F[x] = NoFuture,
         Settle(t, c, P, F),
         tsk[t].life = "queued" => PassOn(t)
  PROVE  Stores' /\ Usable' /\ Rooted' /\ ContinuationsKept
<1> USE SortsAreApart
<1>1. /\ IInv /\ TypeOK /\ Sorted /\ BackPointers /\ AttachedOnce /\ Captures
      /\ CanSettle /\ Stores /\ Usable /\ Rooted
  BY VParts
<1>2. PICK pr \in PA : pr = tsk[t].pr
  BY <1>1 DEF Captures
<1>3. PICK u \in TA \cup {Null} : u = prom[pr].task
  BY <1>1 DEF Sorted
<1>4. PICK X \in FA \cup {Null} : X = prom[pr].fut
  BY <1>1 DEF Sorted
<1>5. /\ P \in [PA -> PromiseType] /\ F \in [FA -> FutureType]
      /\ pr # ip /\ P[pr] = prom[pr]
      /\ \A x \in PA : /\ x # ip => P[x] = prom[x]
                       /\ P[x].life = prom[x].life
                       /\ P[x].state = prom[x].state
                       /\ P[x].task = prom[x].task
                       /\ P[x].owner = prom[x].owner
      /\ \A x \in FA : x \notin G => F[x] = futr[x]
      /\ \A x \in G : futr[x].prom = ip
      /\ ip \in PA \cup {Null}
      /\ ip # Null => prom[ip].fut \in G /\ G \subseteq FA
  BY <1>1, <1>2 DEF TakenHeaps
<1>6. /\ \A x \in PA : prom'[x] = IF x = pr THEN NoPromise ELSE P[x]
      /\ \A x \in FA : /\ futr'[x].life = F[x].life
                       /\ futr'[x].prom = IF x = X THEN Null ELSE F[x].prom
                       /\ futr'[x].local = IF x = X THEN c ELSE F[x].local
      /\ u # Null => /\ u # t /\ tsk[u].life = "attached"
                     /\ tsk'[u].life = "queued" /\ tsk'[u].state = c
      /\ tsk'[t] = NoTask
      /\ \A s \in TA : s \notin {t, u} => tsk'[s] = tsk[s]
  <2>1. /\ IInv /\ P[tsk[t].pr] = prom[tsk[t].pr]
        /\ P \in [PA -> PromiseType] /\ F \in [FA -> FutureType]
    BY <1>1, <1>2, <1>5
  <2>2. SettledHeaps(t, c, P, F)
    BY <2>1, SettleView
  <2> QED
    BY <1>2, <1>3, <1>4, <2>2 DEF SettledHeaps
<1>7. X # Null => X \notin G /\ futr[X].prom = pr /\ futr[X].life # "none"
  BY <1>1, <1>4, <1>5 DEF BackPointers
<1>8. Stores'
  <2>1. ASSUME NEW p \in PA, prom'[p].local \in Outcomes
        PROVE  prom'[p].state = "local" /\ prom'[p].life # "none"
    <3>1. p \notin {pr, ip}
      BY <1>5, <1>6, <2>1, EmptyFields
    <3> QED
      BY <1>1, <1>5, <1>6, <2>1, <3>1 DEF Stores
  <2>2. ASSUME NEW f \in FA, futr'[f].local \in Outcomes
        PROVE  futr'[f].prom = Null /\ futr'[f].life # "none"
    <3>1. CASE f = X
      BY <1>5, <1>6, <1>7, <3>1
    <3>2. CASE f # X
      BY <1>1, <1>5, <1>6, <2>2, <3>2, EmptyFields DEF Stores
    <3> QED
      BY <3>1, <3>2
  <2>3. \A s \in TA : tsk'[s].state \in Outcomes => tsk'[s].life = "queued"
    BY <1>1, <1>6, EmptyFields DEF Stores
  <2> QED
    BY <2>1, <2>2, <2>3 DEF Stores
<1>9. Usable'
  <2>1. ASSUME NEW p \in PA, prom'[p].life = "fresh", prom'[p].state = "local"
        PROVE  prom'[p].local # Invalid
    <3>1. p # pr /\ prom[p].life = "fresh" /\ prom[p].state = "local"
      BY <1>5, <1>6, <2>1, EmptyFields
    <3>2. p # ip
      BY <1>1, <1>5, <3>1 DEF BackPointers
    <3> QED
      BY <1>1, <1>5, <1>6, <3>1, <3>2 DEF Usable
  <2>2. ASSUME NEW f \in FA, futr'[f].life = "live"
        PROVE  /\ futr'[f].prom # Null => prom'[futr'[f].prom].local # Invalid
               /\ futr'[f].prom = Null => futr'[f].local \in Outcomes \/ BreakPromises
    <3>1. CASE f = X
      BY <1>6, <3>1
    <3>2. CASE f # X
      <4>1. f \notin G /\ F[f] = futr[f] /\ futr[f].life = "live"
        BY <1>5, <1>6, <2>2, EmptyFields
      <4>2. /\ futr'[f].prom = futr[f].prom /\ futr'[f].local = futr[f].local
        BY <1>6, <3>2, <4>1
      <4>3. futr[f].prom # Null =>
              futr[f].prom \in PA /\ futr[f].prom \notin {pr, ip}
        BY <1>1, <1>4, <1>5, <3>2, <4>1 DEF BackPointers, Sorted
      <4> QED
        BY <1>1, <1>5, <1>6, <4>1, <4>2, <4>3 DEF Usable
    <3> QED
      BY <3>1, <3>2
  <2> QED
    BY <2>1, <2>2 DEF Usable
<1>10. Rooted'
  <2>1. ASSUME NEW s \in TA, tsk'[s].life = "attached"
        PROVE  tsk[s].life = "attached"
    BY <1>6, <2>1, EmptyFields
  <2>2. \A q \in PA : prom'[q].task # Null =>
          prom[q].task = prom'[q].task /\ prom'[q].owner = prom[q].owner
    BY <1>5, <1>6, EmptyFields
  <2> QED
    BY <1>1, <2>1, <2>2, NoNewWait
<1>11. ContinuationsKept
  BY <1>6 DEF ContinuationsKept
<1> QED
  BY <1>8, <1>9, <1>10, <1>11

LEMMA SettledIsGood ==
  ASSUME VInv, IInv', NEW t \in TA, tsk[t].life \in {"queued", "running"},
         NEW c \in Outcomes,
         NEW P, NEW F, NEW ip, NEW G, TakenHeaps(P, F, ip, G),
         ip \in PA => P[ip].local = Invalid,
         \A x \in G : F[x] = NoFuture,
         Settle(t, c, P, F),
         tsk[t].life = "queued" => PassOn(t),
         \A s \in Places : Emptied(s, t, ip, G) /\ At(s) \in Outcomes =>
           At(s) = c /\ ~AtRest(s),
         \/ c \notin supplied /\ supplied' = supplied \cup {c}
         \/ /\ supplied' = supplied
            /\ \E s \in Places : Emptied(s, t, ip, G) /\ At(s) = c,
         delivered' = delivered
  PROVE  StepIsGood
<1> USE SortsAreApart
<1>1. Stores' /\ Usable' /\ Rooted' /\ ContinuationsKept
  BY SettleKeeps
<1>2. StoredOnce /\ TypeOK
  BY VParts
<1> DEFINE E(s) == Emptied(s, t, ip, G)
<1>3. PICK dst \in Places :
           /\ \A s \in Places : s # dst =>
                \/ At(s)' = At(s) /\ (AtRest(s) => AtRest(s)')
                \/ At(s)' = Invalid /\ (At(s) \notin Outcomes \/ E(s))
           /\ \A s \in Places : E(s) => At(s)' = Invalid
           /\ \/ /\ At(dst)' = c /\ At(dst) \notin Outcomes
                 /\ reported' = reported
              \/ /\ At(dst)' = Invalid /\ dst = AtT(t)
                 /\ reported' = reported \cup ({c} \cap Errors)
  BY SettledPlace
<1>4. \A s \in Places : E(s) /\ At(s) \in Outcomes => At(s) = c /\ ~AtRest(s)
  OBVIOUS
<1>5. E(AtT(t))
  BY DEF Emptied
<1>6. PICK src \in Places :
        \/ src = dst /\ c \notin supplied /\ supplied' = supplied \cup {c}
        \/ E(src) /\ At(src) = c /\ supplied' = supplied
  OBVIOUS
<1> HIDE DEF E
<1>7. ASSUME NEW e \in Outcomes, Stored(e), e # c
      PROVE  Stored(e)'
  <2>1. PICK s \in Places : At(s) = e
    BY <1>7 DEF Stored
  <2>2. s # dst /\ At(s)' = At(s)
    BY <1>3, <1>4, <1>5, <1>7, <2>1
  <2> QED
    BY <2>1, <2>2 DEF Stored
<1>8. ASSUME NEW s \in Places, s # dst, At(s)' \in Outcomes
      PROVE  At(s)' = At(s) /\ (AtRest(s) => AtRest(s)')
  BY <1>3, <1>8
<1>9. /\ Stored(c) \/ c \in supplied' \ supplied
      /\ \A s \in Places : s # dst => At(s)' # c
  BY <1>2, <1>3, <1>6 DEF Stored, StoredOnce
<1>10. CASE At(dst)' = c /\ At(dst) \notin Outcomes /\ reported' = reported
  <2>1. Stored(c)'
    BY <1>10 DEF Stored
  <2>2. src # dst => /\ At(src)' \notin Outcomes /\ ~AtRest(src) /\ At(src) = c
    BY <1>3, <1>4, <1>6
  <2>3. At(dst)' \in supplied' \ supplied \/ src # dst
    BY <1>6, <1>10
  <2> QED
    <3>1. Carries(src, dst)
      BY <1>6, <1>7, <1>8, <1>10, <2>1, <2>2, <2>3 DEF Carries, Outcomes
    <3> QED
      BY <1>1, <3>1, CarriesIsGood DEF StepIsGood
<1>11. CASE At(dst)' = Invalid /\ reported' = reported \cup ({c} \cap Errors)
  <2>1. \A s \in Places : At(s)' # c
    BY <1>9, <1>11
  <2>2. Carries(src, dst)
    BY <1>6, <1>7, <1>8, <1>9, <1>11, <2>1 DEF Carries, Outcomes
  <2> QED
    BY <1>1, <2>2, CarriesIsGood DEF StepIsGood
<1> QED
  BY <1>3, <1>10, <1>11

LEMMA PassOnIsGood ==
  ASSUME VInv, IInv', NEW t \in TA, PassOn(t) PROVE StepIsGood
<1> USE SortsAreApart
<1>1. TypeOK /\ Captures
  BY VParts
<1>2. PICK c \in Outcomes : tsk[t].state = c
  BY DEF PassOn, Outcomes
<1>3. /\ tsk[t].life = "queued" /\ Settle(t, c, prom, futr)
      /\ supplied' = supplied /\ delivered' = delivered
  BY <1>2 DEF PassOn
<1>4. TakenHeaps(prom, futr, Null, {})
  BY <1>1 DEF TakenHeaps, TypeOK, Captures
<1>5. /\ AtT(t) \in Places /\ At(AtT(t)) = c /\ ~AtRest(AtT(t))
      /\ \A s : Emptied(s, t, Null, {}) <=> s = AtT(t)
  BY <1>2, PlaceFacts, RestFacts DEF Emptied
<1> QED
  BY <1>3, <1>4, <1>5, SettledIsGood

LEMMA ReturnIsGood ==
  ASSUME VInv, IInv', NEW t \in TA, NEW c \in Outcomes, Return(t, c)
  PROVE  StepIsGood
<1> USE SortsAreApart
<1>1. TypeOK /\ Captures /\ Stores
  BY VParts
<1>2. /\ tsk[t].life = "running" /\ Settle(t, c, prom, futr)
      /\ c \notin supplied /\ supplied' = supplied \cup {c}
      /\ delivered' = delivered
  BY DEF Return, Fresh
<1>3. TakenHeaps(prom, futr, Null, {})
  BY <1>1 DEF TakenHeaps, TypeOK, Captures
<1>4. /\ At(AtT(t)) \notin Outcomes
      /\ \A s : Emptied(s, t, Null, {}) <=> s = AtT(t)
  BY <1>1, <1>2, PlaceFacts DEF Emptied, Stores
<1> QED
  BY <1>2, <1>3, <1>4, SettledIsGood

LEMMA ReturnAvailableIsGood ==
  ASSUME VInv, IInv', NEW t \in TA, NEW g \in FA, ReturnAvailable(t, g)
  PROVE  StepIsGood
<1> USE SortsAreApart
<1>1. IInv /\ TypeOK /\ Sorted /\ BackPointers /\ Stores
  BY VParts
<1>2. PICK c \in Outcomes : FutState(g) = c
  BY DEF ReturnAvailable, Available
<1>3. PICK ip \in PA \cup {Null} : ip = futr[g].prom
  BY <1>1 DEF Sorted
<1> DEFINE P == PromAfterTake(g)
           F == [futr EXCEPT ![g] = NoFuture]
<1>4. /\ tsk[t].life = "running" /\ Settle(t, c, P, F)
      /\ supplied' = supplied /\ delivered' = delivered
  BY <1>2 DEF ReturnAvailable
<1>5. /\ F \in [FA -> FutureType] /\ F[g] = NoFuture
      /\ \A x \in FA : x # g => F[x] = futr[x]
  <2>1. NoFuture \in FutureType
    BY DEF NoFuture, FutureType, Content
  <2> QED
    BY <1>1, <2>1 DEF TypeOK
<1>6. TakenHeaps(P, F, ip, {g}) /\ (ip \in PA => P[ip].local = Invalid)
  <2>1. /\ P \in [PA -> PromiseType]
        /\ \A s \in TA : tsk[s].life # "none" => tsk[s].pr # ip
        /\ \A x \in PA : /\ P[x].fut = IF x = ip THEN Null ELSE prom[x].fut
                         /\ P[x].local = IF x = ip THEN Invalid ELSE prom[x].local
                         /\ P[x].life = prom[x].life
                         /\ P[x].state = prom[x].state
                         /\ P[x].task = prom[x].task
                         /\ P[x].owner = prom[x].owner
                         /\ x # ip => P[x] = prom[x]
    BY <1>1, <1>2, <1>3, TakeView
  <2>2. ip # Null => prom[ip].fut \in {g}
    BY <1>1, <1>3 DEF BackPointers
  <2> HIDE DEF P, F
  <2> QED
    BY <1>3, <1>5, <2>1, <2>2, EmptyFields DEF TakenHeaps
<1>7. /\ \A s : Emptied(s, t, ip, {g}) <=>
                  s = AtT(t) \/ (ip # Null /\ s = AtP(ip)) \/ s = AtF(g)
      /\ At(AtT(t)) \notin Outcomes
  BY <1>1, <1>4, PlaceFacts DEF Emptied, Stores
<1>8. CASE ip = Null
  <2>1. At(AtF(g)) = c /\ AtF(g) \in Places /\ ~AtRest(AtF(g))
    BY <1>2, <1>3, <1>8, PlaceFacts, RestFacts DEF FutState
  <2>2. /\ \A s \in Places : Emptied(s, t, ip, {g}) /\ At(s) \in Outcomes =>
             At(s) = c /\ ~AtRest(s)
        /\ \E s \in Places : Emptied(s, t, ip, {g}) /\ At(s) = c
    BY <1>7, <1>8, <2>1
  <2> HIDE DEF P, F
  <2> QED
    BY <1>4, <1>5, <1>6, <2>2, SettledIsGood
<1>9. CASE ip # Null
  <2>1. /\ At(AtP(ip)) = c /\ AtP(ip) \in Places /\ ~AtRest(AtP(ip))
        /\ At(AtF(g)) \notin Outcomes
    <3>1. prom[ip].local = c /\ prom[ip].fut = g /\ g # Null
      BY <1>1, <1>2, <1>3, <1>9 DEF BackPointers, FutState, PromState
    <3> QED
      BY <1>1, <1>3, <1>9, <3>1, PlaceFacts, RestFacts DEF Stores
  <2>2. /\ \A s \in Places : Emptied(s, t, ip, {g}) /\ At(s) \in Outcomes =>
             At(s) = c /\ ~AtRest(s)
        /\ \E s \in Places : Emptied(s, t, ip, {g}) /\ At(s) = c
    BY <1>7, <1>9, <2>1
  <2> HIDE DEF P, F
  <2> QED
    BY <1>4, <1>5, <1>6, <2>2, SettledIsGood
<1> QED
  BY <1>8, <1>9

LEMMA ReturnPendingIsGood ==
  ASSUME VInv, IInv', NEW t \in TA, NEW g \in FA, ReturnPending(t, g)
  PROVE  StepIsGood
<1> USE SortsAreApart
<1>1. /\ IInv /\ TypeOK /\ Sorted /\ BackPointers /\ AttachedOnce /\ Captures
      /\ CanSettle /\ Stores /\ Usable /\ Rooted
  BY VParts
<1>2. PICK pr \in PA : /\ pr = tsk[t].pr /\ prom[pr].owner = t
                       /\ prom[pr].life = "bound" /\ CanSet(pr)
  BY <1>1 DEF ReturnPending, Captures, CanSettle
<1>3. PICK ip \in PA : ip = futr[g].prom
  BY <1>1 DEF ReturnPending, Sorted
<1>4. /\ tsk[t].life = "running" /\ futr[g].life = "live"
      /\ ip # pr /\ prom[ip].fut = g /\ prom[pr].fut # g
      /\ prom[ip].state = "local" /\ prom[ip].task = Null
      /\ prom[ip].life = "bound" /\ prom[ip].local = Pending
      /\ prom[ip].owner \notin HangsFrom(pr)
      /\ UNCHANGED <<supplied, delivered, reported>>
  BY <1>1, <1>2, <1>3 DEF ReturnPending, BackPointers, FutState, PromState
<1>5. /\ prom'[ip].life = "bound" /\ prom'[ip].task = prom[pr].task
      /\ prom'[ip].owner = prom[ip].owner /\ prom'[ip].local = Pending
      /\ prom'[ip].state = prom[pr].state
      /\ prom'[pr] = NoPromise
      /\ \A x \in PA : x \notin {ip, pr} => prom'[x] = prom[x]
  <2>1. prom[pr].state = "local" => prom[pr].local = Pending
    BY <1>2 DEF CanSet, PromState
  <2>2. prom' = [prom EXCEPT ![ip] = TakenOver(prom[pr], prom[ip].owner),
                             ![pr] = NoPromise]
    BY <1>2, <1>3 DEF ReturnPending
  <2>3. prom'[ip] = TakenOver(prom[pr], prom[ip].owner)
    BY <1>1, <1>4, <2>2 DEF TypeOK
  <2>4. /\ prom'[pr] = NoPromise
        /\ \A x \in PA : x \notin {ip, pr} => prom'[x] = prom[x]
    BY <1>1, <1>4, <2>2 DEF TypeOK
  <2> QED
    BY <1>2, <2>1, <2>3, <2>4 DEF TakenOver
<1>6. /\ futr'[g] = NoFuture
      /\ \A x \in FA : x # g =>
           /\ futr'[x].life = futr[x].life /\ futr'[x].local = futr[x].local
           /\ futr'[x].prom = IF x = prom[pr].fut THEN ip ELSE futr[x].prom
  BY <1>1, <1>2, <1>3 DEF ReturnPending, TypeOK, FutureType
<1>7. tsk'[t] = NoTask /\ \A s \in TA : s # t => tsk'[s] = tsk[s]
  BY <1>1 DEF ReturnPending, TypeOK
<1>8. prom[pr].local \notin Outcomes
  BY <1>1, <1>2 DEF CanSet, PromState, Stores
<1>9. StoredOnce' /\ HandedOver' /\ ItemStep
  <2>1. /\ AtP(ip) \in Places
        /\ At(AtP(ip)) \notin Outcomes /\ At(AtP(ip))' \notin Outcomes
        /\ At(AtP(pr)) \notin Outcomes /\ At(AtP(pr))' \notin Outcomes
        /\ At(AtF(g)) \notin Outcomes /\ At(AtF(g))' \notin Outcomes
        /\ At(AtT(t)) \notin Outcomes /\ At(AtT(t))' \notin Outcomes
    BY <1>1, <1>3, <1>4, <1>5, <1>6, <1>7, <1>8, PlaceFacts, EmptyFields DEF Stores
  <2>2. \A s \in Places : s \notin {AtP(ip), AtP(pr), AtF(g), AtT(t)} =>
          At(s)' = At(s) /\ (AtRest(s) => AtRest(s)')
    BY <1>5, <1>6, <1>7, PlaceFacts, RestFacts
  <2>3. \A s \in Places : At(s) \in Outcomes \/ At(s)' \in Outcomes =>
          At(s)' = At(s) /\ (AtRest(s) => AtRest(s)')
    BY <2>1, <2>2
  <2> QED
    BY <1>4, <2>1, <2>3, QuietStep
<1>10. Stores'
  <2>1. \A p \in PA : prom'[p].local \in Outcomes =>
          prom'[p].state = "local" /\ prom'[p].life # "none"
    BY <1>1, <1>5, EmptyFields DEF Stores
  <2>2. \A f \in FA : futr'[f].local \in Outcomes =>
          futr'[f].prom = Null /\ futr'[f].life # "none"
    BY <1>1, <1>2, <1>6, EmptyFields DEF Stores, BackPointers, Sorted
  <2>3. \A s \in TA : tsk'[s].state \in Outcomes => tsk'[s].life = "queued"
    BY <1>1, <1>7, EmptyFields DEF Stores
  <2> QED
    BY <2>1, <2>2, <2>3 DEF Stores
<1>11. Usable'
  <2>1. \A p \in PA : prom'[p].life = "fresh" /\ prom'[p].state = "local" =>
          prom'[p].local # Invalid
    BY <1>1, <1>5, EmptyFields DEF Usable
  <2>2. ASSUME NEW f \in FA, futr'[f].life = "live"
        PROVE  /\ futr'[f].prom # Null => prom'[futr'[f].prom].local # Invalid
               /\ futr'[f].prom = Null => futr'[f].local \in Outcomes \/ BreakPromises
    <3>1. f # g /\ futr[f].life = "live"
      BY <1>6, <2>2, EmptyFields
    <3>2. CASE f = prom[pr].fut
      BY <1>5, <1>6, <3>1, <3>2
    <3>3. CASE f # prom[pr].fut
      <4>1. futr[f].prom # Null => futr[f].prom \in PA \ {ip, pr}
        BY <1>1, <1>3, <1>4, <3>1, <3>3 DEF BackPointers, Sorted
      <4> QED
        BY <1>1, <1>5, <1>6, <3>1, <3>3, <4>1 DEF Usable
    <3> QED
      BY <3>2, <3>3
  <2> QED
    BY <2>1, <2>2 DEF Usable
<1>12. Rooted'
  <2> SUFFICES ASSUME NEW S \in SUBSET TA, S # {},
                      \A s \in S : tsk'[s].life = "attached"
               PROVE  \E s \in S : \A x \in PA :
                        prom'[x].task = s => prom'[x].owner \notin S
    BY DEF Rooted
  <2>1. \A s \in S : tsk[s].life = "attached"
    BY <1>7, EmptyFields
  <2>2. \A x \in PA : prom'[x].task # Null =>
          \/ x = ip /\ prom'[x].task = prom[pr].task /\ prom'[x].owner = prom[ip].owner
          \/ prom'[x].task = prom[x].task /\ prom'[x].owner = prom[x].owner
    BY <1>5, EmptyFields
  <2>3. PICK m \in S : \A x \in PA : prom[x].task = m => prom[x].owner \notin S
    BY <1>1, <2>1 DEF Rooted
  <2>4. CASE m # prom[pr].task \/ prom[ip].owner \notin S
    BY <2>2, <2>3, <2>4
  <2>5. CASE m = prom[pr].task /\ prom[ip].owner \in S
    <3> DEFINE R == S \ HangsFrom(pr)
    <3>1. m \in HangsFrom(pr)
      BY <1>1, <2>5, HangsFromFacts
    <3>2. R \in SUBSET TA /\ R # {} /\ \A s \in R : tsk[s].life = "attached"
      BY <1>4, <2>1, <2>5
    <3>3. PICK n \in R : \A x \in PA : prom[x].task = n => prom[x].owner \notin R
      BY <1>1, <3>2 DEF Rooted
    <3>4. ASSUME NEW x \in PA, prom'[x].task = n
          PROVE  prom'[x].owner \notin S
      <4>1. prom[x].task = n /\ prom'[x].owner = prom[x].owner
        BY <2>2, <2>5, <3>1, <3>3, <3>4
      <4>2. prom[x].owner \notin HangsFrom(pr)
        <5> SUFFICES ASSUME prom[x].owner \in HangsFrom(pr) PROVE FALSE
          OBVIOUS
        <5>1. tsk[prom[x].owner].pr = x
          <6>1. prom[x].owner \in TA
            BY DEF HangsFrom
          <6> QED
            BY <1>1, <6>1 DEF Captures
        <5>2. n \in HangsFrom(pr)
          BY <1>1, <4>1, <5>1, HangsFromFacts
        <5> QED
          BY <5>2
      <4> QED
        BY <3>3, <4>1, <4>2
    <3> QED
      BY <3>3, <3>4
  <2> QED
    BY <2>4, <2>5
<1>13. ContinuationsKept
  BY <1>4, <1>7 DEF ContinuationsKept
<1> QED
  BY <1>9, <1>10, <1>11, <1>12, <1>13 DEF StepIsGood

-----------------------------------------------------------------------------
(* Destroying a promise.                                                   *)

LEMMA NothingHangs ==
  ASSUME NEW p \in PA, prom[p].task = Null
  PROVE  HangsFrom(p) = {}
<1>1. {} \in SUBSET TA /\ prom[p].task \in {} \cup {Null}
  OBVIOUS
<1> QED
  BY <1>1 DEF HangsFrom

LEMMA DropPromiseIsGood ==
  ASSUME VInv, IInv', NEW p \in PA, DropPromise(p) PROVE StepIsGood
<1> USE SortsAreApart
<1>1. /\ IInv /\ TypeOK /\ Sorted /\ BackPointers /\ AttachedOnce /\ Captures
      /\ CanSettle /\ Stores /\ Usable /\ Rooted /\ StoredOnce
  BY VParts
<1>2. PICK H \in SUBSET TA : H = HangsFrom(p)
  BY DEF HangsFrom
<1>3. PICK D : D = {p} \cup {tsk[t].pr : t \in H}
  OBVIOUS
<1>4. \A t \in H : tsk[t].life = "attached" /\ tsk[t].pr \in PA
  BY <1>1, <1>2, HangsFromFacts
<1>5. /\ \A q \in PA : prom'[q] = IF q \in D THEN NoPromise ELSE prom[q]
      /\ \A t \in TA : tsk'[t] = IF t \in H THEN NoTask ELSE tsk[t]
      /\ futr' = FutAfterAbandon(prom, tsk, futr, D)
      /\ reported' = reported \cup ReportsOfAbandon(prom, tsk, D)
      /\ UNCHANGED <<supplied, delivered>>
      /\ Waited(p) => BreakPromises
  BY <1>2, <1>3 DEF DropPromise
<1>6. /\ D \subseteq PA /\ p \in D
      /\ \A q \in D : q # p => /\ CanSet(q) /\ prom[q].local \notin Outcomes
                               /\ H # {}
  <2>1. \A q \in D : q # p => CanSet(q) /\ H # {}
    BY <1>1, <1>3, <1>4 DEF CanSettle
  <2>2. \A q \in PA : CanSet(q) => prom[q].local \notin Outcomes
    BY <1>1 DEF CanSet, PromState, Stores
  <2>3. D \subseteq PA /\ p \in D
    BY <1>3, <1>4
  <2> QED
    BY <2>1, <2>2, <2>3
<1>7. H # {} => BreakPromises
  <2> SUFFICES ASSUME H # {} PROVE BreakPromises
    OBVIOUS
  <2>1. prom[p].task # Null
    BY <1>2, NothingHangs
  <2>2. prom[p].state = "task" /\ PromState(prom, tsk, p) = Pending
    BY <1>1, <2>1 DEF AttachedOnce, PromState
  <2> QED
    BY <1>5, <2>1, <2>2 DEF Waited, CanSet
<1>8. \A q \in D : prom[q].fut # Null =>
        /\ futr[prom[q].fut].prom = q
        /\ PromState(prom, tsk, q) = prom[q].local
        /\ prom[q].state = "local"
  BY <1>1, <1>6 DEF BackPointers, Sorted, PromState
<1>9. \A x \in FA :
        /\ futr'[x].life = futr[x].life
        /\ futr[x].prom \in D => /\ futr'[x].prom = Null
                                 /\ futr'[x].local = prom[futr[x].prom].local
        /\ futr[x].prom \notin D => futr'[x] = futr[x]
  <2> SUFFICES ASSUME NEW x \in FA
               PROVE  /\ futr'[x].life = futr[x].life
                      /\ futr[x].prom \in D =>
                           /\ futr'[x].prom = Null
                           /\ futr'[x].local = prom[futr[x].prom].local
                      /\ futr[x].prom \notin D => futr'[x] = futr[x]
    OBVIOUS
  <2>1. futr[x] \in FutureType
    BY <1>1 DEF TypeOK
  <2>2. CASE futr[x].prom \in D
    <3>1. PICK q \in D : q = futr[x].prom
      BY <2>2
    <3>2. /\ prom[q].fut = x
          /\ \A r \in D : prom[r].fut = x => r = q
      BY <1>1, <1>6, <1>8, <3>1 DEF BackPointers
    <3>3. (CHOOSE r \in D : prom[r].fut = x) = q
      BY <3>2
    <3>4. futr'[x] = [futr[x] EXCEPT !.local = PromState(prom, tsk, q),
                                     !.prom = Null]
      BY <1>5, <3>2, <3>3 DEF FutAfterAbandon
    <3> QED
      BY <1>8, <2>1, <2>2, <3>1, <3>2, <3>4 DEF FutureType
  <2>3. CASE futr[x].prom \notin D
    <3>1. ~ \E r \in D : prom[r].fut = x
      BY <1>8, <2>3
    <3> QED
      BY <1>5, <2>3, <3>1 DEF FutAfterAbandon
  <2> QED
    BY <2>2, <2>3
<1>10. reported' = reported \cup
         (IF prom[p].fut = Null THEN {prom[p].local} \cap Errors ELSE {})
  <2>1. \A q \in D : q # p => PromState(prom, tsk, q) = Pending
    BY <1>6 DEF CanSet
  <2>2. Pending \notin Errors
    BY DEF Outcomes
  <2>3. prom[p].local \in Errors =>
          prom[p].state = "local" /\ PromState(prom, tsk, p) = prom[p].local
    BY <1>1 DEF Stores, PromState, Outcomes
  <2>4. prom[p].state # "none" =>
          \/ PromState(prom, tsk, p) = prom[p].local
          \/ PromState(prom, tsk, p) = Pending
    BY <1>1 DEF PromState, AttachedOnce
  <2>5. \A e \in Errors : e \in ReportsOfAbandon(prom, tsk, D) <=>
          prom[p].fut = Null /\ prom[p].local = e
    BY <1>6, <2>1, <2>2, <2>3, <2>4 DEF ReportsOfAbandon
  <2>6. ReportsOfAbandon(prom, tsk, D) \subseteq Errors
    BY DEF ReportsOfAbandon
  <2> QED
    BY <1>5, <2>5, <2>6
<1>11. StoredOnce' /\ HandedOver' /\ ItemStep
  <2>1. /\ AtP(p) \in Places /\ At(AtP(p)) = prom[p].local
        /\ At(AtP(p))' = Invalid
    BY <1>5, <1>6, PlaceFacts, EmptyFields
  <2>2. \A q \in PA : q # p =>
          \/ At(AtP(q))' = At(AtP(q)) /\ (AtRest(AtP(q)) => AtRest(AtP(q))')
          \/ At(AtP(q)) \notin Outcomes /\ At(AtP(q))' \notin Outcomes
    BY <1>5, <1>6, PlaceFacts, RestFacts, EmptyFields
  <2>3. \A t \in TA :
          \/ At(AtT(t))' = At(AtT(t))
          \/ At(AtT(t)) \notin Outcomes /\ At(AtT(t))' \notin Outcomes
    BY <1>1, <1>4, <1>5, PlaceFacts, EmptyFields DEF Stores
  <2>4. \A x \in FA : futr[x].prom # p =>
          \/ At(AtF(x))' = At(AtF(x))
          \/ At(AtF(x)) \notin Outcomes /\ At(AtF(x))' \notin Outcomes
    BY <1>1, <1>6, <1>9, PlaceFacts DEF Stores
  <2>5. ASSUME prom[p].fut = Null
        PROVE  Carries(AtP(p), AtP(p))
    <3>1. \A x \in FA : futr[x].prom # p
      BY <1>1, <2>5 DEF BackPointers
    <3>2. \A s \in Places : s # AtP(p) =>
            \/ At(s)' = At(s) /\ (AtRest(s) => AtRest(s)')
            \/ At(s) \notin Outcomes /\ At(s)' \notin Outcomes
      BY <2>2, <2>3, <2>4, <3>1, PlaceFacts, RestFacts
    <3>3. reported' = reported \cup ({prom[p].local} \cap Errors)
      BY <1>10, <2>5
    <3>4. \A c \in Errors : Stored(c) => Stored(c)' \/ c = prom[p].local
      BY <2>1, <3>2 DEF Stored, Outcomes
    <3>5. ASSUME NEW c \in Errors, c = prom[p].local
          PROVE  Stored(c) /\ \A s \in Places : At(s)' # c
      BY <1>1, <2>1, <3>2, <3>5 DEF Stored, StoredOnce, Outcomes
    <3> QED
      BY <1>5, <2>1, <3>2, <3>3, <3>4, <3>5 DEF Carries
  <2>6. ASSUME NEW x \in FA, x = prom[p].fut
        PROVE  AtF(x) \in Places /\ Carries(AtP(p), AtF(x))
    <3>1. /\ futr[x].prom = p
          /\ \A y \in FA : y # x => futr[y].prom # p
      BY <1>1, <2>6 DEF BackPointers
    <3>2. \A s \in Places : s # AtP(p) /\ s # AtF(x) =>
            \/ At(s)' = At(s) /\ (AtRest(s) => AtRest(s)')
            \/ At(s) \notin Outcomes /\ At(s)' \notin Outcomes
      BY <2>2, <2>3, <2>4, <3>1, PlaceFacts, RestFacts
    <3>3. reported' = reported
      BY <1>10, <2>6
    <3>4. /\ AtF(x) \in Places /\ At(AtF(x))' = prom[p].local
          /\ At(AtF(x)) \notin Outcomes /\ ~AtRest(AtP(p)) /\ AtP(p) # AtF(x)
      <4>1. futr'[x].local = prom[p].local /\ futr[x].local \notin Outcomes
        BY <1>1, <1>6, <1>9, <3>1 DEF Stores
      <4>2. ~AtRest(AtP(p)) /\ AtP(p) # AtF(x)
        BY <2>6, RestFacts, PlacesDiffer
      <4> QED
        BY <4>1, <4>2, PlaceFacts
    <3>5. \A c \in Outcomes : Stored(c) => Stored(c)'
      BY <2>1, <3>2, <3>4 DEF Stored
    <3> QED
      BY <1>5, <2>1, <3>2, <3>3, <3>4, <3>5 DEF Carries, Outcomes
  <2> QED
    <3>1. prom[p].fut = Null \/ \E x \in FA : x = prom[p].fut
      BY <1>1 DEF Sorted
    <3> QED
      BY <2>1, <2>5, <2>6, <3>1, CarriesIsGood
<1>12. Stores'
  <2>1. \A q \in PA : prom'[q].local \in Outcomes =>
          prom'[q].state = "local" /\ prom'[q].life # "none"
    BY <1>1, <1>5, EmptyFields DEF Stores
  <2>2. \A x \in FA : futr[x].prom \in D => futr[x].life # "none"
    BY <1>1, <1>6 DEF BackPointers
  <2>3. \A x \in FA : futr'[x].local \in Outcomes =>
          futr'[x].prom = Null /\ futr'[x].life # "none"
    BY <1>1, <1>9, <2>2 DEF Stores
  <2>4. \A t \in TA : tsk'[t].state \in Outcomes => tsk'[t].life = "queued"
    BY <1>1, <1>5, EmptyFields DEF Stores
  <2> QED
    BY <2>1, <2>3, <2>4 DEF Stores
<1>13. Usable'
  <2>1. \A q \in PA : prom'[q].life = "fresh" /\ prom'[q].state = "local" =>
          prom'[q].local # Invalid
    BY <1>1, <1>5, EmptyFields DEF Usable
  <2>2. ASSUME NEW x \in FA, futr'[x].life = "live"
        PROVE  /\ futr'[x].prom # Null => prom'[futr'[x].prom].local # Invalid
               /\ futr'[x].prom = Null => futr'[x].local \in Outcomes \/ BreakPromises
    <3>1. futr[x].life = "live"
      BY <1>9, <2>2
    <3>2. CASE futr[x].prom \notin D
      BY <1>1, <1>5, <1>9, <3>1, <3>2 DEF Usable, Sorted
    <3>3. CASE futr[x].prom = p
      <4>1. /\ prom[p].fut = x /\ x # Null /\ prom[p].local # Invalid
            /\ prom[p].local \in Content
        BY <1>1, <3>1, <3>3 DEF BackPointers, Usable, Sorted
      <4>2. prom[p].local = Pending => BreakPromises
        BY <1>5, <1>6, <1>8, <4>1 DEF Waited, CanSet
      <4> QED
        BY <1>6, <1>9, <3>3, <4>1, <4>2 DEF Content
    <3>4. CASE futr[x].prom \in D \ {p}
      BY <1>6, <1>7, <1>9, <3>4
    <3> QED
      BY <3>2, <3>3, <3>4
  <2> QED
    BY <2>1, <2>2 DEF Usable
<1>14. Rooted'
  <2>1. ASSUME NEW t \in TA, tsk'[t].life = "attached"
        PROVE  tsk[t].life = "attached"
    BY <1>5, <2>1, EmptyFields
  <2>2. \A q \in PA : prom'[q].task # Null => prom'[q] = prom[q]
    BY <1>5, EmptyFields
  <2> QED
    BY <1>1, <2>1, <2>2, NoNewWait
<1>15. ContinuationsKept
  BY <1>4, <1>5, <1>7 DEF ContinuationsKept
<1> QED
  BY <1>11, <1>12, <1>13, <1>14, <1>15 DEF StepIsGood

-----------------------------------------------------------------------------
(* The theorems.                                                           *)

LEMMA StepsAreGood ==
  ASSUME VInv, IInv', Next PROVE StepIsGood
<1>1. ASSUME PromiseStep PROVE StepIsGood
  BY <1>1, MakePromiseIsGood, DropPromiseIsGood, MovePromiseIsGood,
     GetFutureIsGood, SetOutcomeIsGood DEF PromiseStep
<1>2. ASSUME FutureStep PROVE StepIsGood
  BY <1>2, DropFutureIsGood, GetIsGood, MoveFutureIsGood, MakeReadyFutureIsGood,
     ThenNowPassesOnIsGood, ThenNowIsGood, ThenScheduledIsGood,
     ThenAttachedIsGood DEF FutureStep
<1>3. ASSUME TaskStep PROVE StepIsGood
  BY <1>3, StartIsGood, PassOnIsGood, IgnoreIsGood, ReturnIsGood,
     ReturnAvailableIsGood, ReturnPendingIsGood DEF TaskStep
<1> QED
  BY <1>1, <1>2, <1>3 DEF Next

LEMMA NextVInv ==
  VInv /\ [Next]_vars =>
    /\ VInv' /\ ContinuationsKept
    /\ ItemStep \/ UNCHANGED <<prom, futr, tsk, supplied, delivered, reported>>
<1> SUFFICES ASSUME VInv, [Next]_vars
             PROVE  /\ VInv' /\ ContinuationsKept
                    /\ ItemStep \/ UNCHANGED <<prom, futr, tsk, supplied, delivered, reported>>
  OBVIOUS
<1>1. IInv'
  BY NextIInv, VParts
<1>2. CASE Next
  BY <1>1, <1>2, StepsAreGood DEF StepIsGood, VInv
<1>3. CASE UNCHANGED vars
  <2>1. UNCHANGED <<prom, futr, tsk, supplied, delivered, reported>>
    BY <1>3 DEF vars
  <2>2. StoredOnce' /\ HandedOver'
    <3>1. \A s \in Places : At(s)' = At(s)
      BY <2>1, PlaceFacts
    <3>2. \A s \in Places : AtRest(s) => AtRest(s)'
      BY <2>1, PlaceFacts, RestFacts
    <3> QED
      BY <2>1, <3>1, <3>2, VParts DEF StoredOnce, HandedOver, Stored
  <2>3. Stores' /\ Usable' /\ Rooted'
    BY <2>1, VParts DEF Stores, Usable, Rooted
  <2>4. ContinuationsKept
    BY <2>1 DEF ContinuationsKept
  <2> QED
    BY <1>1, <2>1, <2>2, <2>3, <2>4 DEF VInv
<1> QED
  BY <1>2, <1>3

LEMMA ValuesConsistent == Spec => []VInv
<1>1. VInv /\ [Next]_vars => VInv'
  BY NextVInv
<1> QED
  BY <1>1, InitVInv, PTL DEF Spec

(* future.hh:107: one logical value, stored in exactly one place, for any  *)
(* number of promises, futures and continuations and whatever clients do.  *)
THEOREM OneValueOnePlace == Spec => []OneLocation
BY OnePlace, ValuesConsistent, PTL

(* While no client drops a promise that is waited for, the assert in       *)
(* future::schedule() and the dereference in future::forward_to() are safe *)
(* for every future that is alive.                                         *)
THEOREM LiveFuturesUsable == Spec => []FutureIsUsable
BY LiveIsUsable, ValuesConsistent, PTL

(* No continuation waits for nobody, not even with clients that drop       *)
(* promises: from every attached continuation a chain of captured promises *)
(* leads to one that the client holds or that a scheduled or a running     *)
(* continuation captured.  Chains have no bound here, and forward_to() may *)
(* re-link them in the middle.                                             *)
THEOREM WaitersAnchored == Spec => []Anchored
BY RootedIsAnchored, ValuesConsistent, PTL

(* No step loses a continuation.                                           *)
THEOREM NoneLost == Spec => NoContinuationLost
<1>1. VInv /\ [Next]_vars => ContinuationsKept
  BY NextVInv
<1>2. ContinuationsKept =>
        [\A t \in TA :
           /\ tsk[t].life = "attached" /\ ~BreakPromises =>
                tsk'[t].life \in {"attached", "queued"}
           /\ tsk[t].life = "queued" =>
                tsk'[t] = tsk[t] \/ Start(t) \/ PassOn(t) \/ Ignore(t)]_vars
  BY DEF ContinuationsKept
<1> QED
  BY <1>1, <1>2, ValuesConsistent, PTL DEF Spec, NoContinuationLost

(* The heap of promises, futures and continuations implements the          *)
(* single-item queue: each outcome is handed over at most once, and each   *)
(* failure is handed over or reported, and not both.                       *)
THEOREM HeapImplementsItem == Spec => ImplementsItem
<1> DEFINE status == [c \in Outcomes |-> StatusOf(c)]
<1>1. Init => Item!Init
  <2> SUFFICES ASSUME Init PROVE Item!Init
    OBVIOUS
  <2>1. ASSUME NEW c \in Outcomes PROVE StatusOf(c) = "unsupplied"
    <3>1. delivered[c] = 0 /\ c \notin reported /\ c \notin supplied
      BY DEF Init
    <3>2. c # Invalid
      BY SortsAreApart
    <3>3. ~Stored(c)
      BY <3>2, PlaceFacts, EmptyFields DEF Init, Stored
    <3> QED
      BY <3>1, <3>3, SlotsFacts DEF StatusOf
  <2> QED
    BY <2>1 DEF Item!Init, Outcomes
<1>2. VInv /\ [Next]_vars => [Item!Next]_status
  <2> SUFFICES ASSUME VInv, [Next]_vars PROVE Item!Next \/ status' = status
    OBVIOUS
  <2>1. CASE ItemStep
    <3>1. /\ status' \in [Outcomes -> Item!Statuses]
          /\ \A c \in Outcomes : status'[c] \in Item!MayBecome(c, status[c])
      BY <2>1 DEF ItemStep
    <3> QED
      BY <3>1 DEF Item!Next, Outcomes
  <2>2. CASE UNCHANGED <<prom, futr, tsk, supplied, delivered, reported>>
    BY <2>2 DEF StatusOf, Slots
  <2> QED
    BY <2>1, <2>2, NextVInv
<1> QED
  BY <1>1, <1>2, ValuesConsistent, PTL DEF Spec, ImplementsItem, Item!Spec
============================================================================
