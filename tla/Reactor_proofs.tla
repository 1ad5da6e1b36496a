--------------------------- MODULE Reactor_proofs ---------------------------
(***************************************************************************)
(* Proofs about Reactor, for any set of tasks, any depth of nesting and    *)
(* any number of operations and reports.                                   *)
(***************************************************************************)
EXTENDS Reactor, SequenceTheorems, TLAPS

IInv == TypeOK /\ NoStrandedTask /\ RunDrains /\ EachOnce /\ NestsInClientCode

-----------------------------------------------------------------------------
(* What a step does to the stack.                                          *)

\* t is s with its innermost frame replaced by fr.
Replaced(s, t, fr) ==
  /\ s # <<>> /\ t \in Seq(Frames) /\ Len(t) = Len(s) /\ t[Len(s)] = fr
  /\ \A i \in 1..(Len(s) - 1) : t[i] = s[i]

\* t is s with fr called from its innermost frame.
Called(s, t, fr) ==
  /\ t \in Seq(Frames) /\ Len(t) = Len(s) + 1 /\ t[Len(s) + 1] = fr
  /\ \A i \in 1..Len(s) : t[i] = s[i]

\* t is s after its innermost frame returned.
Returned(s, t) ==
  /\ s # <<>> /\ t \in Seq(Frames) /\ Len(t) = Len(s) - 1
  /\ \A i \in 1..(Len(s) - 1) : t[i] = s[i]

\* The frames the thread may have, and the task a task frame runs.
LEMMA FrameFacts ==
  /\ RunWork \in Frames /\ RunWork.pc = "pop"
  /\ [pc |-> "again"] \in Frames /\ [pc |-> "end"] \in Frames
  /\ [pc |-> "handler"] \in Frames
  /\ \A t \in Task : [pc |-> "body", task |-> t] \in Frames
  /\ \A fr \in Frames : fr.pc = "body" => fr.task \in Task
<1>1. /\ RunWork \in Frames /\ RunWork.pc = "pop"
      /\ [pc |-> "again"] \in Frames /\ [pc |-> "end"] \in Frames
      /\ [pc |-> "handler"] \in Frames
  BY DEF RunWork, Frames, WorkPc
<1>2. \A t \in Task : [pc |-> "body", task |-> t] \in Frames
  BY DEF Frames
<1>3. \A fr \in Frames : fr.pc = "body" => fr.task \in Task
  BY DEF Frames, WorkPc
<1> QED
  BY <1>1, <1>2, <1>3

\* A stack is a finite sequence of frames.
LEMMA StackFacts ==
  ASSUME NEW s \in Seq(Frames)
  PROVE  /\ Len(s) \in Nat /\ DOMAIN s = 1..Len(s)
         /\ s = <<>> <=> Len(s) = 0
         /\ \A i \in 1..Len(s) : s[i] \in Frames
  BY LenProperties, EmptySeq, ElementOfSeq

\* The innermost frame changes what it does next, the others stay.
LEMMA ReplaceTop ==
  ASSUME stack \in Seq(Frames), stack # <<>>, NEW fr \in Frames
  PROVE  Replaced(stack, SetTop(fr), fr)
<1>1. Len(stack) \in 1..Len(stack)
  BY StackFacts
<1> QED
  BY <1>1, ExceptSeq DEF Replaced, SetTop

\* A call adds a frame and leaves those below it alone.
LEMMA CallOnTop ==
  ASSUME NEW s \in Seq(Frames), NEW fr \in Frames
  PROVE  Called(s, Push(s, fr), fr)
  BY StackFacts DEF Called, Push

\* A return removes the innermost frame only.
LEMMA ReturnFromTop ==
  ASSUME stack \in Seq(Frames), stack # <<>>
  PROVE  Returned(stack, PopFrame)
<1>1. Len(stack) \in Nat \ {0}
  BY StackFacts
<1> DEFINE n == Len(stack) - 1
           t == SubSeq(stack, 1, n)
<1>2. n \in Nat /\ \A i \in 1..n : stack[i] \in Frames
  BY <1>1, StackFacts
<1>3. /\ t \in Seq(Frames) /\ Len(t) = (IF 1 <= n THEN n - 1 + 1 ELSE 0)
      /\ \A i \in 1..(n - 1 + 1) : t[i] = stack[1 + i - 1]
  BY <1>2, SubSeqProperties
<1> HIDE DEF n, t
<1>4. t \in Seq(Frames) /\ Len(t) = n /\ \A i \in 1..n : t[i] = stack[i]
  BY <1>2, <1>3
<1> QED
  BY <1>4 DEF Returned, PopFrame, n, t

-----------------------------------------------------------------------------
(* What a step does to the tasks that are half way.                        *)

ActiveIn(s) == {t \in Task : \E i \in DOMAIN s :
                  s[i].pc = "body" /\ s[i].task = t}

OneFrameEach(s) ==
  \A i, j \in DOMAIN s :
    s[i].pc = "body" /\ s[j].pc = "body" /\ s[i].task = s[j].task => i = j

\* Calling a function that is not a task.
LEMMA BodiesAfterCall ==
  ASSUME NEW s \in Seq(Frames), NEW t, NEW fr, fr.pc # "body",
         Called(s, t, fr), OneFrameEach(s)
  PROVE  ActiveIn(t) = ActiveIn(s) /\ OneFrameEach(t)
<1>1. /\ Len(s) \in Nat /\ DOMAIN s = 1..Len(s)
      /\ DOMAIN t = 1..(Len(s) + 1) /\ t[Len(s) + 1].pc # "body"
      /\ \A i \in 1..Len(s) : t[i] = s[i]
  BY StackFacts DEF Called
<1>2. \A i \in DOMAIN t : t[i].pc = "body" => i \in DOMAIN s /\ t[i] = s[i]
  BY <1>1
<1>3. \A i \in DOMAIN s : i \in DOMAIN t /\ t[i] = s[i]
  BY <1>1
<1> QED
  BY <1>2, <1>3 DEF ActiveIn, OneFrameEach

\* Returning from a function that is not a task.
LEMMA BodiesAfterReturn ==
  ASSUME NEW s \in Seq(Frames), NEW t, Returned(s, t),
         s[Len(s)].pc # "body", OneFrameEach(s)
  PROVE  ActiveIn(t) = ActiveIn(s) /\ OneFrameEach(t)
<1>1. /\ Len(s) \in Nat \ {0} /\ DOMAIN s = 1..Len(s)
      /\ DOMAIN t = 1..(Len(s) - 1)
      /\ \A i \in 1..(Len(s) - 1) : t[i] = s[i]
  BY StackFacts DEF Returned
<1>2. \A i \in DOMAIN s : s[i].pc = "body" => i \in DOMAIN t /\ t[i] = s[i]
  BY <1>1
<1>3. \A i \in DOMAIN t : i \in DOMAIN s /\ t[i] = s[i]
  BY <1>1
<1> QED
  BY <1>2, <1>3 DEF ActiveIn, OneFrameEach

\* run_work() goes on, outside ptr->run().
LEMMA BodiesAfterMove ==
  ASSUME NEW s \in Seq(Frames), NEW t, NEW fr, fr.pc # "body",
         Replaced(s, t, fr), s[Len(s)].pc # "body", OneFrameEach(s)
  PROVE  ActiveIn(t) = ActiveIn(s) /\ OneFrameEach(t)
<1>1. /\ Len(s) \in Nat \ {0} /\ DOMAIN s = 1..Len(s)
      /\ DOMAIN t = 1..Len(s) /\ t[Len(s)].pc # "body"
      /\ \A i \in 1..(Len(s) - 1) : t[i] = s[i]
  BY StackFacts DEF Replaced
<1>2. \A i \in DOMAIN t : i \in DOMAIN s /\ (t[i] = s[i] \/ (t[i].pc # "body"
                                                      /\ s[i].pc # "body"))
  BY <1>1
<1>3. DOMAIN t = DOMAIN s
  BY <1>1
<1> QED
  BY <1>2, <1>3 DEF ActiveIn, OneFrameEach

\* run_work() calls ptr->run() of the task x.
LEMMA BodiesAfterStart ==
  ASSUME NEW s \in Seq(Frames), NEW t, NEW fr, NEW x \in Task,
         fr.pc = "body", fr.task = x, x \notin ActiveIn(s),
         Replaced(s, t, fr), s[Len(s)].pc # "body", OneFrameEach(s)
  PROVE  ActiveIn(t) = ActiveIn(s) \cup {x} /\ OneFrameEach(t)
<1> DEFINE n == Len(s)
<1>1. /\ n \in DOMAIN s /\ DOMAIN t = DOMAIN s /\ s[n].pc # "body" /\ t[n] = fr
      /\ \A i \in DOMAIN s : i # n => t[i] = s[i]
  BY StackFacts DEF Replaced
<1> HIDE DEF n
<1>2. \A i \in DOMAIN s : s[i].pc = "body" => s[i].task # x
  BY DEF ActiveIn
<1>3. OneFrameEach(t)
  BY <1>1, <1>2 DEF OneFrameEach
<1>4. ASSUME NEW y \in ActiveIn(t) PROVE y \in ActiveIn(s) \cup {x}
  BY <1>1 DEF ActiveIn
<1>5. ASSUME NEW y \in ActiveIn(s) PROVE y \in ActiveIn(t)
  BY <1>1 DEF ActiveIn
<1>6. x \in ActiveIn(t)
  BY <1>1 DEF ActiveIn
<1> QED
  BY <1>3, <1>4, <1>5, <1>6

\* ptr->run() of the innermost task returns to run_work().
LEMMA BodiesAfterFinish ==
  ASSUME NEW s \in Seq(Frames), NEW t, NEW fr, fr.pc # "body",
         Replaced(s, t, fr), s[Len(s)].pc = "body", OneFrameEach(s)
  PROVE  /\ ActiveIn(t) = ActiveIn(s) \ {s[Len(s)].task} /\ OneFrameEach(t)
         /\ s[Len(s)].task \in ActiveIn(s)
<1> DEFINE n == Len(s)
<1>1. /\ n \in DOMAIN s /\ DOMAIN t = DOMAIN s /\ s[n].pc = "body"
      /\ t[n].pc # "body" /\ s[n].task \in Task
      /\ \A i \in DOMAIN s : i # n => t[i] = s[i]
  BY StackFacts, FrameFacts, SMTT(30) DEF Replaced
<1> HIDE DEF n
<1>2. OneFrameEach(t)
  BY <1>1 DEF OneFrameEach
<1>3. ASSUME NEW y \in ActiveIn(t) PROVE y \in ActiveIn(s) /\ y # s[n].task
  BY <1>1 DEF ActiveIn, OneFrameEach
<1>4. ASSUME NEW y \in ActiveIn(s), y # s[n].task PROVE y \in ActiveIn(t)
  BY <1>1, <1>4 DEF ActiveIn
<1>5. s[n].task \in ActiveIn(s)
  BY <1>1 DEF ActiveIn
<1> QED
  BY <1>2, <1>3, <1>4, <1>5 DEF n

-----------------------------------------------------------------------------
(* What a step does to the queue.                                          *)

QueuedIn(q) == {t \in Task : \E i \in DOMAIN q : q[i] = t}

OncePerTask(q) == \A i, j \in DOMAIN q : q[i] = q[j] => i = j

\* schedule() adds one task to the queue, at its end.
LEMMA QueueAfterAppend ==
  ASSUME NEW q \in Seq(Task), NEW x \in Task, x \notin QueuedIn(q),
         OncePerTask(q)
  PROVE  /\ Append(q, x) \in Seq(Task) /\ Append(q, x) # <<>>
         /\ QueuedIn(Append(q, x)) = QueuedIn(q) \cup {x}
         /\ OncePerTask(Append(q, x))
<1> DEFINE r == Append(q, x)
<1>1. /\ Len(q) \in Nat /\ DOMAIN q = 1..Len(q)
      /\ r \in Seq(Task) /\ DOMAIN r = 1..(Len(q) + 1) /\ r[Len(q) + 1] = x
      /\ \A i \in 1..Len(q) : r[i] = q[i]
      /\ r # <<>>
  BY LenProperties
<1> HIDE DEF r
<1>2. \A i \in DOMAIN q : q[i] # x /\ i \in DOMAIN r /\ r[i] = q[i]
  BY <1>1 DEF QueuedIn
<1>3. \A i \in DOMAIN r : i \in DOMAIN q \/ i = Len(q) + 1
  BY <1>1
<1>4. OncePerTask(r)
  BY <1>1, <1>2, <1>3 DEF OncePerTask
<1>5. QueuedIn(r) = QueuedIn(q) \cup {x}
  <2>1. ASSUME NEW y \in QueuedIn(r) PROVE y \in QueuedIn(q) \cup {x}
    BY <1>1, <1>2, <1>3 DEF QueuedIn
  <2>2. ASSUME NEW y \in QueuedIn(q) PROVE y \in QueuedIn(r)
    BY <1>2 DEF QueuedIn
  <2>3. Len(q) + 1 \in DOMAIN r
    BY <1>1
  <2>4. x \in QueuedIn(r)
    BY <1>1, <2>3 DEF QueuedIn
  <2> QED
    BY <2>1, <2>2, <2>4
<1> QED
  BY <1>1, <1>4, <1>5 DEF r

\* run_work() takes the first task off the queue, and only it.
LEMMA QueueAfterPop ==
  ASSUME NEW q \in Seq(Task), q # <<>>, OncePerTask(q)
  PROVE  /\ Tail(q) \in Seq(Task) /\ Head(q) \in QueuedIn(q)
         /\ QueuedIn(Tail(q)) = QueuedIn(q) \ {Head(q)}
         /\ OncePerTask(Tail(q))
<1> DEFINE r == Tail(q)
           x == Head(q)
<1>1. /\ Len(q) \in Nat \ {0} /\ DOMAIN q = 1..Len(q)
      /\ r \in Seq(Task) /\ DOMAIN r = 1..(Len(q) - 1)
      /\ x = q[1] /\ x \in Task
      /\ \A i \in 1..(Len(q) - 1) : r[i] = q[i + 1]
  BY LenProperties, HeadTailProperties, EmptySeq
<1> HIDE DEF r, x
<1>2. \A i \in DOMAIN r : i + 1 \in DOMAIN q /\ r[i] = q[i + 1] /\ i + 1 # 1
                          /\ i \in Nat
  BY <1>1
<1>3. \A i \in DOMAIN q : i = 1 \/ (i - 1 \in DOMAIN r /\ r[i - 1] = q[i])
  BY <1>1
<1>4. 1 \in DOMAIN q
  BY <1>1
<1>5. OncePerTask(r)
  BY <1>2 DEF OncePerTask
<1>6. x \in QueuedIn(q)
  BY <1>1, <1>4 DEF QueuedIn
<1>7. QueuedIn(r) = QueuedIn(q) \ {x}
  <2>1. ASSUME NEW y \in QueuedIn(r) PROVE y \in QueuedIn(q) /\ y # x
    BY <1>1, <1>2, <1>4 DEF QueuedIn, OncePerTask
  <2>2. ASSUME NEW y \in QueuedIn(q), y # x PROVE y \in QueuedIn(r)
    BY <1>1, <1>3, <2>2 DEF QueuedIn
  <2> QED
    BY <2>1, <2>2
<1> QED
  BY <1>1, <1>5, <1>6, <1>7 DEF r, x

-----------------------------------------------------------------------------
(* What keeps the invariant.                                               *)

\* The invariant in the terms of the lemmas above.
LEMMA Parts ==
  ASSUME IInv
  PROVE  /\ TypeOK /\ NoStrandedTask /\ RunDrains /\ NestsInClientCode
         /\ stack \in Seq(Frames) /\ queue \in Seq(Task)
         /\ Active = ActiveIn(stack) /\ Queued = QueuedIn(queue)
         /\ OneFrameEach(stack) /\ OncePerTask(queue)
         /\ Active \cap Queued = {} /\ Active \cap done = {}
         /\ Queued \cap done = {}
  BY DEF IInv, TypeOK, EachOnce, Active, ActiveIn, Queued, QueuedIn,
         OneFrameEach, OncePerTask

\* What a step must show to keep a task in one place.
LEMMA EachOnceAfter ==
  ASSUME OneFrameEach(stack'), OncePerTask(queue'),
         ActiveIn(stack') \cap QueuedIn(queue') = {},
         ActiveIn(stack') \cap done' = {}, QueuedIn(queue') \cap done' = {}
  PROVE  EachOnce' /\ Active' = ActiveIn(stack')
  BY DEF EachOnce, Active, ActiveIn, Queued, QueuedIn, OneFrameEach, OncePerTask

\* schedule() before run(): the posted run_work() will look.
LEMMA ScheduleOutsideStep ==
  ASSUME IInv, NEW t \in Task, ScheduleOutside(t) PROVE IInv' /\ Active' = Active
<1>1. t \notin Active /\ t \notin Queued /\ t \notin done
  BY DEF ScheduleOutside, New
<1>2. /\ queue' \in Seq(Task) /\ QueuedIn(queue') = Queued \cup {t}
      /\ OncePerTask(queue')
  BY <1>1, Parts, QueueAfterAppend DEF ScheduleOutside
<1>3. stack' = stack /\ done' = done /\ posted' = posted + 1 /\ phase' = "setup"
  BY DEF ScheduleOutside, Outside
<1>4. TypeOK' /\ posted' > 0
  BY <1>2, <1>3, Parts DEF ScheduleOutside, TypeOK
<1>5. NoStrandedTask' /\ RunDrains'
  BY <1>3, <1>4 DEF NoStrandedTask, RunDrains
<1>6. NestsInClientCode'
  BY <1>3, Parts DEF NestsInClientCode
<1>7. EachOnce' /\ Active' = Active
  BY <1>1, <1>2, <1>3, Parts, EachOnceAfter
<1> QED
  BY <1>4, <1>5, <1>6, <1>7 DEF IInv

\* A frame called from client code, or by io_service.
LEMMA CalledStep ==
  ASSUME IInv, NEW fr \in Frames, fr.pc # "body", Called(stack, stack', fr),
         stack # <<>> => Top.pc \in {"body", "handler"}
  PROVE  /\ NestsInClientCode'
         /\ ActiveIn(stack') = Active /\ OneFrameEach(stack')
         /\ \A i \in DOMAIN stack : i \in DOMAIN stack' /\ stack'[i] = stack[i]
         /\ Len(stack) + 1 \in DOMAIN stack' /\ stack'[Len(stack) + 1] = fr
         /\ stack' # <<>>
<1>1. /\ Len(stack) \in Nat /\ DOMAIN stack = 1..Len(stack)
      /\ Len(stack') = Len(stack) + 1 /\ DOMAIN stack' = 1..(Len(stack) + 1)
      /\ stack'[Len(stack) + 1] = fr /\ stack' \in Seq(Frames)
      /\ \A i \in 1..Len(stack) : stack'[i] = stack[i]
      /\ stack' # <<>>
  BY Parts, StackFacts DEF Called
<1>2. ActiveIn(stack') = Active /\ OneFrameEach(stack')
  BY Parts, BodiesAfterCall
<1>3. NestsInClientCode'
  <2>1. ASSUME NEW i \in 1..(Len(stack') - 1)
        PROVE  stack'[i].pc \in {"body", "handler", "end"}
    <3>1. i \in 1..Len(stack) /\ stack'[i] = stack[i]
      BY <1>1
    <3>2. CASE i = Len(stack)
      BY <1>1, <3>1, <3>2, Parts, StackFacts DEF Top
    <3>3. CASE i # Len(stack)
      <4>1. i \in 1..(Len(stack) - 1)
        <5>1. \A n \in Nat : \A k \in 1..n : k # n => k \in 1..(n - 1)
          OBVIOUS
        <5> QED
          BY <1>1, <3>1, <3>3, <5>1
      <4> QED
        BY <3>1, <4>1, Parts DEF NestsInClientCode
    <3> QED
      BY <3>2, <3>3
  <2> QED
    BY <2>1 DEF NestsInClientCode
<1> QED
  BY <1>1, <1>2, <1>3

\* schedule() inside run(): the new run_work() frame will look.
LEMMA ScheduleInsideStep ==
  ASSUME IInv, NEW t \in Task, ScheduleInside(t) PROVE IInv' /\ Active' = Active
<1>1. t \notin Active /\ t \notin Queued /\ t \notin done
  BY DEF ScheduleInside, New
<1>2. /\ queue' \in Seq(Task) /\ QueuedIn(queue') = Queued \cup {t}
      /\ OncePerTask(queue')
  BY <1>1, Parts, QueueAfterAppend DEF ScheduleInside
<1>3. /\ stack # <<>> /\ Top.pc \in {"body", "handler"}
      /\ stack' = Push(stack, RunWork) /\ done' = done /\ phase' = phase
  BY DEF ScheduleInside, Inside, At
<1>4. RunWork \in Frames /\ RunWork.pc = "pop" /\ Called(stack, stack', RunWork)
  BY <1>3, Parts, FrameFacts, CallOnTop
<1>5. /\ NestsInClientCode' /\ ActiveIn(stack') = Active /\ OneFrameEach(stack')
      /\ Len(stack) + 1 \in DOMAIN stack' /\ stack'[Len(stack) + 1] = RunWork
  BY <1>3, <1>4, CalledStep
<1>6. TypeOK'
  BY <1>2, <1>4, Parts DEF ScheduleInside, TypeOK, Called
<1>7. NoStrandedTask'
  BY <1>4, <1>5 DEF NoStrandedTask, WillLook
<1>8. RunDrains'
  BY <1>3, Parts DEF RunDrains
<1>9. EachOnce' /\ Active' = Active
  BY <1>1, <1>2, <1>3, <1>5, Parts, EachOnceAfter
<1> QED
  BY <1>5, <1>6, <1>7, <1>8, <1>9 DEF IInv

\* io_service calls a posted run_work(), which will look.
LEMMA CallPostedStep ==
  ASSUME IInv, CallPosted PROVE IInv' /\ Active' = Active
<1>1. /\ stack = <<>> /\ stack' = Push(stack, RunWork) /\ done' = done
      /\ phase' = "running" /\ queue' = queue
  BY DEF CallPosted, Push
<1>2. RunWork \in Frames /\ RunWork.pc = "pop" /\ Called(stack, stack', RunWork)
  BY <1>1, Parts, FrameFacts, CallOnTop
<1>3. /\ NestsInClientCode' /\ ActiveIn(stack') = Active /\ OneFrameEach(stack')
      /\ Len(stack) + 1 \in DOMAIN stack' /\ stack'[Len(stack) + 1] = RunWork
  BY <1>1, <1>2, CalledStep
<1>4. TypeOK'
  BY <1>2, Parts DEF CallPosted, TypeOK, Called
<1>5. NoStrandedTask'
  BY <1>2, <1>3 DEF NoStrandedTask, WillLook
<1>6. RunDrains'
  BY <1>1 DEF RunDrains
<1>7. EachOnce' /\ Active' = Active
  BY <1>1, <1>3, Parts, EachOnceAfter
<1> QED
  BY <1>3, <1>4, <1>5, <1>6, <1>7 DEF IInv

\* A completion handler starts on an empty stack.
LEMMA CompleteIOStep ==
  ASSUME IInv, CompleteIO PROVE IInv' /\ Active' = Active
<1> DEFINE fr == [pc |-> "handler"]
<1>1. /\ stack = <<>> /\ stack' = Push(stack, fr) /\ done' = done
      /\ phase' = "running" /\ queue' = queue /\ posted' = posted
  BY DEF CompleteIO, Push
<1>2. fr \in Frames /\ fr.pc = "handler"
  BY FrameFacts
<1> HIDE DEF fr
<1>3. Called(stack, stack', fr)
  BY <1>1, <1>2, Parts, CallOnTop
<1>4. NestsInClientCode' /\ ActiveIn(stack') = Active /\ OneFrameEach(stack')
  BY <1>1, <1>2, <1>3, CalledStep
<1>5. TypeOK'
  BY <1>3, Parts DEF CompleteIO, TypeOK, Called
<1>6. queue # <<>> => posted > 0
  BY <1>1, Parts, StackFacts DEF NoStrandedTask
<1>7. NoStrandedTask' /\ RunDrains'
  BY <1>1, <1>6 DEF NoStrandedTask, RunDrains
<1>8. EachOnce' /\ Active' = Active
  BY <1>1, <1>4, Parts, EachOnceAfter
<1> QED
  BY <1>4, <1>5, <1>7, <1>8 DEF IInv

\* run() returns with nothing posted and nothing on the stack.
LEMMA LeaveRunStep ==
  ASSUME IInv, LeaveRun PROVE IInv' /\ Active' = Active
<1>1. /\ stack = <<>> /\ stack' = stack /\ posted = 0 /\ posted' = posted
      /\ queue' = queue /\ done' = done
  BY DEF LeaveRun
<1>2. queue = <<>>
  BY <1>1, Parts, StackFacts DEF NoStrandedTask
<1>3. TypeOK'
  BY <1>1, Parts DEF LeaveRun, TypeOK
<1>4. NoStrandedTask' /\ RunDrains' /\ NestsInClientCode'
  BY <1>1, <1>2, Parts DEF NoStrandedTask, RunDrains, NestsInClientCode
<1>5. EachOnce' /\ Active' = Active
  BY <1>1, Parts, EachOnceAfter
<1> QED
  BY <1>3, <1>4, <1>5 DEF IInv

\* Steps that touch neither the queue nor the stack.
LEMMA ElsewhereStep ==
  ASSUME IInv, StartIO \/ ReportFailedFuture \/ EnterRun \/ UNCHANGED vars
  PROVE  IInv' /\ Active' = Active
<1>1. /\ stack' = stack /\ queue' = queue /\ done' = done /\ posted' = posted
      /\ phase' = phase \/ phase' = "running"
  BY DEF StartIO, ReportFailedFuture, EnterRun, vars
<1>2. TypeOK'
  BY Parts DEF TypeOK, StartIO, ReportFailedFuture, EnterRun, vars
<1>3. NoStrandedTask' /\ RunDrains' /\ NestsInClientCode'
  BY <1>1, Parts DEF NoStrandedTask, RunDrains, NestsInClientCode
<1>4. EachOnce' /\ Active' = Active
  BY <1>1, Parts, EachOnceAfter
<1> QED
  BY <1>2, <1>3, <1>4 DEF IInv

\* A frame that keeps its place and changes what it does next.
LEMMA ReplacedStep ==
  ASSUME IInv, NEW fr, Replaced(stack, stack', fr)
  PROVE  /\ NestsInClientCode'
         /\ Len(stack) \in DOMAIN stack' /\ stack'[Len(stack)] = fr
         /\ stack' \in Seq(Frames)
<1>1. /\ Len(stack) \in Nat \ {0} /\ Len(stack') = Len(stack)
      /\ DOMAIN stack' = 1..Len(stack) /\ stack'[Len(stack)] = fr
      /\ stack' \in Seq(Frames)
      /\ \A i \in 1..(Len(stack) - 1) : stack'[i] = stack[i]
  BY Parts, StackFacts DEF Replaced
<1>2. NestsInClientCode'
  BY <1>1, Parts DEF NestsInClientCode
<1> QED
  BY <1>1, <1>2

\* A frame that returns to the one below it, or to io_service.
LEMMA ReturnedStep ==
  ASSUME IInv, Returned(stack, stack'), phase' = phase, queue' = queue,
         posted' = posted, done' = done, Top.pc # "body",
         WillLook(Top) => queue = <<>>,
         io' = io, started' = started, exceptions' = exceptions
  PROVE  IInv' /\ Active' = Active
<1>1. /\ Len(stack) \in Nat \ {0} /\ Len(stack') = Len(stack) - 1
      /\ DOMAIN stack = 1..Len(stack) /\ DOMAIN stack' = 1..(Len(stack) - 1)
      /\ stack' \in Seq(Frames)
      /\ \A i \in 1..(Len(stack) - 1) : stack'[i] = stack[i]
  BY Parts, StackFacts DEF Returned
<1>2. TypeOK'
  BY <1>1, Parts DEF TypeOK
<1>3. NestsInClientCode'
  <2>1. ASSUME NEW i \in 1..(Len(stack') - 1)
        PROVE  stack'[i].pc \in {"body", "handler", "end"}
    <3>1. i \in 1..(Len(stack) - 1) /\ stack'[i] = stack[i]
      BY <1>1
    <3> QED
      BY <3>1, Parts DEF NestsInClientCode
  <2> QED
    BY <2>1 DEF NestsInClientCode
<1>4. NoStrandedTask'
  <2>1. CASE queue = <<>> \/ posted > 0
    BY <2>1 DEF NoStrandedTask
  <2>2. CASE ~(queue = <<>> \/ posted > 0)
    <3>1. PICK i \in DOMAIN stack : WillLook(stack[i])
      BY <2>2, Parts DEF NoStrandedTask
    <3>2. i # Len(stack)
      BY <2>2, <3>1 DEF Top
    <3>3. i \in DOMAIN stack' /\ stack'[i] = stack[i]
      BY <1>1, <3>2
    <3> QED
      BY <3>1, <3>3 DEF NoStrandedTask
  <2> QED
    BY <2>1, <2>2
<1>5. RunDrains'
  <2>1. stack # <<>>
    BY <1>1, StackFacts, Parts
  <2> QED
    BY <2>1, Parts DEF RunDrains
<1>6. EachOnce' /\ Active' = Active
  <2>1. ActiveIn(stack') = Active /\ OneFrameEach(stack')
    BY Parts, BodiesAfterReturn DEF Top
  <2> QED
    BY <2>1, Parts, EachOnceAfter
<1> QED
  BY <1>2, <1>3, <1>4, <1>5, <1>6 DEF IInv

\* run_work() moves the first task from the queue to its own frame.
LEMMA PopTaskStep ==
  ASSUME IInv, PopTask PROVE IInv' /\ Active' = Active \cup {Head(queue)}
<1> DEFINE x == Head(queue)
           fr == [pc |-> "body", task |-> x]
<1>1. /\ stack # <<>> /\ Top.pc = "pop" /\ queue # <<>>
      /\ stack' = SetTop(fr) /\ queue' = Tail(queue)
      /\ phase' = phase /\ posted' = posted /\ done' = done
  BY DEF PopTask, At
<1>2. /\ queue' \in Seq(Task) /\ x \in Queued /\ x \in Task
      /\ QueuedIn(queue') = Queued \ {x} /\ OncePerTask(queue')
  BY <1>1, Parts, QueueAfterPop DEF Queued
<1>3. fr \in Frames /\ fr.pc = "body" /\ fr.task = x
  BY <1>2, FrameFacts
<1> HIDE DEF x, fr
<1>4. Replaced(stack, stack', fr)
  BY <1>1, <1>3, Parts, ReplaceTop
<1>5. ActiveIn(stack') = Active \cup {x} /\ OneFrameEach(stack')
  BY <1>1, <1>2, <1>3, <1>4, Parts, BodiesAfterStart DEF Top
<1>6. /\ NestsInClientCode' /\ Len(stack) \in DOMAIN stack'
      /\ stack'[Len(stack)] = fr /\ stack' \in Seq(Frames)
  BY <1>4, ReplacedStep
<1>7. TypeOK'
  BY <1>2, <1>6, Parts DEF PopTask, TypeOK
<1>8. NoStrandedTask' /\ RunDrains'
  BY <1>1, <1>3, <1>6, Parts DEF NoStrandedTask, RunDrains, WillLook
<1>9. EachOnce' /\ Active' = Active \cup {x}
  BY <1>1, <1>2, <1>5, Parts, EachOnceAfter
<1> QED
  BY <1>6, <1>7, <1>8, <1>9 DEF IInv, x

\* run_work() finds the queue empty.
LEMMA NothingToPopStep ==
  ASSUME IInv, NothingToPop PROVE IInv' /\ Active' = Active
<1> DEFINE fr == [pc |-> "again"]
<1>1. /\ stack # <<>> /\ Top.pc = "pop" /\ queue = <<>>
      /\ stack' = SetTop(fr) /\ queue' = queue
      /\ phase' = phase /\ posted' = posted /\ done' = done
  BY DEF NothingToPop, At
<1>2. fr \in Frames /\ fr.pc = "again"
  BY FrameFacts
<1> HIDE DEF fr
<1>3. Replaced(stack, stack', fr)
  BY <1>1, <1>2, Parts, ReplaceTop
<1>4. ActiveIn(stack') = Active /\ OneFrameEach(stack')
  BY <1>1, <1>2, <1>3, Parts, BodiesAfterMove DEF Top
<1>5. NestsInClientCode' /\ stack' \in Seq(Frames)
  BY <1>3, ReplacedStep
<1>6. TypeOK'
  BY <1>5, Parts DEF NothingToPop, TypeOK
<1>7. NoStrandedTask' /\ RunDrains'
  BY <1>1, Parts DEF NoStrandedTask, RunDrains
<1>8. EachOnce' /\ Active' = Active
  BY <1>1, <1>4, Parts, EachOnceAfter
<1> QED
  BY <1>5, <1>6, <1>7, <1>8 DEF IInv

\* A task ends, and its run_work() has yet to look at the queue.
LEMMA TaskReturnsStep ==
  ASSUME IInv, TaskReturns PROVE IInv' /\ Active' = Active \ {Top.task} /\ Top.task \in Active
<1> DEFINE fr == [pc |-> "again"]
<1>1. /\ stack # <<>> /\ Top.pc = "body" /\ done' = done \cup {Top.task}
      /\ stack' = SetTop(fr) /\ queue' = queue
      /\ phase' = phase /\ posted' = posted
  BY DEF TaskReturns, At
<1>2. fr \in Frames /\ fr.pc = "again"
  BY FrameFacts
<1> HIDE DEF fr
<1>3. Replaced(stack, stack', fr)
  BY <1>1, <1>2, Parts, ReplaceTop
<1>4. /\ ActiveIn(stack') = Active \ {Top.task} /\ OneFrameEach(stack')
      /\ Top.task \in Active
  BY <1>1, <1>2, <1>3, Parts, BodiesAfterFinish DEF Top
<1>5. /\ NestsInClientCode' /\ Len(stack) \in DOMAIN stack'
      /\ stack'[Len(stack)] = fr /\ stack' \in Seq(Frames)
  BY <1>3, ReplacedStep
<1>6. done' \subseteq Task
  BY <1>1, <1>4, Parts DEF Active, TypeOK
<1>7. TypeOK'
  BY <1>5, <1>6, Parts DEF TaskReturns, TypeOK
<1>8. NoStrandedTask' /\ RunDrains'
  BY <1>1, <1>2, <1>5, Parts DEF NoStrandedTask, RunDrains, WillLook
<1>9. EachOnce' /\ Active' = Active \ {Top.task} /\ Top.task \in Active
  BY <1>1, <1>4, Parts, EachOnceAfter
<1> QED
  BY <1>5, <1>7, <1>8, <1>9 DEF IInv

\* run_work() re-dispatches itself, and the new frame will look.
LEMMA WorkAgainStep ==
  ASSUME IInv, WorkAgain PROVE IInv' /\ Active' = Active
<1> DEFINE fr == [pc |-> "end"]
           mid == SetTop(fr)
<1>1. /\ stack # <<>> /\ Top.pc = "again" /\ stack' = Push(mid, RunWork)
      /\ queue' = queue /\ phase' = phase /\ posted' = posted /\ done' = done
  BY DEF WorkAgain, At
<1>2. fr \in Frames /\ fr.pc = "end" /\ RunWork \in Frames /\ RunWork.pc = "pop"
  BY FrameFacts
<1>3. Replaced(stack, mid, fr)
  BY <1>1, <1>2, Parts, ReplaceTop
<1> HIDE DEF mid, fr
<1>4. mid \in Seq(Frames) /\ ActiveIn(mid) = Active /\ OneFrameEach(mid)
  BY <1>1, <1>2, <1>3, Parts, BodiesAfterMove DEF Top, Replaced
<1>5. Called(mid, stack', RunWork)
  BY <1>1, <1>2, <1>4, CallOnTop
<1>6. ActiveIn(stack') = Active /\ OneFrameEach(stack')
  BY <1>2, <1>4, <1>5, BodiesAfterCall
<1>7. /\ Len(stack) \in Nat \ {0} /\ Len(mid) = Len(stack)
      /\ Len(stack') = Len(stack) + 1 /\ DOMAIN stack' = 1..(Len(stack) + 1)
      /\ stack'[Len(stack) + 1] = RunWork /\ stack'[Len(stack)].pc = "end"
      /\ stack' \in Seq(Frames)
      /\ \A i \in 1..(Len(stack) - 1) : stack'[i] = stack[i]
  BY <1>2, <1>3, <1>5, Parts, StackFacts DEF Replaced, Called
<1>8. NestsInClientCode'
  <2>1. ASSUME NEW i \in 1..(Len(stack') - 1)
        PROVE  stack'[i].pc \in {"body", "handler", "end"}
    <3>1. i = Len(stack) \/ i \in 1..(Len(stack) - 1)
      BY <1>7
    <3> QED
      BY <1>7, <3>1, Parts DEF NestsInClientCode
  <2> QED
    BY <2>1 DEF NestsInClientCode
<1>9. TypeOK'
  BY <1>7, Parts DEF WorkAgain, TypeOK
<1>10. NoStrandedTask'
  <2>1. Len(stack) + 1 \in DOMAIN stack'
    BY <1>7
  <2> QED
    BY <1>2, <1>7, <2>1 DEF NoStrandedTask, WillLook
<1>11. RunDrains'
  BY <1>1, Parts DEF RunDrains
<1>12. EachOnce' /\ Active' = Active
  BY <1>1, <1>6, Parts, EachOnceAfter
<1> QED
  BY <1>8, <1>9, <1>10, <1>11, <1>12 DEF IInv

\* Every step keeps the invariant, and is a step of TaskRunner or none.
LEMMA StepHolds ==
  IInv /\ [Next]_vars => IInv' /\ [Runner!Next]_(Runner!vars)
<1> SUFFICES ASSUME IInv, [Next]_vars
             PROVE  IInv' /\ [Runner!Next]_(Runner!vars)
  OBVIOUS
<1>0. queue' = queue /\ Active' = Active /\ done' = done => UNCHANGED Runner!vars
  BY DEF Runner!vars
<1>1. ASSUME NEW t \in Task, ScheduleOutside(t) \/ ScheduleInside(t)
      PROVE  IInv' /\ Runner!Next
  <2>1. IInv' /\ Active' = Active
    BY <1>1, ScheduleOutsideStep, ScheduleInsideStep
  <2>2. New(t) /\ queue' = Append(queue, t) /\ done' = done
    BY <1>1 DEF ScheduleOutside, ScheduleInside
  <2>3. Runner!Schedule(t)
    BY <2>1, <2>2 DEF Runner!Schedule, Runner!Unknown, New, Queued
  <2> QED
    BY <2>1, <2>3 DEF Runner!Next
<1>2. CASE CallPosted
  BY <1>0, <1>2, CallPostedStep DEF CallPosted
<1>3. CASE CompleteIO
  BY <1>0, <1>3, CompleteIOStep DEF CompleteIO
<1>4. CASE HandlerReturns
  <2>1. Returned(stack, stack') /\ Top.pc = "handler"
    BY <1>4, Parts, ReturnFromTop DEF HandlerReturns, At
  <2>2. IInv' /\ Active' = Active
    BY <1>4, <2>1, ReturnedStep DEF HandlerReturns, WillLook
  <2> QED
    BY <1>0, <1>4, <2>2 DEF HandlerReturns
<1>5. CASE LeaveRun
  BY <1>0, <1>5, LeaveRunStep DEF LeaveRun
<1>6. CASE PopTask
  <2>1. IInv' /\ Active' = Active \cup {Head(queue)}
    BY <1>6, PopTaskStep
  <2>2. Runner!Start
    BY <1>6, <2>1 DEF PopTask, Runner!Start
  <2> QED
    BY <2>1, <2>2 DEF Runner!Next
<1>7. CASE NothingToPop
  BY <1>0, <1>7, NothingToPopStep DEF NothingToPop
<1>8. CASE TaskReturns
  <2>1. IInv' /\ Active' = Active \ {Top.task} /\ Top.task \in Active
    BY <1>8, TaskReturnsStep
  <2>2. Runner!Finish(Top.task) /\ Top.task \in Task
    BY <1>8, <2>1 DEF TaskReturns, Runner!Finish, Active
  <2> QED
    BY <2>1, <2>2 DEF Runner!Next
<1>9. CASE WorkAgain
  BY <1>0, <1>9, WorkAgainStep DEF WorkAgain
<1>10. CASE WorkReturns
  <2>1. /\ Returned(stack, stack') /\ Top.pc \in {"end", "again"}
        /\ Top.pc = "again" => queue = <<>>
    BY <1>10, Parts, ReturnFromTop DEF WorkReturns, At
  <2>2. IInv' /\ Active' = Active
    BY <1>10, <2>1, ReturnedStep DEF WorkReturns, WillLook
  <2> QED
    BY <1>0, <1>10, <2>2 DEF WorkReturns
<1>11. CASE StartIO \/ ReportFailedFuture \/ EnterRun \/ UNCHANGED vars
  <2>1. IInv' /\ Active' = Active
    BY <1>11, ElsewhereStep
  <2> QED
    BY <1>0, <1>11, <2>1 DEF StartIO, ReportFailedFuture, EnterRun, vars
<1> QED
  BY <1>1, <1>2, <1>3, <1>4, <1>5, <1>6, <1>7, <1>8, <1>9, <1>10, <1>11
     DEF Next, ClientStep, ThreadStep, Ended

\* The reactor starts in a consistent state, and as TaskRunner does.
LEMMA InitHolds == Init => IInv /\ Runner!Init
<1> SUFFICES ASSUME Init PROVE IInv /\ Runner!Init
  OBVIOUS
<1>1. /\ stack \in Seq(Frames) /\ queue \in Seq(Task)
      /\ DOMAIN stack = {} /\ DOMAIN queue = {} /\ Len(stack) = 0
  BY EmptySeq DEF Init
<1>2. TypeOK
  BY <1>1 DEF Init, TypeOK
<1>3. NoStrandedTask /\ RunDrains /\ NestsInClientCode
  BY <1>1 DEF Init, NoStrandedTask, RunDrains, NestsInClientCode
<1>4. EachOnce /\ Active = {}
  BY <1>1 DEF Init, EachOnce, Active, Queued
<1> QED
  BY <1>2, <1>3, <1>4 DEF IInv, Init, Runner!Init

(* The reactor's state is consistent in every reachable state.             *)
THEOREM ReactorConsistent == Spec => []IInv
  BY InitHolds, StepHolds, PTL DEF Spec

(* The reactor schedules as future.hh expects, for any depth of nesting:   *)
(* tasks start in the order of schedule(), each once, and end once (the    *)
(* safety part of ImplementsRunner).                                       *)
THEOREM RunsTasksInOrder ==
  Spec => Runner!Init /\ [][Runner!Next]_(Runner!vars)
  BY ReactorConsistent, InitHolds, StepHolds, PTL DEF Spec

(* However deep schedule() nests, no queued task is left with nobody to    *)
(* run it.                                                                 *)
THEOREM NothingStranded == Spec => []NoStrandedTask
<1>1. IInv => NoStrandedTask
  BY DEF IInv
<1> QED
  BY <1>1, ReactorConsistent, PTL

(* run() returns only when every scheduled task ran to its end.            *)
THEOREM RunReturnsDrained == Spec => []RunDrains
<1>1. IInv => RunDrains
  BY DEF IInv
<1> QED
  BY <1>1, ReactorConsistent, PTL

(* A task is queued once, running in one frame, or done.                   *)
THEOREM TasksInOnePlace == Spec => []EachOnce
<1>1. IInv => EachOnce
  BY DEF IInv
<1> QED
  BY <1>1, ReactorConsistent, PTL

(* Frames nest in client code only.                                        *)
THEOREM OnlyClientCodeNests == Spec => []NestsInClientCode
<1>1. IInv => NestsInClientCode
  BY DEF IInv
<1> QED
  BY <1>1, ReactorConsistent, PTL

(* The reactor's variables stay in their types, whatever the client does.  *)
THEOREM ReactorTyped == Spec => []TypeOK
<1>1. IInv => TypeOK
  BY DEF IInv
<1> QED
  BY <1>1, ReactorConsistent, PTL
=============================================================================
