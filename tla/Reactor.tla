------------------------------ MODULE Reactor -------------------------------
(***************************************************************************)
(* The scheduler of src/modules/reax/reactor.hpp on one thread.            *)
(*                                                                         *)
(* schedule() queues the task and dispatches run_work().  io_service's     *)
(* dispatch() runs a handler at once when the calling thread is inside     *)
(* run(), and posts it otherwise, so that run_work() frames nest: a task   *)
(* that schedules another has that one (or an older one) run inside its    *)
(* own call.  The C++ call stack is part of the state.                     *)
(***************************************************************************)
EXTENDS Naturals, Sequences

CONSTANTS
  Task,        \* tasks, each scheduled at most once (a unique_ptr)
  MaxIO,       \* bound: asynchronous operations the client starts
  MaxReports   \* bound: failures the client lets go of

ASSUME BoundsAreNatural == MaxIO \in Nat /\ MaxReports \in Nat

VARIABLES
  phase,      \* before, inside, and after run()
  queue,      \* reactor::_queue
  stack,      \* frames of the thread inside run(), the innermost last
  posted,     \* run_work() handlers io_service has yet to call
  io,         \* asynchronous operations that have yet to complete
  started,    \* asynchronous operations started so far
  exceptions, \* Len(reactor::_exception_queue)
  done        \* tasks that ran to their end

vars == <<phase, queue, stack, posted, io, started, exceptions, done>>

\* run_work(): about to look at the queue, in ptr->run(), about to look again,
\* back from the run_work() it dispatched.  handler: a completion handler.
WorkPc == {"pop", "body", "again", "end"}
Frames == [pc : WorkPc \ {"body"}] \cup [pc : {"body"}, task : Task]
            \cup [pc : {"handler"}]

RunWork == [pc |-> "pop"]
Top == stack[Len(stack)]
SetTop(fr) == [stack EXCEPT ![Len(stack)] = fr]
Push(s, fr) == Append(s, fr)
PopFrame == SubSeq(stack, 1, Len(stack) - 1)

At(pc) == stack # <<>> /\ Top.pc = pc

\* Client code runs before run(), in a task, or in a completion handler.
Outside == phase = "setup"
Inside == At("body") \/ At("handler")

Active == {t \in Task : \E i \in DOMAIN stack :
             stack[i].pc = "body" /\ stack[i].task = t}
Queued == {t \in Task : \E i \in DOMAIN queue : queue[i] = t}
New(t) == t \in Task \ (Active \cup Queued \cup done)

TypeOK ==
  /\ phase \in {"setup", "running", "returned", "threw"}
  /\ queue \in Seq(Task)
  /\ stack \in Seq(Frames)
  /\ posted \in Nat /\ io \in Nat /\ started \in Nat /\ exceptions \in Nat
  /\ done \subseteq Task

Init ==
  /\ phase = "setup" /\ queue = <<>> /\ stack = <<>> /\ posted = 0
  /\ io = 0 /\ started = 0 /\ exceptions = 0 /\ done = {}

-----------------------------------------------------------------------------
(* What client code does.                                                  *)

\* schedule() outside run(): dispatch() posts.
ScheduleOutside(t) ==
  /\ Outside /\ New(t)
  /\ queue' = Append(queue, t)
  /\ posted' = posted + 1
  /\ UNCHANGED <<phase, stack, io, started, exceptions, done>>

\* Slip: the task is queued and nothing is dispatched.
ScheduleInsideOnly(t) ==
  /\ Inside /\ New(t)
  /\ queue' = Append(queue, t)
  /\ UNCHANGED <<phase, stack, posted, io, started, exceptions, done>>

\* schedule() inside run(): dispatch() calls run_work() at once.
ScheduleInside(t) ==
  /\ Inside /\ New(t)
  /\ queue' = Append(queue, t)
  /\ stack' = Push(stack, RunWork)
  /\ UNCHANGED <<phase, posted, io, started, exceptions, done>>

\* An asynchronous read, write, accept, connect or handshake.
StartIO ==
  /\ Outside \/ Inside
  /\ started < MaxIO
  /\ started' = started + 1
  /\ io' = io + 1
  /\ UNCHANGED <<phase, queue, stack, posted, exceptions, done>>

ReportFailedFuture ==
  /\ Outside \/ Inside
  /\ exceptions < MaxReports
  /\ exceptions' = exceptions + 1
  /\ UNCHANGED <<phase, queue, stack, posted, io, started, done>>

-----------------------------------------------------------------------------
(* io_service::run().                                                      *)

EnterRun ==
  /\ phase = "setup"
  /\ phase' = "running"
  /\ UNCHANGED <<queue, stack, posted, io, started, exceptions, done>>

CallPosted ==
  /\ phase = "running" /\ stack = <<>> /\ posted > 0
  /\ posted' = posted - 1
  /\ stack' = <<RunWork>>
  /\ UNCHANGED <<phase, queue, io, started, exceptions, done>>

CompleteIO ==
  /\ phase = "running" /\ stack = <<>> /\ io > 0
  /\ io' = io - 1
  /\ stack' = <<[pc |-> "handler"]>>
  /\ UNCHANGED <<phase, queue, posted, started, exceptions, done>>

HandlerReturns ==
  /\ At("handler")
  /\ stack' = PopFrame
  /\ UNCHANGED <<phase, queue, posted, io, started, exceptions, done>>

\* Slip: run() leaves when no operation is pending, posted handlers or not.
LeaveRunEarly ==
  /\ phase = "running" /\ stack = <<>> /\ io = 0
  /\ phase' = IF exceptions = 0 THEN "returned" ELSE "threw"
  /\ UNCHANGED <<queue, stack, posted, io, started, exceptions, done>>

\* Out of work: reactor::run() rethrows the first reported failure, if any.
LeaveRun ==
  /\ phase = "running" /\ stack = <<>> /\ posted = 0 /\ io = 0
  /\ phase' = IF exceptions = 0 THEN "returned" ELSE "threw"
  /\ UNCHANGED <<queue, stack, posted, io, started, exceptions, done>>

-----------------------------------------------------------------------------
(* run_work().                                                             *)

\* Slip: the task is run through front() and never popped.
PopTaskKeeps ==
  /\ At("pop") /\ queue # <<>>
  /\ stack' = SetTop([pc |-> "body", task |-> Head(queue)])
  /\ UNCHANGED <<phase, queue, posted, io, started, exceptions, done>>

\* Slip: back() for front().
PopTaskLast ==
  /\ At("pop") /\ queue # <<>>
  /\ stack' = SetTop([pc |-> "body", task |-> queue[Len(queue)]])
  /\ queue' = SubSeq(queue, 1, Len(queue) - 1)
  /\ UNCHANGED <<phase, posted, io, started, exceptions, done>>

PopTask ==
  /\ At("pop") /\ queue # <<>>
  /\ stack' = SetTop([pc |-> "body", task |-> Head(queue)])
  /\ queue' = Tail(queue)
  /\ UNCHANGED <<phase, posted, io, started, exceptions, done>>

\* Slip: run_work() runs what it took without asking whether it took a task.
NothingToPopRuns ==
  /\ At("pop") /\ queue = <<>>
  /\ stack' = SetTop([pc |-> "body"])
  /\ UNCHANGED <<phase, queue, posted, io, started, exceptions, done>>

NothingToPop ==
  /\ At("pop") /\ queue = <<>>
  /\ stack' = SetTop([pc |-> "again"])
  /\ UNCHANGED <<phase, queue, posted, io, started, exceptions, done>>

TaskReturns ==
  /\ At("body")
  /\ done' = done \cup {Top.task}
  /\ stack' = SetTop([pc |-> "again"])
  /\ UNCHANGED <<phase, queue, posted, io, started, exceptions>>

\* Slip: run_work() loops: it calls itself and looks at the queue again.
WorkAgainLoops ==
  /\ At("again") /\ queue # <<>>
  /\ stack' = Push(stack, RunWork)
  /\ UNCHANGED <<phase, queue, posted, io, started, exceptions, done>>

\* Slip: the run_work() that re-dispatched itself never returns.
WorkReturnsOnce ==
  /\ At("again") /\ queue = <<>>
  /\ stack' = PopFrame
  /\ UNCHANGED <<phase, queue, posted, io, started, exceptions, done>>

\* Work is left: schedule_work(), which dispatches inside this very frame.
WorkAgain ==
  /\ At("again") /\ queue # <<>>
  /\ stack' = Push(SetTop([pc |-> "end"]), RunWork)
  /\ UNCHANGED <<phase, queue, posted, io, started, exceptions, done>>

WorkReturns ==
  /\ At("end") \/ (At("again") /\ queue = <<>>)
  /\ stack' = PopFrame
  /\ UNCHANGED <<phase, queue, posted, io, started, exceptions, done>>

-----------------------------------------------------------------------------
ClientStep ==
  \/ \E t \in Task : ScheduleOutside(t) \/ ScheduleInside(t)
  \/ StartIO
  \/ ReportFailedFuture

\* What the thread does next when client code is not adding work.
ThreadStep ==
  \/ EnterRun \/ CallPosted \/ HandlerReturns \/ LeaveRun
  \/ PopTask \/ NothingToPop \/ TaskReturns \/ WorkAgain \/ WorkReturns

\* The program ends after run().
Ended == phase \in {"returned", "threw"} /\ UNCHANGED vars

Next == ClientStep \/ CompleteIO \/ ThreadStep \/ Ended

\* The thread keeps running and every task returns; nothing is assumed of the
\* peers and disks that complete asynchronous operations.
Spec == Init /\ [][Next]_vars /\ WF_vars(ThreadStep)

-----------------------------------------------------------------------------
(* Properties.                                                             *)

(* A queued task is never stranded: some run_work() is posted, or one on   *)
(* the stack has yet to look at the queue, although schedule() dispatches  *)
(* from any depth and run_work() stops looking when it finds none.         *)
WillLook(fr) == fr.pc \in {"pop", "body", "again"}
NoStrandedTask ==
  queue # <<>> => \/ posted > 0
                  \/ \E i \in DOMAIN stack : WillLook(stack[i])

(* run() does not return while a task waits or is half way.                *)
RunDrains ==
  phase \in {"returned", "threw"} => queue = <<>> /\ stack = <<>> /\ posted = 0

(* A task is in one place: in the queue once, in one frame, or done.       *)
(* Nesting never runs a task twice.                                        *)
EachOnce ==
  /\ \A i, j \in DOMAIN queue : queue[i] = queue[j] => i = j
  /\ \A i, j \in DOMAIN stack :
       stack[i].pc = "body" /\ stack[j].pc = "body" /\ stack[i].task = stack[j].task
         => i = j
  /\ Active \cap Queued = {} /\ Active \cap done = {} /\ Queued \cap done = {}

(* Only frames in client code have a frame called from them, besides the   *)
(* run_work() that re-dispatched itself and will only return.  So at most  *)
(* one task is half way per task that scheduled it, and the innermost      *)
(* frame is the only one that touches the queue next.                      *)
NestsInClientCode ==
  \A i \in 1..(Len(stack) - 1) : stack[i].pc \in {"body", "handler", "end"}

(* The reactor implements the scheduler future.hh relies on, fairness      *)
(* included: FIFO starts, each task once, each task finished.              *)
Runner == INSTANCE TaskRunner WITH waiting <- queue, active <- Active
ImplementsRunner == Runner!Spec

(* A burst of work ends: once inside run(), the thread is idle again and   *)
(* again, so completion handlers are not starved by continuations, and a   *)
(* program with nothing outstanding gets out of run().                     *)
Drains ==
  /\ (phase = "running" /\ stack # <<>>) ~> (stack = <<>>)
  /\ (phase = "running" /\ io = 0) ~> (phase \in {"returned", "threw"} \/ io > 0)
=============================================================================
