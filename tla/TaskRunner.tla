----------------------------- MODULE TaskRunner -----------------------------
(***************************************************************************)
(* What future.hh expects of a scheduler: a task handed to schedule() is   *)
(* started exactly once, tasks start in the order they were scheduled, and *)
(* every one of them is started and finished.  Nothing is promised about   *)
(* run-to-completion: a task may start while another is half way.          *)
(***************************************************************************)
EXTENDS Sequences

CONSTANT Task

VARIABLES waiting, active, done

vars == <<waiting, active, done>>

Init == waiting = <<>> /\ active = {} /\ done = {}

Unknown(t) ==
  t \notin active \cup done /\ \A i \in DOMAIN waiting : waiting[i] # t

Schedule(t) ==
  /\ Unknown(t)
  /\ waiting' = Append(waiting, t)
  /\ UNCHANGED <<active, done>>

Start ==
  /\ waiting # <<>>
  /\ waiting' = Tail(waiting)
  /\ active' = active \cup {Head(waiting)}
  /\ UNCHANGED done

Finish(t) ==
  /\ t \in active
  /\ active' = active \ {t}
  /\ done' = done \cup {t}
  /\ UNCHANGED waiting

Next == Start \/ \E t \in Task : Schedule(t) \/ Finish(t)

Spec == Init /\ [][Next]_vars /\ WF_vars(Start)
             /\ \A t \in Task : WF_vars(Finish(t))
=============================================================================
