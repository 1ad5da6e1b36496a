--------------------------- MODULE SingleUseItem ---------------------------
(***************************************************************************)
(* What future.hh promises its clients, with no promise, future or         *)
(* continuation in sight: an outcome (a value or a failure) put into the   *)
(* "single-item, single use queue" is held until it is handed over, once.  *)
(* A value nobody wants may be discarded.  A failure may not: it is handed *)
(* over or it is reported to the scheduler, and never both.                *)
(***************************************************************************)
CONSTANTS Values, Errors

VARIABLE status

Statuses == {"unsupplied", "held", "delivered", "reported", "discarded"}

Init == status = [c \in Values \cup Errors |-> "unsupplied"]

\* How an outcome nobody receives may end.
Ends(c) == IF c \in Errors THEN {"reported"} ELSE {"discarded"}

\* What may have become of c after a step, when it was s before.
MayBecome(c, s) ==
  {s} \cup CASE s = "unsupplied" -> {"held"} \cup Ends(c)
             [] s = "held" -> {"delivered"} \cup Ends(c)
             [] OTHER -> {}

Next ==
  /\ status' \in [Values \cup Errors -> Statuses]
  /\ \A c \in Values \cup Errors : status'[c] \in MayBecome(c, status[c])

Spec == Init /\ [][Next]_status
============================================================================
