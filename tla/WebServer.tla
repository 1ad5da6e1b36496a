----------------------------- MODULE WebServer ------------------------------
(***************************************************************************)
(* The server of src/modules/webserver/webserver.hpp with the program of   *)
(* src/modules/webserver/test.cpp around it: accepting, reading a request, *)
(* routing it, sending the answer in as many writes as it takes, counting  *)
(* what is outstanding, and shutting down on /terminate.                   *)
(*                                                                         *)
(* Every asynchronous completion is one action.  The continuations it      *)
(* makes ready run inside the completion handler (module Reactor), so the  *)
(* action includes all of them, in the order they run.                     *)
(***************************************************************************)
EXTENDS Naturals, FiniteSets

CONSTANTS
  Conn,       \* identities of accepts, and of the connections they become
  Size,       \* bytes in a response
  MaxReads,   \* bound: reads until a request is complete
  Failures    \* may system calls and peers fail?

ASSUME ServerAssumption ==
  /\ IsFiniteSet(Conn) /\ Size \in Nat \ {0} /\ MaxReads \in Nat \ {0}
  /\ Failures \in BOOLEAN

VARIABLES
  phase,       \* of the process
  conn,        \* what each identity is doing
  reads,       \* reads completed for the current request
  offset,      \* connection::send_offset_
  shutting,    \* shutting_down_
  outstanding, \* outstanding_requests_
  finished,    \* has outstanding_finished_ been set?
  terminate,   \* the promise captured by the /terminate route
  deleted,     \* has the continuation that owns the server run?
  reported     \* failures in the reactor's exception queue

vars == <<phase, conn, reads, offset, shutting, outstanding, finished,
          terminate, deleted, reported>>

\* "refused", "failed" and "dropped" chains ended without their last then():
\* the first two because an exception skipped it, that of a failed accept or of
\* a failed connection, the third because the promise of the accept was
\* destroyed unresolved.
ConnState == {"none", "accepting", "reading", "sending",
              "done", "refused", "failed", "dropped"}

TypeOK ==
  /\ phase \in {"starting", "listening", "deaf", "returned", "threw", "aborted"}
  /\ conn \in [Conn -> ConnState]
  /\ reads \in [Conn -> 0..MaxReads]
  /\ offset \in [Conn -> 0..Size]
  /\ shutting \in BOOLEAN /\ finished \in BOOLEAN /\ deleted \in BOOLEAN
  /\ outstanding \in Nat /\ reported \in Nat
  /\ terminate \in {"armed", "used"}

Init ==
  /\ phase = "starting"
  /\ conn = [c \in Conn |-> "none"]
  /\ reads = [c \in Conn |-> 0]
  /\ offset = [c \in Conn |-> 0]
  /\ shutting = FALSE /\ outstanding = 0 /\ finished = FALSE
  /\ terminate = "armed" /\ deleted = FALSE /\ reported = 0

-----------------------------------------------------------------------------
Free(c) == conn[c] \in {"none", "done"}

In(s) == {c \in Conn : conn[c] = s}

\* Operations io_service is waiting for.
Pending == In("accepting") \cup In("reading") \cup In("sending")

\* The tail of handle_connection(): one fewer outstanding, and the last one
\* resolves outstanding_finished_, whose continuation deletes the server.
FinishOne ==
  /\ outstanding' = outstanding - 1
  /\ finished' = (finished \/ (shutting /\ outstanding = 1))
  /\ deleted' = (deleted \/ (shutting /\ outstanding = 1))

\* Slip: the exception of one connection closes the acceptor as well.
FailStopsListening(c, end) ==
  /\ conn' = [d \in Conn |-> IF d = c THEN end
                            ELSE IF conn[d] = "accepting" THEN "dropped" ELSE conn[d]]
  /\ reported' = reported + 1

\* An exception runs through do_with() and past the last then(): the result
\* of that then() was dropped, so its promise reports the failure.
Fail(c, end) ==
  /\ conn' = [conn EXCEPT ![c] = end]
  /\ reported' = reported + 1

-----------------------------------------------------------------------------
(* start_listening(), and the accept loop.                                 *)

\* do_accept(): async_accept(), then handle_connection(), which counts.
Listen(c) ==
  /\ phase = "starting" /\ Free(c)
  /\ phase' = "listening"
  /\ conn' = [conn EXCEPT ![c] = "accepting"]
  /\ outstanding' = outstanding + 1
  /\ UNCHANGED <<reads, offset, shutting, finished, terminate, deleted, reported>>

\* open(), bind() or listen() throws inside register_server()'s then(): the
\* process runs on without ever having accepted.
ListenFails ==
  /\ Failures /\ phase = "starting"
  /\ phase' = "deaf"
  /\ reported' = reported + 1
  /\ UNCHANGED <<conn, reads, offset, shutting, outstanding, finished,
                 terminate, deleted>>

\* Slip: the accepted connection is not counted.
AcceptedUncounted(c, d) ==
  /\ conn[c] = "accepting" /\ ~shutting /\ Free(d)
  /\ conn' = [conn EXCEPT ![c] = "reading", ![d] = "accepting"]
  /\ reads' = [reads EXCEPT ![c] = 0]
  /\ UNCHANGED <<phase, offset, shutting, outstanding, finished, terminate,
                 deleted, reported>>

\* Slip: the handler does not look at shutting_down_.
AcceptedAlways(c, d) ==
  /\ conn[c] = "accepting" /\ Free(d)
  /\ conn' = [conn EXCEPT ![c] = "reading", ![d] = "accepting"]
  /\ reads' = [reads EXCEPT ![c] = 0]
  /\ outstanding' = outstanding + 1
  /\ UNCHANGED <<phase, offset, shutting, finished, terminate, deleted, reported>>

\* A client connected: accept the next one as d, then start reading from c.
Accepted(c, d) ==
  /\ conn[c] = "accepting" /\ ~shutting /\ Free(d)
  /\ conn' = [conn EXCEPT ![c] = "reading", ![d] = "accepting"]
  /\ reads' = [reads EXCEPT ![c] = 0]
  /\ outstanding' = outstanding + 1
  /\ UNCHANGED <<phase, offset, shutting, finished, terminate, deleted, reported>>

\* The handler returns before do_accept(): nobody accepts after an error.
AcceptFails(c) ==
  /\ Failures /\ conn[c] = "accepting" /\ ~shutting
  /\ Fail(c, "refused")
  /\ UNCHANGED <<phase, reads, offset, shutting, outstanding, finished,
                 terminate, deleted>>

\* Slip: the aborted accept is started again.
AcceptAfterShutdownRetries(c) ==
  /\ conn[c] = "accepting" /\ shutting
  /\ UNCHANGED vars

\* Once shutting_down_ the handler returns at once, whatever the outcome of
\* the accept; its promise dies unresolved and takes the whole chain with it.
AcceptAfterShutdown(c) ==
  /\ conn[c] = "accepting" /\ shutting
  /\ conn' = [conn EXCEPT ![c] = "dropped"]
  /\ UNCHANGED <<phase, reads, offset, shutting, outstanding, finished,
                 terminate, deleted, reported>>

-----------------------------------------------------------------------------
(* One connection.                                                         *)

\* The header is incomplete: read_more().
ReadMore(c) ==
  /\ conn[c] = "reading" /\ reads[c] < MaxReads
  /\ reads' = [reads EXCEPT ![c] = @ + 1]
  /\ UNCHANGED <<phase, conn, offset, shutting, outstanding, finished,
                 terminate, deleted, reported>>

\* The header is complete and the route (or the 404 page) answers.
SendResponse(c) ==
  /\ conn' = [conn EXCEPT ![c] = "sending"]
  /\ offset' = [offset EXCEPT ![c] = 0]

Request(c) ==
  /\ conn[c] = "reading"
  /\ SendResponse(c)
  /\ UNCHANGED <<phase, reads, shutting, outstanding, finished, terminate,
                 deleted, reported>>

\* finish_outstanding(): close the acceptor, which is taken not to fail;
\* nothing outstanding is all done.
FinishOutstanding ==
  /\ shutting' = TRUE
  /\ finished' = (outstanding = 0)
  /\ deleted' = (outstanding = 0)

\* /terminate sets the promise, and the continuation that calls
\* finish_outstanding() runs inside that call (module Reactor).
RequestTerminate(c) ==
  /\ conn[c] = "reading" /\ terminate = "armed"
  /\ terminate' = "used"
  /\ FinishOutstanding
  /\ SendResponse(c)
  /\ UNCHANGED <<phase, reads, outstanding, reported>>

\* A second /terminate calls set_value() on a promise whose _state is null.
RequestTerminateAgain(c) ==
  /\ conn[c] = "reading" /\ terminate = "used"
  /\ phase' = "aborted"
  /\ UNCHANGED <<conn, reads, offset, shutting, outstanding, finished,
                 terminate, deleted, reported>>

\* The peer goes away before its header is complete, or the route throws.
ReadOrRouteFails(c) ==
  /\ Failures /\ conn[c] = "reading"
  /\ Fail(c, "failed")
  /\ UNCHANGED <<phase, reads, offset, shutting, outstanding, finished,
                 terminate, deleted>>

\* Slip: the offset may run past the end of the response.
SentTooMuch(c, n) ==
  /\ conn[c] = "sending"
  /\ offset' = [offset EXCEPT ![c] = @ + n]
  /\ IF offset[c] + n >= Size
       THEN conn' = [conn EXCEPT ![c] = "done"] /\ FinishOne
       ELSE UNCHANGED <<conn, outstanding, finished, deleted>>
  /\ UNCHANGED <<phase, reads, shutting, terminate, reported>>

\* Slip: the response counts as sent one byte early.
SentAlmost(c, n) ==
  /\ conn[c] = "sending"
  /\ n \in 1..(Size - offset[c])
  /\ offset' = [offset EXCEPT ![c] = @ + n]
  /\ IF offset[c] + n >= Size - 1
       THEN conn' = [conn EXCEPT ![c] = "done"] /\ FinishOne
       ELSE UNCHANGED <<conn, outstanding, finished, deleted>>
  /\ UNCHANGED <<phase, reads, shutting, terminate, reported>>

\* sent_data(): n more bytes left.  After the last one the connection is
\* destroyed and counted off; otherwise the rest is written.
Sent(c, n) ==
  /\ conn[c] = "sending"
  /\ n \in 1..(Size - offset[c])
  /\ offset' = [offset EXCEPT ![c] = @ + n]
  /\ IF offset[c] + n = Size
       THEN conn' = [conn EXCEPT ![c] = "done"] /\ FinishOne
       ELSE UNCHANGED <<conn, outstanding, finished, deleted>>
  /\ UNCHANGED <<phase, reads, shutting, terminate, reported>>

SendFails(c) ==
  /\ Failures /\ conn[c] = "sending"
  /\ Fail(c, "failed")
  /\ UNCHANGED <<phase, reads, offset, shutting, outstanding, finished,
                 terminate, deleted>>

-----------------------------------------------------------------------------
\* Slip: run() is stopped by the shutdown, with writes still pending.
RunReturnsOnShutdown ==
  /\ phase \in {"listening", "deaf"} /\ (Pending = {} \/ shutting)
  /\ phase' = IF reported = 0 THEN "returned" ELSE "threw"
  /\ UNCHANGED <<conn, reads, offset, shutting, outstanding, finished,
                 terminate, deleted, reported>>

\* io_service::run() is out of work; reactor::run() rethrows the first failure.
RunReturns ==
  /\ phase \in {"listening", "deaf"} /\ Pending = {}
  /\ phase' = IF reported = 0 THEN "returned" ELSE "threw"
  /\ UNCHANGED <<conn, reads, offset, shutting, outstanding, finished,
                 terminate, deleted, reported>>

Ended == phase \in {"returned", "threw", "aborted"} /\ UNCHANGED vars

\* start_listening() has started its first accept, and run() goes on.
Running == phase = "listening"

\* Completions the operating system owes: peers send, receive or go away, and
\* a closed acceptor aborts its accept.
Answer(c) ==
  /\ Running
  /\ \/ ReadMore(c) \/ Request(c) \/ RequestTerminate(c)
     \/ RequestTerminateAgain(c) \/ ReadOrRouteFails(c)
     \/ SendFails(c) \/ (\E n \in 1..Size : Sent(c, n))
     \/ AcceptAfterShutdown(c)

Accept(c) == Running /\ (AcceptFails(c) \/ \E d \in Conn : Accepted(c, d))

Next ==
  \/ \E c \in Conn : Listen(c) \/ Answer(c) \/ Accept(c)
  \/ ListenFails \/ RunReturns \/ Ended

Spec == Init /\ [][Next]_vars

\* No fairness of Accept: nobody has to connect.
FairSpec == Spec /\ WF_vars(RunReturns) /\ \A c \in Conn : WF_vars(Answer(c))

-----------------------------------------------------------------------------
(* Properties.                                                             *)

(* The count is exact about every chain handle_connection() started: one   *)
(* for each that has not run its last then(), which includes, for ever,    *)
(* those that failed or were dropped.                                      *)
OutstandingExact ==
  outstanding =
    Cardinality(In("refused") \cup In("failed") \cup In("dropped") \cup Pending)

(* One accept is pending at a time, and from start_listening() to the      *)
(* shutdown there always is one, unless an accept failed, which ends the   *)
(* loop for good: no connection stops the loop, however it is served and   *)
(* whatever becomes of it.                                                 *)
OneAccept ==
  LET last == In("accepting") \cup In("refused") IN
  /\ Cardinality(last) <= 1
  /\ Running /\ ~shutting => last # {}

(* Serving ends only with the whole response on the wire, in however many  *)
(* writes; a connection never goes back to an earlier stage; and what it   *)
(* ended as is final until its identity is accepted anew.                  *)
StagesInOrder ==
  [][\A c \in Conn : conn'[c] # conn[c] =>
       \/ conn'[c] = "accepting" /\ Free(c)
       \/ conn'[c] = "reading" /\ conn[c] = "accepting"
       \/ conn'[c] = "sending" /\ conn[c] = "reading" /\ offset'[c] = 0
       \/ conn'[c] = "done" /\ conn[c] = "sending" /\ offset'[c] = Size
       \/ conn'[c] = "refused" /\ conn[c] = "accepting" /\ reported' = reported + 1
       \/ /\ conn'[c] = "failed" /\ conn[c] \in {"reading", "sending"}
          /\ reported' = reported + 1
       \/ conn'[c] = "dropped" /\ conn[c] = "accepting" /\ shutting]_vars

(* After shutdown no new connection is taken on and the number of pending  *)
(* operations only falls.                                                  *)
ShutdownDrains ==
  [][shutting => shutting' /\ Cardinality(Pending') <= Cardinality(Pending)]_vars

(* Once shutdown is asked for, and if every peer sends, receives or goes   *)
(* away, run() comes back: no read or write is left that nobody finishes.  *)
ShutdownEnds == shutting ~> (phase \in {"returned", "threw", "aborted"})

(* Under the same assumption a request that was answered is answered to    *)
(* the end, shutdown or not, unless its peer fails or the process aborts.  *)
ResponsesEnd == \A c \in Conn :
  conn[c] = "sending" ~> (conn[c] \in {"done", "failed"} \/ phase = "aborted")

-----------------------------------------------------------------------------
(* What the repository says and the code does not do.                      *)

(* test.cpp:42: when run() returns normally after a /terminate, the chain  *)
(* finish_outstanding() resolves has run and the server has been deleted.  *)
ServerDeletedAtExit == phase = "returned" /\ shutting => deleted

(* future.hh:479: set_value() is called on a promise that has a state.     *)
NoAssertFails == phase # "aborted"
=============================================================================
