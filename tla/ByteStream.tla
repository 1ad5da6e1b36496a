----------------------------- MODULE ByteStream -----------------------------
(***************************************************************************)
(* What a reader that can be told to go back promises: the bytes of the    *)
(* stream in their order, each read where the last one ended, except that  *)
(* bytes given back are read again.                                        *)
(***************************************************************************)
EXTENDS Integers, Sequences

VARIABLES
  sent,      \* the bytes the peer sends on this connection
  received,  \* how many of them have arrived
  pos,       \* how many of them the client has consumed
  out        \* the bytes of the last answer

Slice(first, last) == SubSeq(sent, first + 1, last)

Start == received = 0 /\ pos = 0 /\ out = <<>>

\* An answer from memory is not empty and does not wait for the peer.
Again ==
  \E to \in (pos + 1) .. received :
    /\ out' = Slice(pos, to) /\ pos' = to
    /\ UNCHANGED <<sent, received>>

\* With nothing left in memory the answer is what arrives next.
Fresh ==
  /\ pos = received
  /\ \E to \in pos .. Len(sent) :
       out' = Slice(pos, to) /\ pos' = to /\ received' = to
  /\ UNCHANGED sent

GiveBack ==
  /\ pos' \in 0 .. pos
  /\ UNCHANGED <<sent, received, out>>

Step == Again \/ Fresh \/ GiveBack

Spec == Start /\ [][Step]_<<sent, received, pos, out>>
=============================================================================
