--------------------------- MODULE BufferedReader ---------------------------
(***************************************************************************)
(* buffered_reader of src/modules/reax-ssl/buffered_reader.hpp.  It keeps  *)
(* everything it ever read, in buffers of one size, and hands out views    *)
(* into them; replace_bytes() moves the read position back.                *)
(*                                                                         *)
(* A buffer is the sequence of the bytes written to it so far.             *)
(***************************************************************************)
EXTENDS Integers, Sequences

CONSTANTS
  BufferSize,  \* bytes of a buffer (4096 in the code)
  Streams      \* what the peer may send

ASSUME SizeAssumption == BufferSize \in Nat \ {0}
ASSUME StreamsAssumption == Streams \subseteq Seq(Int)

VARIABLES
  sent,      \* the bytes the peer sends on this connection
  received,  \* how many of them the reader has been given
  buffers,   \* buffers_
  cur,       \* current_buffer_size_
  written,   \* written_index_: bytes in the last buffer
  rbuf,      \* read_buffer_index_, from 0
  ridx,      \* read_index_
  reading,   \* the reader below has been asked and has not answered
  out        \* the bytes of the last answer of read_some()

state == <<buffers, cur, written, rbuf, ridx>>
vars == <<sent, received, state, reading, out>>

Last == Len(buffers) - 1
Room == cur - written                       \* remaining_bytes()
Position == rbuf * BufferSize + ridx

\* make_mestring(buffer + start, end - start)
View(k, start, end) == SubSeq(buffers[k + 1], start + 1, end)

Empty(bytes) ==
  /\ sent = bytes /\ received = 0
  /\ buffers = <<>> /\ cur = 0 /\ written = 0 /\ rbuf = 0 /\ ridx = 0
  /\ reading = FALSE /\ out = <<>>

Init == \E bytes \in Streams : Empty(bytes)

-----------------------------------------------------------------------------
(* read_some().  The client asks again only when it has its answer.        *)

\* The position is in a buffer that is not the last: the rest of it.
ReadFromEarlier ==
  /\ ~reading /\ rbuf < Last
  /\ out' = View(rbuf, ridx, BufferSize)
  /\ ridx' = 0 /\ rbuf' = rbuf + 1
  /\ UNCHANGED <<sent, received, buffers, cur, written, reading>>

\* It is in the last one, before its end: what has been written there.
ReadFromLast ==
  /\ ~reading /\ rbuf = Last /\ ridx < written
  /\ out' = View(rbuf, ridx, written)
  /\ ridx' = written
  /\ UNCHANGED <<sent, received, buffers, cur, written, rbuf, reading>>

\* get_free_buffer(): behind what the last buffer holds, or in a new one.
GetFreeBuffer ==
  IF Room = 0
  THEN buffers' = Append(buffers, <<>>) /\ cur' = BufferSize /\ written' = 0
  ELSE UNCHANGED <<buffers, cur, written>>

AllRead == rbuf >= Last /\ ~(rbuf = Last /\ ridx < written)

\* Slip: a full buffer is filled again from its start.
AskForMoreReusing ==
  /\ ~reading /\ AllRead /\ reading' = TRUE
  /\ IF Room = 0 /\ buffers # <<>>
     THEN written' = 0 /\ UNCHANGED <<buffers, cur>>
     ELSE GetFreeBuffer
  /\ rbuf' = Len(buffers') - 1 /\ ridx' = written'
  /\ UNCHANGED <<sent, received, out>>

\* Everything has been read: the reader below is asked for more.
AskForMore ==
  /\ ~reading /\ AllRead /\ reading' = TRUE
  /\ GetFreeBuffer
  /\ rbuf' = Len(buffers') - 1 /\ ridx' = written'
  /\ UNCHANGED <<sent, received, out>>

\* The continuation of the read, for any number of bytes that fits (none: the
\* tests' reader at its end).
ReadDone(sz) ==
  LET bytes == SubSeq(sent, received + 1, received + sz) IN
  /\ reading
  /\ buffers' = [buffers EXCEPT ![Last + 1] = SubSeq(@, 1, written) \o bytes]
  /\ written' = written + sz /\ ridx' = ridx + sz
  /\ received' = received + sz
  /\ reading' = FALSE /\ out' = bytes
  /\ UNCHANGED <<sent, cur, rbuf>>

\* The socket's end or an error: the future fails and nothing is added.
ReadFails ==
  /\ reading
  /\ reading' = FALSE
  /\ UNCHANGED <<sent, received, state, out>>

Answerable == 0 .. (IF Room < Len(sent) - received THEN Room
                                                  ELSE Len(sent) - received)

ReadSome ==
  \/ ReadFromEarlier \/ ReadFromLast \/ AskForMore
  \/ \E sz \in Answerable : ReadDone(sz)
  \/ ReadFails

-----------------------------------------------------------------------------
(* replace_bytes(n) goes back through d buffers until n bytes fit before   *)
(* the position.  An n below zero moves the position forward.              *)

\* Slip: <= for < in the loop's condition.
ReplaceBytesTooFar(n) ==
  /\ ~reading
  /\ \E d \in 0 .. rbuf :
       /\ ridx + d * BufferSize > n
       /\ d > 0 => ridx + (d - 1) * BufferSize <= n
       /\ rbuf' = rbuf - d
       /\ ridx' = ridx + d * BufferSize - n
  /\ UNCHANGED <<sent, received, buffers, cur, written, reading, out>>

ReplaceBytes(n) ==
  /\ ~reading
  /\ \E d \in 0 .. rbuf :
       /\ ridx + d * BufferSize >= n
       /\ d > 0 => ridx + (d - 1) * BufferSize < n
       /\ rbuf' = rbuf - d
       /\ ridx' = ridx + d * BufferSize - n
  /\ UNCHANGED <<sent, received, buffers, cur, written, reading, out>>

\* The client gives back bytes it has read.
Return == \E n \in 0 .. Position : ReplaceBytes(n)

Next == ReadSome \/ Return

Spec == Init /\ [][Next]_vars

-----------------------------------------------------------------------------
(* The indexes stay inside a buffer and the stream.                        *)
TypeOK ==
  /\ sent \in Streams /\ received \in 0 .. Len(sent)
  /\ buffers \in Seq(Seq(Int))
  /\ cur \in {0, BufferSize} /\ written \in 0 .. BufferSize
  /\ rbuf \in Nat /\ ridx \in 0 .. BufferSize
  /\ reading \in BOOLEAN /\ out \in Seq(Int)

(* The buffers hold what was received, in order: all full but the last.    *)
Holds ==
  /\ buffers = <<>> => cur = 0 /\ written = 0
  /\ buffers # <<>> =>
       /\ cur = BufferSize
       /\ received = Last * BufferSize + written
       /\ \A k \in DOMAIN buffers :
            buffers[k] = SubSeq(sent, (k - 1) * BufferSize + 1,
                                IF k <= Last THEN k * BufferSize ELSE received)

(* The position is inside what was received.  Before the last buffer it is *)
(* not at a buffer's end, where read_some() would answer with nothing; and *)
(* while a read is pending, whose continuation adds to the indexes it took *)
(* by reference, it is where that read will write, with room to do so.     *)
PositionInside ==
  /\ buffers = <<>> => rbuf = 0 /\ ridx = 0 /\ received = 0 /\ ~reading
  /\ buffers # <<>> =>
       /\ rbuf <= Last
       /\ IF rbuf < Last THEN ridx < BufferSize ELSE ridx <= written
  /\ reading => rbuf = Last /\ ridx = written /\ Room > 0

IInv == TypeOK /\ Holds /\ PositionInside

Abstract == INSTANCE ByteStream WITH pos <- Position

(* The reader is a stream that can be told to go back: no byte is skipped, *)
(* repeated, or read before it arrived, across every buffer boundary.      *)
ReadsTheStream == Abstract!Spec

(* The bytes of a view already handed out are never written over.          *)
ViewsStay ==
  [][\A k \in DOMAIN buffers :
       /\ k \in DOMAIN buffers'
       /\ \A i \in DOMAIN buffers[k] :
            i \in DOMAIN buffers'[k] /\ buffers'[k][i] = buffers[k][i]]_vars
=============================================================================
