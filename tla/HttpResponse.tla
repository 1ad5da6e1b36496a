---------------------------- MODULE HttpResponse ----------------------------
(***************************************************************************)
(* What the bytes of a response mean: what is understood of them by a      *)
(* reader that has all of them before it, so that nothing is cut, put      *)
(* together or given back.  This is what the parser of HttpClient is held  *)
(* against for any exchange.                                               *)
(***************************************************************************)
EXTENDS HttpClient

\* How far a response is read: stage, need and res are the client's, pos is
\* the number of bytes before the next piece.
Unread == [stage |-> "protocol", need |-> 0, res |-> NoResponse, pos |-> 0]

\* The next piece, if it is there: a line up to its delimiter, or need bytes.
Piece(bytes, s) ==
  LET rest == SubSeq(bytes, s.pos + 1, Len(bytes))
      delimiter == Delimiter(s.stage)
  IN CASE s.stage \in HeadStages ->
            {[text |-> SubSeq(rest, 1, i), end |-> s.pos + i + Len(delimiter)] :
               i \in {FindIndex(rest, delimiter)} \ {-1}}
       [] s.stage \in CountStages ->
            {[text |-> SubSeq(rest, 1, n), end |-> s.pos + n] :
               n \in {s.need} \cap 0 .. Len(rest)}
       [] OTHER -> {}

Refused(s) == [s EXCEPT !.stage = "failed"]

CodeRead(s, text) ==
  LET codes == ParseIntIn(text, 10)
  IN IF codes = {} THEN Refused(s)
     ELSE [s EXCEPT !.stage = "status", !.res.code = The(codes)]

\* A name, a colon and, behind blanks, a value.
HeaderRead(s, text) ==
  LET colon == FindIndex(text, Colon)
      kept == {k \in colon + 2 .. Len(text) : text[k] \notin Blank}
  IN IF colon = -1 \/ kept = {} THEN Refused(s)
     ELSE [s EXCEPT !.res.headers =
             Append(@, <<SubSeq(text, 1, colon), SubSeq(text, Min(kept), Len(text))>>)]

\* Chunks, or as many bytes as the length says, or ten.
HeadRead(s) ==
  LET length == GetHeader(s.res.headers, ContentLength, NoLength)
      lengths == IF EqualsLiteral(length, NoLength) THEN {10} ELSE ParseIntIn(length, 10)
  IN IF EqualsLiteral(GetHeader(s.res.headers, TransferEncoding, <<120>>), Chunked)
     THEN [s EXCEPT !.stage = "size"]
     ELSE IF lengths = {} THEN Refused(s)
     ELSE [s EXCEPT !.stage = "content", !.need = The(lengths)]

SizeRead(s, text) ==
  LET semicolon == FindIndex(text, Semicolon)
      sizes == ParseIntIn(IF semicolon = -1 THEN text ELSE SubSeq(text, 1, semicolon), 16)
  IN IF sizes = {} THEN Refused(s)
     ELSE IF sizes = {0} THEN [s EXCEPT !.stage = "last end", !.need = 2]
     ELSE [s EXCEPT !.stage = "chunk", !.need = The(sizes)]

Understood(s, text) ==
  CASE s.stage = "protocol" -> [s EXCEPT !.stage = "version", !.res.protocol = text]
    [] s.stage = "version" -> [s EXCEPT !.stage = "code", !.res.version = text]
    [] s.stage = "code" -> CodeRead(s, text)
    [] s.stage = "status" -> [s EXCEPT !.stage = "header", !.res.status = text]
    [] s.stage = "header" -> IF text = <<>> THEN HeadRead(s) ELSE HeaderRead(s, text)
    [] s.stage = "size" -> SizeRead(s, text)
    [] s.stage = "chunk" -> [s EXCEPT !.stage = "chunk end", !.need = 2, !.res.body = @ \o text]
    [] s.stage = "chunk end" -> [s EXCEPT !.stage = "size"]
    [] s.stage = "last end" -> [s EXCEPT !.stage = "done"]
    [] s.stage = "content" -> [s EXCEPT !.stage = "done", !.res.body = text]

\* One piece further, or where it is if there is none.
Further(bytes, s) ==
  LET piece == The(Piece(bytes, s))
  IN IF Piece(bytes, s) = {} THEN s
     ELSE [Understood(s, piece.text) EXCEPT !.pos = piece.end]

\* Only the content may be a piece of no bytes, and nothing comes after it.
Readings(bytes) ==
  LET at[k \in 0 .. Len(bytes) + 1] == IF k = 0 THEN Unread ELSE Further(bytes, at[k - 1])
  IN at
Read(bytes) == Readings(bytes)[Len(bytes) + 1]

\* What an exchange is said to mean, and where its response ends, is so.
ASSUME MeaningAssumption ==
  \A e \in Exchanges :
    /\ e.bytes \in Seq(Int)
    /\ Read(e.bytes).stage = "done" =>
         e.means = Read(e.bytes).res /\ e.length = Read(e.bytes).pos

-----------------------------------------------------------------------------
(* The network and the reader's buffers leave the lines of the head, and   *)
(* the sizes of chunks, whole.                                             *)
HeadsWhole == found.kind = "more" => stage \notin HeadStages
=============================================================================
