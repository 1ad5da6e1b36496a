----------------------------- MODULE HttpClient -----------------------------
(***************************************************************************)
(* One request of the client in src/modules/reax-ssl/http_client.hpp: from *)
(* the URL over resolving, connecting and the handshake (net.hpp), the     *)
(* request written in pieces (reactor.hpp) to the response, which a parser *)
(* takes out of whatever chunks the buffered reader answers with.          *)
(*                                                                         *)
(* Every continuation is a step of its own.  What an iterator of an empty  *)
(* mestring_cat leads to is the stage "crashed".                           *)
(***************************************************************************)
EXTENDS Address

CONSTANTS
  BufferSize,  \* bytes of a reader's buffer
  Exchanges,   \* what may happen: a request and the bytes of its response
  Cuts(_)      \* where the network may cut these bytes into reads

\* A text is a sequence of bytes.
ASSUME ClientAssumption ==
  /\ BufferSize \in Nat \ {0}
  /\ \A e \in Exchanges :
       /\ e.url \in Seq(Int) /\ e.method \in Seq(Int) /\ e.content \in Seq(Int)
       /\ e.headers \in Seq(Seq(Int) \X Seq(Int))

VARIABLES
  exchange,  \* the one that happens
  target,    \* what request() makes of the URL
  sent, received, buffers, cur, written, rbuf, ridx, reading, out,
  stage,     \* the continuation the client waits for
  unsent,    \* pieces write() has yet to write, the first one perhaps begun
  wire,      \* bytes the peer has got
  found,     \* what the parser makes of an answer, none while it waits
  current,   \* parser::current_
  late,      \* read_up_to() has gone over to read_to()
  need,      \* n of read_n()
  res        \* the response, and in body what read_chunked() carries along

reader == <<sent, received, buffers, cur, written, rbuf, ridx, reading, out>>
parser == <<found, current, late, need>>
vars == <<exchange, target, reader, stage, unsent, wire, parser, res>>

R == INSTANCE BufferedReader WITH Streams <- {}

-----------------------------------------------------------------------------
(* The text of requests and responses, with short words for the long ones. *)

Slash == <<47>>
Space == <<32>>
CRLF == <<13, 10>>
Semicolon == <<59>>
HTTP == <<104>>                 \* "http"
HTTPS == <<104, 115>>           \* "https"
HostWord == <<32, 86>> \o CRLF  \* " HTTP/1.1\r\nHost: "
LengthWord == CRLF \o <<76>>    \* "\r\nContent-Length: "
TransferEncoding == <<84>>
Chunked == <<99, 100>>          \* "chunked"
ContentLength == <<67>>
NoLength == <<45, 49>>          \* "-1"

Cat(pieces) == AddCat(<<>>, pieces)

\* request(): where to connect and what to ask for; empty if it throws.
Targets(url) ==
  LET end == FindIndex(url, Colon \o Slash \o Slash)
      proto == SubSeq(url, 1, end)
      hpa == SubSeq(url, end + 4, Len(url))
      slash == FindIndex(hpa, Slash)
      path == IF slash = -1 THEN Slash ELSE SubSeq(hpa, slash + 1, Len(hpa))
      hp == IF slash = -1 THEN hpa ELSE SubSeq(hpa, 1, slash)
      colon == FindIndex(hp, Colon)
      host == IF colon = -1 THEN hp ELSE SubSeq(hp, 1, colon)
      ports == IF colon # -1 THEN ParseIntIn(SubSeq(hp, colon + 2, Len(hp)), 10)
               ELSE IF EqualsLiteral(proto, HTTP) THEN {80} ELSE {443}
  IN IF end = -1 \/ ~(EqualsLiteral(proto, HTTP) \/ EqualsLiteral(proto, HTTPS))
     THEN {}
     ELSE {[host |-> host, port |-> p % PortWord, path |-> path,
            ssl |-> ~EqualsLiteral(proto, HTTP)] : p \in ports}

\* The value a call returned, where it returned one.
The(set) == CHOOSE x \in set : TRUE
Target == The(target)

\* request_over_socket(): the two texts that are written.
Opening(q) == Cat(<<q.method, Space, Target.path, HostWord, Target.host, LengthWord>>)
Closing(q) ==
  Cat(<<Decimal(Len(q.content))>>
      \o FlattenSeq([i \in DOMAIN q.headers |->
                       <<CRLF, q.headers[i][1], Colon \o Space, q.headers[i][2]>>])
      \o <<CRLF \o CRLF, q.content>>)

\* get_header(): the first one of this name.
GetHeader(headers, name, default) ==
  LET hits == {i \in DOMAIN headers : headers[i][1] = name}
  IN IF hits = {} THEN default ELSE headers[Min(hits)][2]

Nothing == [kind |-> "none", text |-> <<>>, back |-> 0]
Error == [kind |-> "throw", text |-> <<>>, back |-> 0]

NoResponse == [protocol |-> <<>>, version |-> <<>>, code |-> 0, status |-> <<>>,
               headers |-> <<>>, body |-> <<>>]

Init ==
  /\ exchange \in Exchanges /\ target = Targets(exchange.url)
  /\ R!Empty(exchange.bytes)
  /\ stage = "start" /\ unsent = <<>> /\ wire = <<>>
  /\ found = Nothing /\ current = <<>> /\ late = FALSE /\ need = 0
  /\ res = NoResponse

-----------------------------------------------------------------------------
(* Up to the request.                                                      *)

Go(from, to) ==
  /\ stage = from /\ stage' = to
  /\ UNCHANGED <<exchange, target, reader, wire, parser, res>>

\* request() throws at once on a URL it cannot read.
ReadUrl ==
  /\ Go("start", IF target = {} THEN "failed" ELSE "resolving")
  /\ UNCHANGED unsent

Resolved == Go("resolving", "connecting") /\ UNCHANGED unsent

StartWriting == unsent' = Opening(exchange)

\* asio_connect()'s handler: connect_to() is done, the other shakes hands.
Connected ==
  /\ stage = "connecting"
  /\ IF Target.ssl THEN Go("connecting", "shaking") /\ UNCHANGED unsent
     ELSE Go("connecting", "opening") /\ StartWriting

ShookHands == stage = "shaking" /\ Go("shaking", "opening") /\ StartWriting

\* Slip: what a partial write left over is forgotten.
WriteSomeOnce(k) ==
  /\ unsent # <<>> /\ k \in 1 .. Len(unsent[1])
  /\ wire' = wire \o SubSeq(unsent[1], 1, k)
  /\ unsent' = Tail(unsent)
  /\ UNCHANGED <<exchange, target, reader, stage, parser, res>>

\* async_write_some() takes some of the piece; write() goes on with the rest of
\* it, and after it with the next one.
WriteSome(k) ==
  /\ unsent # <<>> /\ k \in 1 .. Len(unsent[1])
  /\ wire' = wire \o SubSeq(unsent[1], 1, k)
  /\ unsent' = IF k = Len(unsent[1]) THEN Tail(unsent)
               ELSE [unsent EXCEPT ![1] = SubSeq(@, k + 1, Len(@))]
  /\ UNCHANGED <<exchange, target, reader, stage, parser, res>>

OpeningWritten ==
  /\ unsent = <<>> /\ Go("opening", "closing") /\ unsent' = Closing(exchange)

ClosingWritten ==
  /\ unsent = <<>> /\ Go("closing", "protocol") /\ UNCHANGED unsent

\* An error of any of these calls fails the future of the request: what is
\* left to write goes with the continuations of it.
CallFails ==
  \E s \in {"resolving", "connecting", "shaking", "opening", "closing"} :
    /\ s \in {"opening", "closing"} => unsent # <<>>
    /\ Go(s, "failed") /\ unsent' = <<>>

-----------------------------------------------------------------------------
(* The parser.                                                             *)

HeadStages == {"protocol", "version", "code", "status", "header", "size"}
CountStages == {"chunk", "chunk end", "last end", "content"}

Delimiter(s) ==
  CASE s = "protocol" -> Slash
    [] s \in {"version", "code"} -> Space
    [] s \in {"status", "header", "size"} -> CRLF

\* read_up_to() and (late) read_to(): the bytes to give back are counted in
\* the last chunk, from an index into all that was read.
UpTo(chunk) ==
  LET all == <<current \o chunk>>
      delimiter == Delimiter(stage)
      index == FindIndex(all[1], delimiter) + Len(delimiter)
      extra == Len(chunk) - index
      cut == IF late THEN -extra ELSE -(extra + Len(delimiter))
  IN IF index < Len(delimiter) THEN [kind |-> "more", text |-> all[1], back |-> 0]
     ELSE IF ~CanTruncate(all, cut) THEN Error
     ELSE [kind |-> "done", text |-> FlattenSeq(Truncated(all, cut)), back |-> extra]

\* Slip: the whole chunk is taken.
NBytesGreedy(chunk) ==
  LET left == need - Len(current) IN
  IF left > Len(chunk) THEN [kind |-> "more", text |-> current \o chunk, back |-> 0]
  ELSE IF left < 0 THEN Error
  ELSE [kind |-> "done", text |-> current \o chunk, back |-> 0]

\* read_n()
NBytes(chunk) ==
  LET left == need - Len(current) IN
  IF left > Len(chunk) THEN [kind |-> "more", text |-> current \o chunk, back |-> 0]
  ELSE IF left < 0 THEN Error
  ELSE [kind |-> "done", text |-> current \o SubSeq(chunk, 1, left),
        back |-> Len(chunk) - left]

Asking(readerStep) ==
  /\ stage \in HeadStages \cup CountStages /\ found = Nothing
  /\ readerStep
  /\ UNCHANGED <<exchange, target, unsent, wire, current, late, need, res>>

Answering(readerStep) ==
  /\ Asking(readerStep) /\ UNCHANGED stage
  /\ found' = IF stage \in HeadStages THEN UpTo(out') ELSE NBytes(out')

\* read_some() answers from memory, or asks the socket, which answers.
FromMemory == Answering(R!ReadFromEarlier \/ R!ReadFromLast)

AskSocket == Asking(R!AskForMore) /\ UNCHANGED <<found, stage>>

SocketAnswers ==
  \E sz \in R!Answerable \ {0} :
    received + sz \in Cuts(exchange) /\ Answering(R!ReadDone(sz))

SocketFails == Asking(R!ReadFails) /\ stage' = "failed" /\ UNCHANGED found

NeedsMore ==
  /\ found.kind = "more"
  /\ found' = Nothing /\ current' = found.text
  /\ late' = (stage \in HeadStages)
  /\ UNCHANGED <<exchange, target, reader, stage, unsent, wire, need, res>>

\* truncated(), operator[] or replace_bytes() throws.
Throws ==
  /\ found.kind = "throw" \/ found.back > R!Position
  /\ stage' = "failed" /\ found' = Nothing
  /\ UNCHANGED <<exchange, target, reader, unsent, wire, current, late, need, res>>

\* The continuation of stage s gets its text; the rest goes back.
Take(s) ==
  /\ stage = s /\ found.kind = "done"
  /\ R!ReplaceBytes(found.back)
  /\ found' = Nothing /\ current' = <<>> /\ late' = FALSE
  /\ UNCHANGED <<exchange, target, unsent, wire>>

Text == found.text

TakeProtocol ==
  /\ Take("protocol") /\ res' = [res EXCEPT !.protocol = Text]
  /\ stage' = "version" /\ UNCHANGED need

TakeVersion ==
  /\ Take("version") /\ res' = [res EXCEPT !.version = Text]
  /\ stage' = "code" /\ UNCHANGED need

TakeCode ==
  /\ Take("code")
  /\ LET codes == ParseIntIn(Text, 10) IN
     /\ stage' = IF Text = <<>> THEN "crashed"
                 ELSE IF codes = {} THEN "failed" ELSE "status"
     /\ res' = IF codes = {} THEN res ELSE [res EXCEPT !.code = The(codes)]
  /\ UNCHANGED need

TakeStatus ==
  /\ Take("status") /\ res' = [res EXCEPT !.status = Text]
  /\ stage' = "header" /\ UNCHANGED need

-----------------------------------------------------------------------------
(* Headers and content.                                                    *)

\* read_headers(): a line is split at its first colon.
TakeHeader ==
  LET colon == FindIndex(Text, Colon)
      kept == {k \in colon + 2 .. Len(Text) : Text[k] \notin Blank}
  IN /\ Take("header") /\ Text # <<>>
     /\ IF colon = -1 THEN stage' = "failed" /\ UNCHANGED res
        ELSE IF kept = {} THEN stage' = "crashed" /\ UNCHANGED res
        ELSE /\ res' = [res EXCEPT !.headers = Append(@,
                  <<SubSeq(Text, 1, colon), SubSeq(Text, Min(kept), Len(Text))>>)]
             /\ UNCHANGED stage
     /\ UNCHANGED need

\* An empty line: the content is in chunks, or has a length, or ten bytes.
EndHeaders ==
  LET length == GetHeader(res.headers, ContentLength, NoLength) IN
  /\ Take("header") /\ Text = <<>>
  /\ IF EqualsLiteral(GetHeader(res.headers, TransferEncoding, <<120>>), Chunked)
     THEN stage' = "size" /\ UNCHANGED need
     ELSE IF EqualsLiteral(length, NoLength) THEN stage' = "content" /\ need' = 10
     ELSE IF ParseIntIn(length, 10) = {} THEN stage' = "failed" /\ UNCHANGED need
     ELSE stage' = "content" /\ need' = The(ParseIntIn(length, 10))
  /\ UNCHANGED res

\* read_chunked(): the size of a chunk, then its bytes and an end of line.
TakeSize ==
  LET semicolon == FindIndex(Text, Semicolon)
      digits == IF semicolon = -1 THEN Text ELSE SubSeq(Text, 1, semicolon)
      sizes == ParseIntIn(digits, 16)
  IN /\ Take("size")
     /\ IF digits = <<>> THEN stage' = "crashed" /\ UNCHANGED need
        ELSE IF sizes = {} THEN stage' = "failed" /\ UNCHANGED need
        ELSE IF sizes = {0} THEN stage' = "last end" /\ need' = 2
        ELSE stage' = "chunk" /\ need' = The(sizes)
     /\ UNCHANGED res

TakeChunk ==
  /\ Take("chunk") /\ res' = [res EXCEPT !.body = @ \o Text]
  /\ stage' = "chunk end" /\ need' = 2

TakeChunkEnd ==
  /\ Take("chunk end") /\ stage' = "size" /\ UNCHANGED <<need, res>>

TakeLastEnd ==
  /\ Take("last end") /\ stage' = "done" /\ UNCHANGED <<need, res>>

TakeContent ==
  /\ Take("content") /\ res' = [res EXCEPT !.body = Text]
  /\ stage' = "done" /\ UNCHANGED need

Parse ==
  \/ NeedsMore \/ Throws
  \/ TakeProtocol \/ TakeVersion \/ TakeCode \/ TakeStatus
  \/ TakeHeader \/ EndHeaders
  \/ TakeSize \/ TakeChunk \/ TakeChunkEnd \/ TakeLastEnd \/ TakeContent

Write == \E k \in 1 .. BufferSize : WriteSome(k)

Proceed ==
  \/ ReadUrl \/ Resolved \/ Connected \/ ShookHands
  \/ Write \/ OpeningWritten \/ ClosingWritten
  \/ FromMemory \/ AskSocket \/ SocketAnswers \/ Parse

Next == Proceed \/ CallFails \/ SocketFails

\* The peer takes what is written and sends its whole response; when it keeps
\* the connection open after that, nothing more happens.
Spec == Init /\ [][Next]_vars /\ WF_vars(Proceed)

-----------------------------------------------------------------------------
Final == {"done", "failed", "crashed"}

(* However the bytes come, a response that is read to its end is the one   *)
(* that was sent: no byte of a line, of a chunk or of the content is lost, *)
(* repeated or given to a neighbour when chunks are given back, and what   *)
(* the peer sent behind the response is still there to be read.            *)
ResponseExact ==
  stage = "done" => res = exchange.means /\ R!Position = exchange.length

(* The peer gets the request, one byte after the other, however little the *)
(* socket takes at once, and the client reads only after all of it.        *)
RequestWhole ==
  LET whole == IF target = {} THEN <<>>
               ELSE FlattenSeq(Opening(exchange) \o Closing(exchange)) IN
  /\ IsPrefix(wire, whole)
  /\ (reading \/ received > 0) => wire = whole

(* A request ends.  An empty content is the exception: read_n(0) asks the  *)
(* socket although it needs nothing, and waits for a peer that is done.    *)
Answers ==
  <>[](\/ stage \in Final
       \/ stage = "content" /\ need = 0 /\ reading /\ received = Len(sent))
=============================================================================
