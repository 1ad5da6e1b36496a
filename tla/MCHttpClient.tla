---------------------------- MODULE MCHttpClient ----------------------------
(* Responses with a length, with chunks, with neither, and empty; bytes of *)
(* a next response behind one; and two the client cannot take: a negative  *)
(* length and a header without a value.  A segment is a text and whether   *)
(* the network delivers it whole.                                          *)
EXTENDS HttpResponse

Whole(text) == <<text, TRUE>>
Split(text) == <<text, FALSE>>

Response(headers, body) ==
  [protocol |-> <<72>>, version |-> <<49>>, code |-> 2, status |-> <<79>>,
   headers |-> headers, body |-> body]

HeadOf(m) ==
  <<Whole(m.protocol \o Slash), Whole(m.version \o Space),
    Whole(Decimal(m.code) \o Space), Whole(m.status \o CRLF)>>
  \o [i \in DOMAIN m.headers |->
        Whole(m.headers[i][1] \o Colon \o Space \o m.headers[i][2] \o CRLF)]
  \o <<Whole(CRLF)>>

Letters(first, n) == [i \in 1 .. n |-> first + i]

Sized == LET m == Response(<<<<ContentLength, <<56>>>>>>, Letters(96, 8))
         IN <<m, HeadOf(m) \o <<Split(m.body), Split(<<122>>)>>>>
Second == LET m == Response(<<<<<<88>>, <<120>>>>, <<ContentLength, <<50>>>>>>, CRLF)
          IN <<m, HeadOf(m) \o <<Split(m.body)>>>>
InChunks == LET m == Response(<<<<TransferEncoding, Chunked>>>>, <<97, 13, 10, 98>>)
            IN <<m, HeadOf(m) \o <<Whole(<<51, 59, 101>> \o CRLF), Split(<<97, 13, 10>>),
                      Split(CRLF), Whole(<<49>> \o CRLF), Split(<<98>>), Split(CRLF),
                      Whole(<<48>> \o CRLF), Split(CRLF)>>>>
Unsized == LET m == Response(<<>>, Letters(96, 10)) IN <<m, HeadOf(m) \o <<Split(m.body)>>>>
Hollow == LET m == Response(<<<<ContentLength, <<48>>>>>>, <<>>) IN <<m, HeadOf(m)>>

Negative == LET m == Response(<<<<ContentLength, <<45, 53>>>>>>, <<>>)
            IN <<m, HeadOf(m) \o <<Split(<<97>>)>>>>
Valueless == LET m == Response(<<<<<<88>>, <<>>>>>>, <<>>) IN <<m, HeadOf(m)>>

PlainUrl == HTTP \o Colon \o Slash \o Slash \o <<120>> \o Slash \o <<112>>
PortUrl == HTTPS \o Colon \o Slash \o Slash \o <<120>> \o Colon \o <<56, 49>>
BadUrl == <<102>> \o Colon \o Slash \o Slash \o <<120>>

Exchange(url, answer) ==
  [url |-> url, method |-> <<80, 79>>, headers |-> <<<<<<68>>, <<69>>>>>>,
   content |-> <<67, 67>>, means |-> answer[1], segments |-> answer[2],
   bytes |-> FlattenSeq([i \in DOMAIN answer[2] |-> answer[2][i][1]]),
   length |-> Len(FlattenSeq([i \in DOMAIN answer[2] |-> answer[2][i][1]]))
                - (IF answer = Sized THEN 1 ELSE 0)]

MCExchanges ==
  {Exchange(PlainUrl, a) : a \in {Sized, InChunks, Unsized, Hollow, Negative, Valueless}}
    \cup {Exchange(PortUrl, Second), Exchange(BadUrl, Hollow)}
OneExchange == {Exchange(PlainUrl, Second)}

Upto(e, i) == Len(FlattenSeq([k \in 1 .. i |-> e.segments[k][1]]))

\* Between segments, and inside the ones that may be split.
CutsInContent(e) ==
  UNION {IF e.segments[i][2] THEN {Upto(e, i)} ELSE Upto(e, i - 1) + 1 .. Upto(e, i) :
           i \in DOMAIN e.segments}
CutsAnywhere(e) == 1 .. Len(e.bytes)

MCIntMax == 32767
=============================================================================
