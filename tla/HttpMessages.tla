---------------------------- MODULE HttpMessages ----------------------------
(***************************************************************************)
(* The messages of HTTP: source/lib/httputil.c, which reads URLs, requests *)
(* and responses, and the parts of source/lib/http.c that write them       *)
(* (http_do_request_native, res_send_impl).                                *)
(*                                                                         *)
(* A text is a sequence of bytes and of words: a word, a number above 255, *)
(* stands for a run of letters whose spelling does not matter here.  The   *)
(* words come in pairs, the even one all in lower case.  Texts hold no     *)
(* zero byte, and lengths are decimal or hexadecimal digits.               *)
(***************************************************************************)
EXTENDS Csv

Spelling(n) == 256 + 2 * n
HOST == Spelling(0)   USER_AGENT == Spelling(1)   ACCEPT == Spelling(2)   CONNECTION == Spelling(3)
CONTENT_LENGTH == Spelling(4)   CONTENT_TYPE == Spelling(5)   TRANSFER_ENCODING == Spelling(6)
CLOSE == Spelling(7)   CHUNKED == Spelling(8)   CANDO == Spelling(9)   ANYTHING == Spelling(10)
HTML == Spelling(11)   GET == Spelling(12)   POST == Spelling(13)   HTTP_SLASH == Spelling(14)
SCHEME_HTTP == Spelling(15)   SCHEME_HTTPS == Spelling(16)   OK_WORD == Spelling(17)
Capitalised(word) == <<word + 1>>

QUESTION == 63
CRLF == <<CR, LF>>
Version == <<HTTP_SLASH, 49, DOT, 49>>

LineMax == 8192     \* char line[8192]
SizeLineMax == 64   \* char line[64] of a chunk

Lowered(b) == CASE b > 255 -> b - (b % 2)
                [] b \in Upper -> b + 32
                [] OTHER -> b
LowerCase(s) == [i \in DOMAIN s |-> Lowered(s[i])]

\* The first position from i on that holds one of these, or the one after the end.
FirstOf(s, i, set) ==
  CHOOSE j \in i .. Len(s) + 1 : (j > Len(s) \/ s[j] \in set) /\ \A k \in i .. j - 1 : s[k] \notin set

From(s, i) == SubSeq(s, i, Len(s))

\* What strtoul makes of the digits at the beginning of s.
RECURSIVE LeadingNumber(_, _, _)
LeadingNumber(s, base, acc) ==
  LET digit == CASE ByteAt(s, 1) \in Digits -> s[1] - 48
                 [] ByteAt(s, 1) \in 65 .. 70 /\ base = 16 -> s[1] - 55
                 [] ByteAt(s, 1) \in 97 .. 102 /\ base = 16 -> s[1] - 87
                 [] OTHER -> -1
  IN  IF digit = -1 THEN acc ELSE LeadingNumber(Tail(s), base, acc * base + digit)
Number(s, base) == LeadingNumber(s, base, 0)

----------------------------------------------------------------------------
(* URLs                                                                    *)

BadUrl == [ok |-> FALSE]

\* scheme://host[:port][path][#fragment]; a port without a scheme's default.
ParseUrl(s) ==
  LET sep == {i \in 1 .. Len(s) : StartsAt(s, i, <<COLON, SLASH, SLASH>>)}
      start == (CHOOSE i \in sep : \A j \in sep : i <= j)
      scheme == LowerCase(SubSeq(s, 1, start - 1))
      host == start + 3
      hostEnd == FirstOf(s, host, {SLASH, QUESTION, HASH})
      colon == FirstOf(s, host, {COLON})
      nameEnd == IF colon < hostEnd THEN colon ELSE hostEnd
      port == IF colon < hostEnd THEN Number(SubSeq(s, colon + 1, hostEnd - 1), 10)
              ELSE IF scheme = <<SCHEME_HTTPS>> THEN 443 ELSE 80
  IN  IF \/ sep = {}
         \/ scheme \notin {<<SCHEME_HTTP>>, <<SCHEME_HTTPS>>}
         \/ nameEnd = host
         \/ port \notin 1 .. 65535
      THEN BadUrl
      ELSE [ok |-> TRUE, scheme |-> scheme[1], host |-> SubSeq(s, host, nameEnd - 1), port |-> port,
            path |-> IF hostEnd > Len(s) THEN <<SLASH>>
                     ELSE SubSeq(s, hostEnd, FirstOf(s, hostEnd, {HASH}) - 1)]

----------------------------------------------------------------------------
(* Writing                                                                 *)

HasHeader(headers, word) == \E i \in DOMAIN headers : LowerCase(headers[i][1]) = <<word>>

HeaderLine(name, value) == name \o <<COLON, SPACE>> \o value \o CRLF

HeaderLines(headers) == Joined([i \in DOMAIN headers |-> HeaderLine(headers[i][1], headers[i][2])], <<>>)

\* A header of the library's own, unless the program has given it.
Default(headers, word, value) ==
  IF HasHeader(headers, word) THEN <<>> ELSE HeaderLine(Capitalised(word), value)

\* A request as http_do_request_native writes it; hint is https.request's.
WriteRequest(url, hint, method, headers, body) ==
  LET tls == hint \/ url.scheme = SCHEME_HTTPS
      port == IF url.port = IF tls THEN 443 ELSE 80 THEN <<>> ELSE <<COLON>> \o Decimal(url.port)
  IN  method \o <<SPACE>> \o url.path \o <<SPACE>> \o Version \o CRLF
      \o Default(headers, HOST, url.host \o port)
      \o Default(headers, USER_AGENT, <<CANDO>>)
      \o Default(headers, ACCEPT, <<ANYTHING>>)
      \o Default(headers, CONNECTION, <<CLOSE>>)
      \o (IF body = <<>> THEN <<>> ELSE Default(headers, CONTENT_LENGTH, Decimal(Len(body))))
      \o HeaderLines(headers) \o CRLF \o body

KnownStatus == {100, 101, 200, 201, 202, 204, 206, 301, 302, 303, 304, 307, 308, 400, 401, 403, 404, 405,
                408, 409, 410, 413, 414, 415, 418, 422, 429, 500, 501, 502, 503, 504, 505}
StatusText(code) == IF code \in KnownStatus \ {200} THEN Spelling(1000 + code) ELSE OK_WORD

\* A response as res_send_impl writes it; setHeader has put the names in
\* lower case.
WriteResponse(code, set, body) ==
  LET headers == [i \in DOMAIN set |-> <<LowerCase(set[i][1]), set[i][2]>>]
  IN  Version \o <<SPACE>> \o Decimal(code) \o <<SPACE, StatusText(code)>> \o CRLF
      \o Default(headers, CONTENT_TYPE, <<HTML>>)
      \o Default(headers, CONNECTION, <<CLOSE>>)
      \o HeaderLines(headers)
      \o Default(headers, CONTENT_LENGTH, Decimal(Len(body)))
      \o CRLF \o body

----------------------------------------------------------------------------
(* Reading from a connection: conn.bytes is all that arrives before its    *)
(* end, conn.cuts the positions after which one recv ends and another      *)
(* begins.                                                                 *)

NoLine == [ok |-> FALSE, line |-> <<>>, at |-> 0]

\* A line ends at the first CR with its LF in the same recv.  The end of the
\* connection or a full buffer is an error.
ReadLine(conn, at, max) ==
  LET s == conn.bytes
      ends == {i \in at .. Len(s) : StartsAt(s, i, CRLF) /\ i \notin conn.cuts}
      end == CHOOSE i \in ends : \A j \in ends : i <= j
  IN  IF ends = {} \/ end - at >= max THEN NoLine
      ELSE [ok |-> TRUE, line |-> SubSeq(s, at, end - 1), at |-> end + 2]

Blank == {SPACE, TAB}

\* Without the blanks around it.
Trimmed(s) ==
  LET solid == {i \in DOMAIN s : s[i] \notin Blank}
  IN  IF solid = {} THEN <<>>
      ELSE SubSeq(s, CHOOSE i \in solid : \A j \in solid : i <= j, CHOOSE i \in solid : \A j \in solid : j <= i)

\* parse_headers: names in lower case, lines without a colon skipped.
RECURSIVE ReadHeaders(_, _, _)
ReadHeaders(conn, at, headers) ==
  LET l == ReadLine(conn, at, LineMax)
      colon == FirstOf(l.line, 1, {COLON})
  IN  CASE ~l.ok -> [ok |-> FALSE, headers |-> headers, at |-> at]
        [] l.ok /\ l.line = <<>> -> [ok |-> TRUE, headers |-> headers, at |-> l.at]
        [] l.ok /\ l.line # <<>> /\ colon > Len(l.line) -> ReadHeaders(conn, l.at, headers)
        [] OTHER -> ReadHeaders(conn, l.at,
                      Append(headers, <<LowerCase(SubSeq(l.line, 1, colon - 1)),
                                        Trimmed(From(l.line, colon + 1))>>))

\* The first header of the name, or <<>>, which is no length either.
HeaderOf(headers, word) ==
  LET named == {i \in DOMAIN headers : headers[i][1] = <<word>>}
  IN  IF named = {} THEN <<>> ELSE headers[CHOOSE i \in named : \A j \in named : i <= j][2]

NoBody == [ok |-> FALSE, body |-> <<>>]

ReadBytes(conn, at, need) ==
  IF at + need - 1 > Len(conn.bytes) THEN NoBody
  ELSE [ok |-> TRUE, body |-> SubSeq(conn.bytes, at, at + need - 1)]

\* The lines after the last chunk, up to an empty one.
RECURSIVE ReadTrailer(_, _)
ReadTrailer(conn, at) ==
  LET l == ReadLine(conn, at, SizeLineMax)
  IN  l.ok /\ (l.line = <<>> \/ ReadTrailer(conn, l.at))

RECURSIVE ReadChunks(_, _, _)
ReadChunks(conn, at, body) ==
  LET l == ReadLine(conn, at, SizeLineMax)
      size == Number(SubSeq(l.line, 1, FirstOf(l.line, 1, {SEMICOLON}) - 1), 16)
      part == ReadBytes(conn, l.at, size)
      after == ReadLine(conn, l.at + size, SizeLineMax)
  IN  CASE ~l.ok -> NoBody
        [] l.ok /\ size = 0 -> [ok |-> ReadTrailer(conn, l.at), body |-> body]
        [] l.ok /\ size # 0 /\ (~part.ok \/ ~after.ok \/ after.line # <<>>) -> NoBody
        [] OTHER -> ReadChunks(conn, after.at, body \o part.body)

\* A body whose length the headers give; a request without one has none.
ReadBody(conn, h) ==
  IF LowerCase(HeaderOf(h.headers, TRANSFER_ENCODING)) = <<CHUNKED>>
  THEN ReadChunks(conn, h.at, <<>>)
  ELSE ReadBytes(conn, h.at, Number(HeaderOf(h.headers, CONTENT_LENGTH), 10))

\* The fields of the object made of the headers: a later one of the same
\* name overwrites an earlier one.
HeaderFields(headers) ==
  {headers[i] : i \in {j \in DOMAIN headers : \A k \in j + 1 .. Len(headers) : headers[k][1] # headers[j][1]}}

NoMessage == [ok |-> FALSE, v |-> <<"null">>]

\* http_read_request, and what conn_thread_fn hands to the callback of it.
ReadRequest(conn) ==
  LET l == ReadLine(conn, 1, LineMax)
      sp1 == FirstOf(l.line, 1, {SPACE})
      sp2 == FirstOf(l.line, sp1 + 1, {SPACE})
      url == SubSeq(l.line, sp1 + 1, sp2 - 1)
      mark == FirstOf(url, 1, {QUESTION})
      ver == From(l.line, sp2 + 1)
      h == ReadHeaders(conn, l.at, <<>>)
      body == ReadBody(conn, h)
  IN  IF ~l.ok \/ sp1 > Len(l.line) \/ sp2 > Len(l.line) \/ ~h.ok \/ ~body.ok THEN NoMessage
      ELSE [ok |-> TRUE,
            v |-> <<"request", SubSeq(l.line, 1, sp1 - 1), url,
                    SubSeq(url, 1, mark - 1), From(url, mark + 1),
                    IF StartsAt(ver, 1, <<HTTP_SLASH>>) THEN Tail(ver) ELSE ver,
                    HeaderFields(h.headers), body.body>>]

\* http_read_response, and what http_do_request_native returns of it.  Without
\* a length the body of some responses goes on to the end of the connection.
ReadResponse(conn) ==
  LET l == ReadLine(conn, 1, LineMax)
      sp1 == FirstOf(l.line, 1, {SPACE})
      code == Number(From(l.line, sp1 + 1), 10)
      h == ReadHeaders(conn, l.at, <<>>)
      measured == \/ LowerCase(HeaderOf(h.headers, TRANSFER_ENCODING)) = <<CHUNKED>>
                  \/ HasHeader(h.headers, CONTENT_LENGTH)
      closes == LowerCase(HeaderOf(h.headers, CONNECTION)) = <<CLOSE>>
      body == CASE measured -> ReadBody(conn, h)
                [] ~measured /\ (closes \/ code \in {200, 204}) ->
                     [ok |-> TRUE, body |-> From(conn.bytes, h.at)]
                [] OTHER -> [ok |-> TRUE, body |-> <<>>]
  IN  IF ~l.ok \/ sp1 > Len(l.line) \/ ~h.ok \/ ~body.ok THEN NoMessage
      ELSE [ok |-> TRUE, v |-> <<"response", code, HeaderFields(h.headers), body.body>>]
=============================================================================
