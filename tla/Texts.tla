-------------------------------- MODULE Texts --------------------------------
(***************************************************************************)
(* Texts between programs: a value is written as JSON or CSV, or as a      *)
(* message of HTTP; the text may be cut short on its way, or arrive in     *)
(* pieces; and is read again.  The source of a program is scanned token by *)
(* token; and a program takes a text apart with the calls of its library.  *)
(***************************************************************************)
EXTENDS Lexer, HttpMessages, StringLibrary

CONSTANTS Tasks, SplitLineEnds
(* [do |-> "scan", source], [do |-> "json", value, indent],                *)
(* [do |-> "csv", value (a table), delim, given, names],                   *)
(* [do |-> "read", text, value]: a JSON text written by somebody else,     *)
(* [do |-> "request", url, hint, method, headers, body, host, path], where *)
(* the last two are what the url means,                                    *)
(* [do |-> "response", status, headers, body], or                          *)
(* [do |-> "message", kind, text, value, open]: one written by somebody    *)
(* else; open if the end of the connection is the end of its body,         *)
(* [do |-> "call", text, word, words, by]: calls that look for a word, or  *)
(* for a pattern that matches words.                                       *)
(*                                                                         *)
(* SplitLineEnds says whether a piece may end between a CR and its LF.     *)

VARIABLES
  task,
  stage,      \* "value", "text", "cut", "read", "cut read", "answered"
  text,
  result      \* of reading: [ok, v]

vars == <<lexer, task, stage, text, result>>

Nothing == [ok |-> FALSE, v |-> <<"null">>]

Init ==
  /\ task \in Tasks
  /\ source = (IF task.do = "scan" THEN task.source ELSE <<>>)
  /\ LexerInit
  /\ text = (IF task.do \in {"read", "message"} THEN task.text ELSE <<>>)
  /\ stage = (IF task.do \in {"read", "message"} THEN "text" ELSE "value")
  /\ result = Nothing

ScanToken ==
  /\ task.do = "scan" /\ ~Scanned
  /\ LexerNext
  /\ UNCHANGED <<task, stage, text, result>>

WriteJson ==
  /\ task.do = "json" /\ stage = "value"
  /\ text' = JsonStringify(task.value, task.indent)
  /\ stage' = "text"
  /\ UNCHANGED <<lexer, task, result>>

WriteCsv ==
  /\ task.do = "csv" /\ stage = "value"
  /\ text' = CsvStringify(task.value, task.delim, task.given, task.names)
  /\ stage' = "text"
  /\ UNCHANGED <<lexer, task, result>>

\* Only a beginning of the text arrives.
Cut ==
  /\ task.do \in {"json", "request", "response", "message"} /\ stage = "text"
  /\ \E n \in 0 .. Len(text) - 1 : text' = SubSeq(text, 1, n)
  /\ stage' = "cut"
  /\ UNCHANGED <<lexer, task, result>>

ReadJson ==
  /\ task.do \in {"json", "read"} /\ stage \in {"text", "cut"}
  /\ result' = [ok |-> JsonParse(text).ok, v |-> JsonParse(text).v]
  /\ stage' = IF stage = "cut" THEN "cut read" ELSE "read"
  /\ UNCHANGED <<lexer, task, text>>

\* A table of objects has a line with their names.
Columns == CASE task.given -> task.names
             [] ~task.given /\ task.value # <<>> /\ task.value[1][1] = "object" -> Keys(task.value[1])
             [] OTHER -> <<>>

ReadCsv ==
  /\ task.do = "csv" /\ stage = "text"
  /\ result' = [ok |-> TRUE,
                v |-> <<"array", CsvParse(text, task.delim, Columns # <<>>)>>]
  /\ stage' = "read"
  /\ UNCHANGED <<lexer, task, text>>

\* fetch, up to the connection.
SendRequest ==
  LET url == ParseUrl(task.url) IN
  /\ task.do = "request" /\ stage = "value"
  /\ IF url.ok
     THEN /\ text' = WriteRequest(url, task.hint, task.method, task.headers, task.body)
          /\ stage' = "text"
     ELSE /\ stage' = "read"
          /\ UNCHANGED text
  /\ UNCHANGED <<lexer, task, result>>

SendResponse ==
  /\ task.do = "response" /\ stage = "value"
  /\ text' = WriteResponse(task.status, task.headers, task.body)
  /\ stage' = "text"
  /\ UNCHANGED <<lexer, task, result>>

\* Where the pieces of a text may end that are received one by one: nowhere,
\* everywhere or, of a whole text, once.
Ends == {i \in 1 .. Len(text) - 1 : SplitLineEnds \/ ~StartsAt(text, i, CRLF)}
Pieces == {{}, Ends} \cup (IF stage = "text" THEN {{i} : i \in Ends} ELSE {})

Kind == IF task.do = "message" THEN task.kind ELSE task.do

Receive ==
  /\ task.do \in {"request", "response", "message"} /\ stage \in {"text", "cut"}
  /\ \E cuts \in Pieces :
       LET conn == [bytes |-> text, cuts |-> cuts]
       IN  result' = IF Kind = "request" THEN ReadRequest(conn) ELSE ReadResponse(conn)
  /\ stage' = IF stage = "cut" THEN "cut read" ELSE "read"
  /\ UNCHANGED <<lexer, task, text>>

\* find, split, replace and format.
CallLibrary ==
  /\ task.do = "call" /\ stage = "value"
  /\ result' = [ok |-> TRUE,
                v |-> [found |-> StrStr(task.text, task.word),
                       parts |-> SplitLiteral(task.text, task.word),
                       replaced |-> ReplaceLiteral(task.text, task.word, task.by),
                       matched |-> FindRegex(task.text, task.words),
                       between |-> SplitRegex(task.text, task.words),
                       substituted |-> ReplaceRegex(task.text, task.words, task.by)]]
  /\ stage' = "answered"
  /\ UNCHANGED <<lexer, task, text>>

Next == \/ CallLibrary \/ ScanToken \/ WriteJson \/ WriteCsv \/ Cut \/ ReadJson \/ ReadCsv
        \/ SendRequest \/ SendResponse \/ Receive

Spec == Init /\ [][Next]_vars

----------------------------------------------------------------------------
(* "Functions/natives are serialised as null" (lib/json.h:20).             *)
RECURSIVE Told(_)
Told(v) ==
  CASE v[1] = "function" -> <<"null">>
    [] v[1] = "array" -> <<"array", [i \in DOMAIN v[2] |-> Told(v[2][i])]>>
    [] v[1] = "object" ->
         <<"object", [i \in DOMAIN v[2] |-> <<v[2][i][1], Told(v[2][i][2])>>]>>
    [] OTHER -> v

\* CSV has cells only: a row without any is one with an empty one.
CellsOf(row) == IF row[2] = <<>> THEN <<Text(<<>>)>>
                ELSE [i \in DOMAIN row[2] |-> Text(Cell(row[2][i]))]
NamedCells(row) ==
  [i \in DOMAIN Columns |-> <<Columns[i], Text(IF row[1] = "object" THEN CellNamed(row, Columns[i])
                                              ELSE <<>>)>>]
Table ==
  IF Columns # <<>> THEN [i \in DOMAIN task.value |-> <<"object", NamedCells(task.value[i])>>]
  ELSE LET rows == SelectSeq(task.value, LAMBDA r : r[1] = "array")
       IN  [i \in DOMAIN rows |-> <<"array", CellsOf(rows[i])>>]

(* The headers a program gives reach the other side, without the blanks    *)
(* around them and but for those it gives again; and so do the library's,  *)
(* for those the program does not give.                                    *)
Given(word) == \E i \in DOMAIN task.headers : LowerCase(task.headers[i][1]) = <<word>>
Ours(pairs) == {<<<<p[1]>>, p[2]>> : p \in {q \in pairs : ~Given(q[1])}}
Theirs ==
  HeaderFields([i \in DOMAIN task.headers |->
                  <<LowerCase(task.headers[i][1]), Trimmed(task.headers[i][2])>>])
Length == IF task.body = <<>> /\ task.do = "request" THEN {}
          ELSE {<<CONTENT_LENGTH, Decimal(Len(task.body))>>}

Heard ==
  CASE task.do = "request" ->
         LET mark == FirstOf(task.path, 1, {QUESTION})
         IN  <<"request", task.method, task.path, SubSeq(task.path, 1, mark - 1), From(task.path, mark + 1),
               Tail(Version),
               Ours({<<HOST, task.host>>, <<USER_AGENT, <<CANDO>>>>, <<ACCEPT, <<ANYTHING>>>>,
                     <<CONNECTION, <<CLOSE>>>>} \cup Length) \cup Theirs,
               task.body>>
    [] task.do = "response" ->
         <<"response", task.status,
           Ours({<<CONTENT_TYPE, <<HTML>>>>, <<CONNECTION, <<CLOSE>>>>} \cup Length) \cup Theirs,
           task.body>>
    [] OTHER -> task.value

(* Whatever a value is made of - quotes, line ends, separators, control    *)
(* characters, other bytes - what is written is read as the same value;    *)
(* and so is a JSON text that others have written, with blanks, escapes,   *)
(* surrogate pairs, exponents and repeated names of theirs.  A request is  *)
(* heard as the program has made it, and a response, chunked or not, in    *)
(* whatever pieces they arrive.                                            *)
WrittenIsRead ==
  stage = "read" =>
    CASE task.do = "json" -> result = [ok |-> TRUE, v |-> Told(task.value)]
      [] task.do = "csv"  -> result = [ok |-> TRUE, v |-> <<"array", Table>>]
      [] task.do = "read" -> result = IF task.value = <<"refused">> THEN Nothing
                                      ELSE [ok |-> TRUE, v |-> task.value]
      [] task.do = "request" /\ task.path = <<>> -> result = Nothing
      [] OTHER -> result = [ok |-> TRUE, v |-> Heard]

(* A list or an object that arrives without its end is refused, never      *)
(* taken for a shorter one, and so is a message of HTTP that says where    *)
(* its end is.                                                             *)
PartIsRefused ==
  (stage = "cut read" /\ result.ok) =>
    IF task.do = "json"
    THEN task.value[1] \in {"array", "object"} => text \o <<LF>> = JsonStringify(task.value, task.indent)
    ELSE task.do = "message" /\ task.open

(* A script takes a text apart and puts it together again, with whichever  *)
(* calls.  What split leaves out is what find finds and replace replaces,  *)
(* each of them and no more.                                               *)
WordCallsAgree(s, word, a) ==
  /\ Joined(a.parts, word) = s
  /\ word # <<>> =>
       /\ \A i \in DOMAIN a.parts : StrStr(a.parts[i], word) = NotFound
       /\ a.found = IF Len(a.parts) = 1 THEN NotFound ELSE Len(a.parts[1])
       /\ Joined(a.parts, task.by) = a.replaced

(* So it is with patterns, where split leaves out the empty part behind a  *)
(* match that ends the text.                                               *)
PatternCallsAgree(words, a) ==
  LET whole == Append(a.between, <<>>) IN
  <<>> \notin words =>
    /\ \A i \in DOMAIN a.between : FindRegex(a.between[i], words) = NotFound
    /\ Len(a.between) > 1 => a.matched = Len(a.between[1])
    /\ a.substituted \in {Joined(a.between, task.by), Joined(whole, task.by)}
    /\ words = {task.word} =>
         /\ a.matched = a.found
         /\ a.substituted = a.replaced
         /\ a.parts \in {a.between, whole}

(* The parts that are named by their positions, from either end.           *)
PositionCallsAgree(s) ==
  /\ \A n \in 0 .. Len(s) :
       /\ StrLeft(s, n) \o StrSub(s, n, Len(s)) = s
       /\ StrSub(s, 0, n) \o StrRight(s, Len(s) - n) = s
       /\ n < Len(s) => /\ StrSub(s, 0, n - Len(s)) = StrLeft(s, n)
                        /\ StrChar(s, n - Len(s)) = StrChars(s)[n + 1]
                        /\ StrSub(s, n, n + 1) = StrChar(s, n)
  /\ StrTrim(s \o <<SPACE>>) = StrTrim(s) /\ StrTrim(<<LF>> \o s) = StrTrim(s)
  /\ StrRepeat(s, 3) = s \o s \o s
  /\ StrLower(StrUpper(s)) = StrLower(s)

(* A text with its percent signs doubled is a format of itself.            *)
FormatAgrees(s, word) ==
  /\ StrFormat(ReplaceLiteral(s, <<PERCENT>>, <<PERCENT, PERCENT>>), <<<<"string", word>>>>) = s
  /\ StrFormat(<<PERCENT, 115, PERCENT, 115>>, <<<<"string", s>>, <<"string", word>>>>) = s \o word

CallsAgree ==
  stage = "answered" =>
    /\ WordCallsAgree(task.text, task.word, result.v)
    /\ PatternCallsAgree(task.words, result.v)
    /\ PositionCallsAgree(task.text)
    /\ FormatAgrees(task.text, task.word)
=============================================================================
