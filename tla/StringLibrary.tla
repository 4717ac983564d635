---------------------------- MODULE StringLibrary ----------------------------
(***************************************************************************)
(* The calls of the string library (lib/string.c) on texts without a NUL,  *)
(* where the C strings inside end early.  Positions are those of the       *)
(* script: the first byte is at 0, -1 is the last.                         *)
(*                                                                         *)
(* A regular expression is the finite set of the words it matches; regexec *)
(* finds the leftmost of them, and the longest there.                      *)
(***************************************************************************)
EXTENDS Bytes

NotFound == -1

Blanks == {TAB, LF, 11, 12, CR, SPACE}   \* isspace
LeastOf(S) == CHOOSE m \in S : \A n \in S : m <= n
GreatestOf(S) == CHOOSE m \in S : \A n \in S : m >= n

(* The rest of s behind its first n bytes, and the n first.                *)
Behind(s, n) == SubSeq(s, n + 1, Len(s))
First(s, n) == SubSeq(s, 1, n)

----------------------------------------------------------------------------
(* Parts of a text                                                         *)

FromEnd(s, n) == IF n < 0 THEN Len(s) + n ELSE n

StrSub(s, start, end) ==
  LET from == GreatestOf({FromEnd(s, start), 0})
      upto == LeastOf({FromEnd(s, end), Len(s)})
  IN  IF from >= upto THEN <<>> ELSE SubSeq(s, from + 1, upto)

StrChar(s, n) ==
  IF FromEnd(s, n) \in 0 .. Len(s) - 1 THEN <<s[FromEnd(s, n) + 1]>> ELSE <<>>

StrChars(s) == [i \in DOMAIN s |-> <<s[i]>>]

StrLeft(s, n) == First(s, LeastOf({n, Len(s)}))
StrRight(s, n) == Behind(s, Len(s) - LeastOf({n, Len(s)}))

StrTrim(s) ==
  LET solid == {i \in DOMAIN s : s[i] \notin Blanks}
  IN  IF solid = {} THEN <<>> ELSE SubSeq(s, LeastOf(solid), GreatestOf(solid))

StrRepeat(s, n) == [i \in 1 .. n * Len(s) |-> s[((i - 1) % Len(s)) + 1]]

Recased(s, from, by) == [i \in DOMAIN s |-> IF s[i] \in from THEN s[i] + by ELSE s[i]]
StrLower(s) == Recased(s, Upper, 32)
StrUpper(s) == Recased(s, Lower, -32)

StrStartsWith(s, prefix) == StartsAt(s, 1, prefix)
StrEndsWith(s, suffix) == Len(suffix) <= Len(s) /\ StrRight(s, Len(suffix)) = suffix

----------------------------------------------------------------------------
(* Words in a text: no_regex                                               *)

(* strstr: the bytes before the word, or NotFound.                         *)
StrStr(s, word) ==
  LET places == {n \in 0 .. Len(s) : StartsAt(s, n + 1, word)}
  IN  IF places = {} THEN NotFound ELSE LeastOf(places)

\* variant: goes on one byte after the beginning of what was found
RECURSIVE SplitLiteralSlow(_, _)
SplitLiteralSlow(s, word) ==
  IF word = <<>> \/ StrStr(s, word) = NotFound THEN <<s>>
  ELSE <<First(s, StrStr(s, word))>> \o SplitLiteralSlow(Behind(s, StrStr(s, word) + 1), word)

\* The parts between the occurrences; at least one.
RECURSIVE SplitLiteral(_, _)
SplitLiteral(s, word) ==
  IF word = <<>> \/ StrStr(s, word) = NotFound THEN <<s>>
  ELSE <<First(s, StrStr(s, word))>>
         \o SplitLiteral(Behind(s, StrStr(s, word) + Len(word)), word)

\* Every occurrence, from the left.
RECURSIVE ReplaceLiteral(_, _, _)
ReplaceLiteral(s, word, by) ==
  IF word = <<>> \/ StrStr(s, word) = NotFound THEN s
  ELSE First(s, StrStr(s, word)) \o by
         \o ReplaceLiteral(Behind(s, StrStr(s, word) + Len(word)), word, by)

----------------------------------------------------------------------------
(* Regular expressions                                                     *)

(* regexec: where the match begins and ends, rm_so and rm_eo.              *)
RegExec(s, words) ==
  LET begins == {StrStr(s, w) : w \in words} \ {NotFound}
      so == LeastOf(begins)
      fits == {w \in words : StartsAt(s, so + 1, w)}
  IN  IF begins = {} THEN [so |-> NotFound, eo |-> NotFound]
      ELSE [so |-> so, eo |-> so + GreatestOf({Len(w) : w \in fits})]

FindRegex(s, words) == RegExec(s, words).so

(* What is left behind a match of nothing begins one byte later.           *)
RECURSIVE SplitRegex(_, _)
SplitRegex(s, words) ==
  LET m == RegExec(s, words)
      rest == Behind(s, IF m.eo = m.so THEN m.eo + 1 ELSE m.eo)
  IN  IF s = <<>> THEN <<>>
      ELSE IF m.so = NotFound THEN <<s>>
      ELSE <<First(s, m.so)>> \o SplitRegex(rest, words)

(* Here the byte that a match of nothing stands before is kept.            *)
RECURSIVE ReplaceRegex(_, _, _)
ReplaceRegex(s, words, by) ==
  LET m == RegExec(s, words)
      rest == Behind(s, m.eo)
  IN  IF m.so = NotFound THEN s
      ELSE First(s, m.so) \o by
             \o (IF m.eo > m.so THEN ReplaceRegex(rest, words, by)
                 ELSE IF rest = <<>> THEN <<>>
                 ELSE First(rest, 1) \o ReplaceRegex(Behind(rest, 1), words, by))

----------------------------------------------------------------------------
(* format: arguments are texts and decimals; a missing one is nothing, or  *)
(* zero.                                                                   *)

RECURSIVE StrFormat(_, _)
StrFormat(fmt, args) ==
  LET rest == IF args = <<>> THEN <<>> ELSE Tail(args)
      arg(kind, otherwise) == IF args # <<>> /\ args[1][1] = kind THEN args[1][2] ELSE otherwise
  IN  CASE fmt = <<>> -> <<>>
        [] fmt[1] # PERCENT \/ Len(fmt) = 1 -> <<fmt[1]>> \o StrFormat(Tail(fmt), args)
        [] fmt[1] = PERCENT /\ Len(fmt) > 1 ->
             LET after == Behind(fmt, 2) IN
             CASE fmt[2] = 115 -> arg("string", <<>>) \o StrFormat(after, rest)
               [] fmt[2] = 100 -> Decimal(arg("number", 0)) \o StrFormat(after, rest)
               [] fmt[2] = PERCENT -> <<PERCENT>> \o StrFormat(after, args)
               [] OTHER -> <<PERCENT, fmt[2]>> \o StrFormat(after, args)
=============================================================================
