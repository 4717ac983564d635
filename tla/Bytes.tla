-------------------------------- MODULE Bytes --------------------------------
(***************************************************************************)
(* Texts as the libraries see them: sequences of bytes.  A position is     *)
(* what the code calls pos, plus one.                                      *)
(***************************************************************************)
EXTENDS Integers, Sequences

TAB == 9   LF == 10   CR == 13   SPACE == 32   QUOTE == 34   HASH == 35
DOLLAR == 36   PERCENT == 37   AMPERSAND == 38   APOSTROPHE == 39
LPAREN == 40   RPAREN == 41   STAR == 42   PLUS == 43   COMMA == 44
MINUS == 45   DOT == 46   SLASH == 47   COLON == 58   SEMICOLON == 59
LESS == 60   EQUALS == 61   GREATER == 62   LBRACKET == 91   BACKSLASH == 92
RBRACKET == 93   CARET == 94   UNDERSCORE == 95   BACKTICK == 96
LBRACE == 123   BAR == 124   RBRACE == 125   TILDE == 126   BANG == 33

Digits  == 48 .. 57
Upper   == 65 .. 90
Lower   == 97 .. 122
Letters == Upper \cup Lower

\* The byte at position i of s, or -1 after its end.
ByteAt(s, i) == IF i <= Len(s) THEN s[i] ELSE -1

StartsAt(s, i, word) ==
  i + Len(word) - 1 <= Len(s) /\ SubSeq(s, i, i + Len(word) - 1) = word

\* The first position from i on that holds none of the bytes of set.
Scan(s, i, set) ==
  CHOOSE j \in i .. Len(s) + 1 :
    /\ \A k \in i .. j - 1 : s[k] \in set
    /\ j > Len(s) \/ s[j] \notin set

\* The first position from i on that holds one of the bytes of set.
Find(s, i, set) == Scan(s, i, (0 .. 255) \ set)

\* What part makes of the elements, with separator between two of them.
RECURSIVE Joined(_, _)
Joined(parts, separator) ==
  CASE parts = <<>> -> <<>>
    [] Len(parts) = 1 -> parts[1]
    [] OTHER -> parts[1] \o separator \o Joined(Tail(parts), separator)

RECURSIVE Decimal(_)
Decimal(n) == CASE n < 0 -> <<MINUS>> \o Decimal(-n)
                [] n \in 0 .. 9 -> <<48 + n>>
                [] OTHER -> Decimal(n \div 10) \o <<48 + (n % 10)>>
=============================================================================
