--------------------------------- MODULE Csv ---------------------------------
(***************************************************************************)
(* The CSV reader and writer of source/lib/csv.c.  Values are those of     *)
(* Json; a table is a sequence of them.                                    *)
(***************************************************************************)
EXTENDS Json

ColumnsMax == 4096     \* CSV_MAX_COLS

----------------------------------------------------------------------------
(* Reading                                                                 *)

\* A quoted field from after its opening quote on: "" stands for a quote, the
\* end of the text closes it too.
RECURSIVE QuotedField(_, _, _)
QuotedField(s, i, acc) ==
  CASE i > Len(s) -> Got(Text(acc), i)
    [] i <= Len(s) /\ s[i] # QUOTE -> QuotedField(s, i + 1, Append(acc, s[i]))
    [] OTHER -> IF ByteAt(s, i + 1) = QUOTE THEN QuotedField(s, i + 2, Append(acc, QUOTE))
                ELSE Got(Text(acc), i + 1)

BareField(s, i, end) == Got(Text(SubSeq(s, i, end - 1)), end)

ParseField(s, i, delim) ==
  IF ByteAt(s, i) = QUOTE THEN QuotedField(s, i + 1, <<>>)
  ELSE BareField(s, i, Find(s, i, {delim, CR, LF}))

\* Past one line end: CR, LF or both.  Other text stays where it is.
SkipLineEnd(s, i) ==
  LET j == IF ByteAt(s, i) = CR THEN i + 1 ELSE i
  IN  IF ByteAt(s, j) = LF THEN j + 1 ELSE j

RECURSIVE RowFrom(_, _, _, _)
RowRest(s, field, delim, row) ==
  IF ByteAt(s, field.at) = delim THEN RowFrom(s, field.at + 1, delim, Append(row, field.v))
  ELSE Got(<<"array", Append(row, field.v)>>, SkipLineEnd(s, field.at))
RowFrom(s, i, delim, row) == RowRest(s, ParseField(s, i, delim), delim, row)

ParseRow(s, i, delim) == RowFrom(s, i, delim, <<>>)

\* The row with the names of the header; more cells or names are dropped.
RECURSIVE Named(_, _, _)
Named(header, row, fields) ==
  IF header = <<>> \/ row = <<>> THEN <<"object", fields>>
  ELSE Named(Tail(header), Tail(row), WithField(fields, Head(header)[2], Head(row)))

RECURSIVE RowsFrom(_, _, _, _)
NextRow(s, row, delim, rows) == RowsFrom(s, row.at, delim, Append(rows, row.v))
RowsFrom(s, i, delim, rows) ==
  IF i > Len(s) THEN rows ELSE NextRow(s, ParseRow(s, i, delim), delim, rows)

Headed(rows) == [i \in 1 .. Len(rows) - 1 |-> Named(rows[1][2], rows[i + 1][2], <<>>)]

CsvParse(s, delim, header) ==
  LET rows == RowsFrom(s, 1, delim, <<>>)
  IN  IF header THEN Headed(rows) ELSE rows

----------------------------------------------------------------------------
(* Writing                                                                 *)

Cell(v) == CASE v[1] = "string" -> v[2]
             [] v[1] = "number" -> WriteNumber(v[2], v[3])
             [] v[1] = "bool" -> (CHOOSE l \in Literals : l[2] = v)[1]
             [] OTHER -> <<>>

RECURSIVE Doubled(_)
Doubled(s) == IF s = <<>> THEN <<>>
              ELSE (IF Head(s) = QUOTE THEN <<QUOTE>> ELSE <<>>) \o <<Head(s)>> \o Doubled(Tail(s))

\* Variant: a line end does not make quotes necessary.
WriteFieldLined(cell, delim) ==
  IF \E i \in DOMAIN cell : cell[i] \in {QUOTE, delim}
  THEN <<QUOTE>> \o Doubled(cell) \o <<QUOTE>> ELSE cell

WriteCell(cell, delim) ==
  IF \E i \in DOMAIN cell : cell[i] \in {QUOTE, CR, LF, delim}
  THEN <<QUOTE>> \o Doubled(cell) \o <<QUOTE>> ELSE cell

WriteRow(cells, delim) ==
  Joined([i \in DOMAIN cells |-> WriteCell(cells[i], delim)], <<delim>>) \o <<CR, LF>>

Keys(object) == [i \in DOMAIN object[2] |-> object[2][i][1]]
CellNamed(row, key) ==
  IF \E i \in DOMAIN row[2] : row[2][i][1] = key
  THEN Cell((row[2][CHOOSE i \in DOMAIN row[2] : row[2][i][1] = key])[2])
  ELSE <<>>

\* A row that is no object leaves its cells empty.
ObjectRow(row, keys) ==
  [i \in DOMAIN keys |-> IF row[1] = "object" THEN CellNamed(row, keys[i]) ELSE <<>>]

RECURSIVE WriteRows(_, _)
WriteRows(rows, delim) ==
  IF rows = <<>> THEN <<>> ELSE WriteRow(Head(rows), delim) \o WriteRows(Tail(rows), delim)

ArrayTable(table, delim) ==
  LET arrays == SelectSeq(table, LAMBDA r : r[1] = "array")
  IN  WriteRows([i \in DOMAIN arrays |-> [j \in DOMAIN arrays[i][2] |-> Cell(arrays[i][2][j])]],
                delim)

\* The first line names the columns, unless there are none.
ObjectTable(table, keys, delim, always) ==
  (IF always \/ keys # <<>> THEN WriteRow(keys, delim) ELSE <<>>)
  \o WriteRows([i \in DOMAIN table |-> ObjectRow(table[i], keys)], delim)

Limited(names) == IF Len(names) > ColumnsMax THEN SubSeq(names, 1, ColumnsMax) ELSE names

\* Names given, or those of the first row; an array there means no names.
CsvStringify(table, delim, given, names) ==
  CASE given -> ObjectTable(table, Limited(names), delim, TRUE)
    [] ~given /\ table # <<>> /\ table[1][1] = "object" ->
         ObjectTable(table, Limited(Keys(table[1])), delim, FALSE)
    [] OTHER -> ArrayTable(table, delim)
=============================================================================
