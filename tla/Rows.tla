--------------------------------- MODULE Rows ---------------------------------
(***************************************************************************)
(* A row as the caller reads it: values in text form                       *)
(* (src/resolute/src/decode.rs, range.rs), columns by index and by name    *)
(* (row.rs, query.rs), the structs of the derives                          *)
(* (src/resolute-derive/src/lib.rs), validated literals (newtypes.rs), and *)
(* the columnar results of the JavaScript bindings.                        *)
(***************************************************************************)
EXTENDS Values

Space    == {32, 9, 10}
TrimLeft(s) == LET i == SelectInSeq(s, LAMBDA c : c \notin Space) IN IF i = 0 THEN <<>> ELSE From(s, i)
Trim(s)  == Reverse(TrimLeft(Reverse(TrimLeft(s))))
IsDigit(c)  == c \in 48..57

\* str::parse of an integer of w bytes, of which max is the largest.
ParseInt(s, max) ==
  LET signed == s # <<>> /\ s[1] \in {43, 45}
      d == IF signed THEN Tail(s) ELSE s
      n == FoldLeft(LAMBDA x, c : 10 * x + c - 48, 0, d)
      v == IF signed /\ s[1] = 45 THEN -n ELSE n
  IN IF d = <<>> \/ (\E i \in DOMAIN d : ~IsDigit(d[i])) \/ v \notin (-max - 1)..max THEN None ELSE <<v>>

DecodeTextBool(s) ==
  IF s \in {<<116>>, <<116, 114, 117, 101>>, <<49>>} THEN <<TRUE>>                  \* t true 1
  ELSE IF s \in {<<102>>, <<102, 97, 108, 115, 101>>, <<48>>} THEN <<FALSE>>        \* f false 0
  ELSE None

Infinity == <<105, 110, 102, 105, 110, 105, 116, 121>>
DecodeTextSentinel(s, max) ==
  IF s = Infinity THEN <<<<"infinity">>>>
  ELSE IF s = <<45>> \o Infinity THEN <<<<"-infinity">>>>
  ELSE Then(ParseInt(s, max), LAMBDA n : <<<<"value", n>>>>)

\* bytea: two hexadecimal digits an octet after \x, or the octets as they are.  A sign may
\* stand for the first; a digit that is left over is sliced past the end.
Hex(c) == CASE IsDigit(c) -> c - 48 [] c \in 97..102 -> c - 87 [] c \in 65..70 -> c - 55 [] OTHER -> -1
Octet(a, b) ==
  IF Hex(b) = -1 \/ (Hex(a) = -1 /\ a # 43) THEN None ELSE <<(IF a = 43 THEN 0 ELSE 16 * Hex(a)) + Hex(b)>>
DecodeTextBytea(s) ==
  LET h == From(s, 3)
      octets == [i \in 1..(Len(h) \div 2) |-> Octet(h[2 * i - 1], h[2 * i])]
  IN IF ~IsPrefix(<<92, 120>>, s) THEN <<s>>
     ELSE All(octets \o (IF Len(h) % 2 = 1 THEN <<Panic>> ELSE <<>>))

\* The characters of a quoted element up to its closing quote, and the index after it.
RECURSIVE Unquote(_, _, _)
Unquote(s, i, has) ==
  IF i > Len(s) THEN None
  ELSE IF s[i] = 92 THEN Unquote(s, i + 2, IF i < Len(s) THEN Append(has, s[i + 1]) ELSE has)
  ELSE IF s[i] = 34 THEN <<has, i + 1>>
  ELSE Unquote(s, i + 1, Append(has, s[i]))

NullText == <<78, 85, 76, 76>>

\* A bare element: up to the comma.
UpToComma(t) ==
  LET e == SelectInSeq(t, LAMBDA c : c = 44) IN IF e = 0 THEN t ELSE SubSeq(t, 1, e - 1)
Bare(text, after) == IF text = NullText THEN None ELSE <<text, after>>

\* The element at the beginning of t, and the index after it.
Element(t) ==
  IF t[1] = 34 THEN Unquote(t, 2, <<>>) ELSE Bare(Trim(UpToComma(t)), Len(UpToComma(t)) + 1)
PastComma(t, i) == IF i <= Len(t) /\ t[i] = 44 THEN From(t, i + 1) ELSE From(t, i)

\* parse_pg_text_array from an element on.
RECURSIVE Elements(_, _)
Elements(s, has) ==
  LET skip == SelectInSeq(s, LAMBDA c : c # 32)
      More(t, e) == IF e = None THEN None ELSE Elements(PastComma(t, e[2]), Append(has, e[1]))
  IN IF skip = 0 THEN <<has>> ELSE More(From(s, skip), Element(From(s, skip)))
Braced(s) ==
  IF s = <<>> \/ s[1] # 123 \/ Last(s) # 125 THEN None
  ELSE IF Trim(SubSeq(s, 2, Len(s) - 1)) = <<>> THEN <<<<>>>>
  ELSE Elements(SubSeq(s, 2, Len(s) - 1), <<>>)
ParsePgTextArray(text) == Braced(Trim(text))

\* A value of a type from its text: below, over all kinds.
RECURSIVE DecodeText(_, _)

\* The text of a range: brackets, a comma, and the bounds that are there.
DecodeTextRange(T, text) ==
  LET Bound(b) == IF b = <<>> THEN <<Null>> ELSE DecodeText(T, b)
      Within(s, inner, comma) ==
        IF s = <<101, 109, 112, 116, 121>> THEN <<EmptyRange>>
        ELSE IF Len(s) < 3 \/ comma = 0 THEN None
        ELSE RangeOf(<<s[1] = 91, Last(s) = 93>>, Bound(SubSeq(inner, 1, comma - 1)), Bound(From(inner, comma + 1)))
      Inner(s, inner) == Within(s, inner, SelectInSeq(inner, LAMBDA c : c = 44))
      Whole(s) == Inner(s, SubSeq(s, 2, Len(s) - 1))
  IN Whole(Trim(text))

IntMax == [int2 |-> Max16, int4 |-> Max32, int8 |-> Max64]

DecodeText(T, s) ==
  CASE T.k \in DOMAIN IntMax -> ParseInt(s, IntMax[T.k])
    [] T.k = "bool"      -> DecodeTextBool(s)
    [] T.k \in {"text", "numeric", "inet"} -> <<s>>
    [] T.k = "bytea"     -> DecodeTextBytea(s)
    [] T.k = "timestamp" -> DecodeTextSentinel(s, Max64)
    [] T.k = "pgdate"    -> DecodeTextSentinel(s, Max32)
    [] T.k = "array"     -> Then(ParsePgTextArray(s), LAMBDA es : All([i \in DOMAIN es |-> DecodeText(T.of, es[i])]))
    [] T.k = "range"     -> DecodeTextRange(T.of, s)
    [] T.k = "labels"    -> DecodeLabel(T, s)
    [] T.k = "numbers"   -> Then(ParseInt(s, IntMax[T.of.k]), LAMBDA n : DecodeDiscriminant(T, n))
    [] T.k = "composite" -> None
    [] T.k = "domain"    -> DecodeText(T.of, s)

-----------------------------------------------------------------------------
(* Columns.                                                                *)

\* build_row_schema: without a description every column of the first row is binary.
BuildRowSchema(fields, rows) ==
  IF fields # <<>> THEN [columns |-> [i \in DOMAIN fields |-> fields[i][1]],
                         formats |-> [i \in DOMAIN fields |-> fields[i][3]]]
  ELSE [columns |-> <<>>, formats |-> IF rows = <<>> THEN <<>> ELSE [i \in 1..rows[1].len |-> 1]]

DecodeCell(schema, T, i, cell) ==
  IF i \in DOMAIN schema.formats /\ schema.formats[i] = 1 THEN Decode(T, cell)
  ELSE IF Bad(cell) THEN None ELSE DecodeText(T, cell)

Get(row, T, i) ==
  LET c == TryCell(row.data, i)
  IN IF c = None \/ c = <<Null>> THEN None ELSE DecodeCell(row.schema, T, i, c[1])
GetOpt(row, T, i) ==
  LET c == TryCell(row.data, i)
  IN IF c = None THEN None ELSE IF c = <<Null>> THEN <<Null>> ELSE DecodeCell(row.schema, T, i, c[1])

ColumnIndex(row, n)    == SelectInSeq(row.schema.columns, LAMBDA c : c = n)
GetByName(row, T, n)   == IF ColumnIndex(row, n) = 0 THEN None ELSE Get(row, T, ColumnIndex(row, n))
GetOptByName(row, T, n) == IF ColumnIndex(row, n) = 0 THEN None ELSE GetOpt(row, T, ColumnIndex(row, n))

\* The TryFrom of the field's type: an unsigned integer, say.
Convert(v) == IF v < 0 THEN None ELSE <<v>>

Converted(attr, r) ==
  IF attr \notin {"try_from", "json"} \/ Stopped(r) \/ r = <<Null>> THEN r ELSE Convert(r[1])

\* No column of this name, or NULL in it.
Absent(row, n) ==
  ColumnIndex(row, n) = 0 \/ TryCell(row.data, ColumnIndex(row, n)) = <<Null>>

\* What FromRow generates for a field.  Null stands for None, and for the default of any type.
RECURSIVE FromRow(_, _)
FromRow(row, fields) ==
  LET Extract(f) ==
        IF f.attr = "skip" \/ (f.attr = "default" /\ Absent(row, f.name)) THEN <<Null>>
        ELSE IF f.attr = "flatten" THEN FromRow(row, f.fields)
        ELSE Converted(f.attr, IF f.option THEN GetOptByName(row, f.type, f.name)
                               ELSE GetByName(row, f.type, f.name))
  IN All([i \in DOMAIN fields |-> Extract(fields[i])])

-----------------------------------------------------------------------------
(* Literals that are validated.                                            *)

\* What else than digits numeric takes: NaN, Infinity, -Infinity.
Specials == {<<78, 97, 78>>, <<73>> \o Tail(Infinity), <<45, 73>> \o Tail(Infinity)}

\* The index after the digits that begin at i, if any.
DigitsEnd(s, i) ==
  LET k == SelectInSeq(From(s, i), LAMBDA c : ~IsDigit(c)) IN IF k = 0 THEN Len(s) + 1 ELSE i + k - 1
NumericTryFrom(text) ==
  LET s == Trim(text)
      start == IF s # <<>> /\ s[1] \in {43, 45} THEN 2 ELSE 1
      whole == DigitsEnd(s, start)
      point == IF whole <= Len(s) /\ s[whole] = 46 THEN DigitsEnd(s, whole + 1) ELSE whole
      e     == point <= Len(s) /\ s[point] \in {69, 101}
      es    == IF e /\ point < Len(s) /\ s[point + 1] \in {43, 45} THEN point + 2 ELSE point + 1
      end   == IF e THEN DigitsEnd(s, es) ELSE point
  IN IF s = <<>> THEN None
     ELSE IF s \in Specials THEN <<s>>
     ELSE IF point = start \/ (point = start + 1 /\ s[start] = 46) \/ (e /\ end = es) \/ end # Len(s) + 1 THEN None
     ELSE <<s>>

\* An address, and how long a prefix it is given: at most 32 in v4 and 128 in v6.
InetTryFrom(v, prefix) == IF prefix # None /\ (prefix[1] > 128 \/ (v = 4 /\ prefix[1] > 32)) THEN None ELSE <<prefix>>

-----------------------------------------------------------------------------
(* Columnar results.                                                       *)


\* rows_to_columnar: all the text, where each cell ends, and a bit for each NULL.
RowsToColumnar(rows) ==
  LET cells == FlattenSeq([i \in DOMAIN rows |-> RowCells(rows[i])])
      size(i) == IF cells[i] = Null THEN 0 ELSE Len(cells[i])
      bit(i)  == IF i <= Len(cells) /\ cells[i] = Null THEN 2 ^ ((i - 1) % 8) ELSE 0
  IN [data    |-> FlattenSeq([i \in DOMAIN cells |-> IF cells[i] = Null THEN <<>> ELSE cells[i]]),
      offsets |-> [i \in 1..(Len(cells) + 1) |-> Sum([j \in 1..(i - 1) |-> size(j)])],
      nulls   |-> [b \in 1..((Len(cells) + 7) \div 8) |-> Sum([k \in 1..8 |-> bit(8 * (b - 1) + k)])]]

\* columnarCell: the cell of a row and a column, both from 0.
ColumnarCell(c, cols, row, col) ==
  LET idx == row * cols + col
  IN IF (c.nulls[idx \div 8 + 1] \div 2 ^ (idx % 8)) % 2 = 1 THEN Null
     ELSE SubSeq(c.data, c.offsets[idx + 1] + 1, c.offsets[idx + 2])
=============================================================================
