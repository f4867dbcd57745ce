-------------------------------- MODULE Codec --------------------------------
(***************************************************************************)
(* Messages as bytes: the parser of the server's messages, the encoder of  *)
(* the client's, and the rows of a result (src/pg-wired/src/protocol/).    *)
(*                                                                         *)
(* Bytes are abstracted to units: an integer of any width is one unit, and *)
(* a string has one unit for each character, none of them 0, and the unit  *)
(* BadByte where it is not UTF-8.  An offset or a length counts units, so  *)
(* a check of 4 bytes is a check of one integer.                           *)
(*                                                                         *)
(* A parser gives a sequence with what it has parsed, or the empty one if  *)
(* it fails.                                                               *)
(***************************************************************************)
EXTENDS Integers, Sequences, SequencesExt

CONSTANTS
  MaxMessage,   \* MAX_MESSAGE_SIZE
  InlineCap,    \* CELL_INLINE_CAP
  BadByte,      \* a byte that no UTF-8 text has
  Null          \* SQL NULL

ASSUME InlineCapAssumption == InlineCap \in Nat

None == <<>>
From(s, i) == SubSeq(s, i, Len(s))

\* split_cstring: up to the first 0, or all there is.
CString(b) ==
  IF Contains(b, 0) THEN LET p == SelectInSeq(b, LAMBDA u : u = 0)
                         IN [str |-> SubSeq(b, 1, p - 1), rest |-> From(b, p + 1)]
  ELSE [str |-> b, rest |-> <<>>]

Text(strs, msg) == IF \E i \in DOMAIN strs : Contains(strs[i], BadByte) THEN None ELSE <<msg>>
Lossy(s) == [i \in DOMAIN s |-> IF s[i] = BadByte THEN 63 ELSE s[i]]

-----------------------------------------------------------------------------
(* The bodies of the server's messages.                                    *)

\* A loop of at most count steps: st is where it is, what it has, and whether it goes on.
Loop(count, Step(_), at) ==
  LET first == [ok |-> TRUE, at |-> at, has |-> <<>>]
      st[i \in 0..count] == IF i = 0 THEN first ELSE LET last == st[i - 1] IN IF last.ok THEN Step(last) ELSE last
  IN IF count < 1 THEN first ELSE st[count]
Stop(st) == [st EXCEPT !.ok = FALSE]

\* The strings up to the empty one, or up to the end.
Mechanisms(b) ==
  LET Step(st) ==
        LET name == CString(From(b, st.at)).str
        IN IF st.at > Len(b) \/ name = <<>> THEN Stop(st)
           ELSE [ok |-> TRUE, at |-> st.at + Len(name) + 1, has |-> Append(st.has, name)]
  IN Loop(Len(b), Step, 1).has

ParseAuth(b) ==
  IF b = <<>> THEN None
  ELSE CASE b[1] \in {0, 3}   -> <<<<"R", b[1]>>>>
         [] b[1] = 5          -> IF Len(b) < 2 THEN None ELSE <<<<"R", 5, b[2]>>>>
         [] b[1] = 10         -> Text(Mechanisms(Tail(b)), <<"R", 10, Mechanisms(Tail(b))>>)
         [] b[1] \in {11, 12} -> <<<<"R", b[1], Tail(b)>>>>
         [] OTHER             -> None

ParseParameterStatus(b) ==
  LET name == CString(b)  value == CString(name.rest)
  IN Text(<<name.str, value.str>>, <<"S", name.str, value.str>>)

ParseBackendKeyData(b) == IF Len(b) < 2 THEN None ELSE <<<<"K", b[1], b[2]>>>>
ParseReady(b)          == IF b = <<>> THEN None ELSE <<<<"Z", b[1]>>>>
ParseCommandComplete(b) == Text(<<CString(b).str>>, <<"C", CString(b).str>>)

\* read_cell_entry: the offset of the cell and its length, -1 for NULL.
ReadCellEntry(b, st) ==
  LET len == b[st.at]
      end == st.at + 1 + len
      Cell(at, cell) == [ok |-> TRUE, at |-> at, has |-> Append(st.has, cell)]
  IN IF st.at > Len(b) THEN Stop(st)
     ELSE IF len = -1 THEN Cell(st.at + 1, <<0, -1>>)
     ELSE IF len < 0 \/ end - 1 > Len(b) THEN Stop(st)
     ELSE Cell(end, <<st.at + 1, len>>)

\* RawRow: up to InlineCap cells are kept in an array of that size, and their number.
FromEntries(b, cells) ==
  IF Len(cells) <= InlineCap
  THEN [body |-> b, len |-> Len(cells), data |-> cells \o [i \in 1..(InlineCap - Len(cells)) |-> <<0, 0>>]]
  ELSE [body |-> b, len |-> Len(cells), data |-> cells]
Entries(row) == SubSeq(row.data, 1, row.len)

\* try_cell: nothing out of range, NULL, or the bytes.
TryCell(row, i) ==
  IF i \notin DOMAIN Entries(row) THEN None
  ELSE LET c == Entries(row)[i]
       IN IF c[2] < 0 THEN <<Null>> ELSE <<SubSeq(row.body, c[1], c[1] + c[2] - 1)>>
RowCells(row) == [i \in 1..row.len |-> TryCell(row, i)[1]]

ParseDataRow(b) ==
  IF b = <<>> \/ b[1] < 0 THEN None
  ELSE LET st == Loop(b[1], LAMBDA st : ReadCellEntry(b, st), 2)
       IN IF st.ok THEN <<<<"D", FromEntries(b, st.has)>>>> ELSE None

\* A field has a name and six integers, the last of them its format.
ReadField(b, st) ==
  LET name == CString(From(b, st.at)).str
      at   == st.at + Len(name) + 1
  IN IF st.at > Len(b) \/ at + 5 > Len(b) \/ Contains(name, BadByte) THEN Stop(st)
     ELSE [ok |-> TRUE, at |-> at + 6,
           has |-> Append(st.has, <<name, SubSeq(b, at, at + 4), IF b[at + 5] = 1 THEN 1 ELSE 0>>)]

ParseRowDescription(b) ==
  IF b = <<>> \/ b[1] < 0 THEN None
  ELSE LET st == Loop(b[1], LAMBDA st : ReadField(b, st), 2)
       IN IF st.ok THEN <<<<"T", st.has>>>> ELSE None

ParseParameterDescription(b) ==
  IF b = <<>> \/ b[1] < 0 \/ Len(b) < 1 + b[1] THEN None
  ELSE <<<<"t", SubSeq(b, 2, 1 + b[1])>>>>

ParseNotification(b) ==
  IF b = <<>> THEN None
  ELSE LET channel == CString(Tail(b))  payload == CString(channel.rest)
       IN Text(<<channel.str, payload.str>>, <<"A", b[1], channel.str, payload.str>>)

ParseCopyResponse(tag, b) ==
  IF Len(b) < 2 \/ b[2] < 0 \/ Len(b) < 2 + b[2] THEN None
  ELSE <<<<tag, b[1], SubSeq(b, 3, 2 + b[2])>>>>

\* The fields of an error that are kept, by their letters; what is not text is replaced.
ErrorLetters == {83, 67, 77, 68, 72, 80}
ErrorFields(b) ==
  LET Step(st) ==
        LET value == CString(From(b, st.at + 1)).str
        IN IF st.at >= Len(b) \/ b[st.at] = 0 THEN Stop(st)
           ELSE [ok |-> TRUE, at |-> st.at + Len(value) + 2,
                 has |-> IF b[st.at] \in ErrorLetters THEN Append(st.has, <<b[st.at], Lossy(value)>>) ELSE st.has]
  IN Loop(Len(b), Step, 1).has
ParseErrorOrNotice(tag, b) == <<<<tag, ErrorFields(b)>>>>

Empty == {"1", "2", "3", "n", "I", "s", "c"}

ParseBody(tag, b) ==
  CASE tag = "R" -> ParseAuth(b)
    [] tag = "S" -> ParseParameterStatus(b)
    [] tag = "K" -> ParseBackendKeyData(b)
    [] tag = "Z" -> ParseReady(b)
    [] tag \in Empty -> <<<<tag>>>>
    [] tag = "C" -> ParseCommandComplete(b)
    [] tag = "D" -> ParseDataRow(b)
    [] tag = "T" -> ParseRowDescription(b)
    [] tag \in {"E", "N"} -> ParseErrorOrNotice(tag, b)
    [] tag = "A" -> ParseNotification(b)
    [] tag = "t" -> ParseParameterDescription(b)
    [] tag \in {"G", "H"} -> ParseCopyResponse(tag, b)
    [] tag = "d" -> <<<<"d", b>>>>

Tags == Empty \cup {"R", "S", "K", "Z", "C", "D", "T", "E", "N", "A", "t", "G", "H", "d"}

-----------------------------------------------------------------------------
(* The client's messages: tag, length, body.  The length is worked out     *)
(* before the body is put into the buffer.                                 *)

Sum(ns) == LET sum[i \in 0..Len(ns)] == IF i = 0 THEN 0 ELSE sum[i - 1] + ns[i] IN sum[Len(ns)]
Z(s)    == Append(s, 0)

EncodeParse(name, sql, oids) ==
  <<"P", 1 + Len(name) + 1 + Len(sql) + 1 + 1 + Len(oids)>> \o Z(name) \o Z(sql) \o <<Len(oids)>> \o oids

\* Values, one after the other: the length of each, or -1, and its bytes.
CellBytes(cells) ==
  FlattenSeq([i \in DOMAIN cells |-> IF cells[i] = Null THEN <<-1>> ELSE <<Len(cells[i])>> \o cells[i]])

EncodeBind(portal, stmt, fmts, params, results) ==
  LET Size(p) == IF p = Null THEN 1 ELSE 1 + Len(p)
  IN <<"B", 1 + Len(portal) + 1 + Len(stmt) + 1 + 1 + Len(fmts) + 1
            + Sum([i \in DOMAIN params |-> Size(params[i])]) + 1 + Len(results)>>
     \o Z(portal) \o Z(stmt) \o <<Len(fmts)>> \o fmts
     \o <<Len(params)>> \o CellBytes(params)
     \o <<Len(results)>> \o results

EncodeExecute(portal, max)   == <<"E", 1 + Len(portal) + 1 + 1>> \o Z(portal) \o <<max>>
EncodeEmpty(tag)             == <<tag, 1>>                            \* Sync, Flush, CopyDone, Terminate
EncodeString(tag, s)         == <<tag, 1 + Len(s) + 1>> \o Z(s)       \* Query, CopyFail, password
EncodeKind(tag, kind, name)  == <<tag, 1 + 1 + Len(name) + 1, kind>> \o Z(name)   \* Describe, Close
EncodeInitial(mech, data)    == <<"p", 1 + Len(mech) + 1 + 1 + Len(data)>> \o Z(mech) \o <<Len(data)>> \o data
EncodeBytes(tag, data)       == <<tag, 1 + Len(data)>> \o data        \* SASLResponse, CopyData

\* The startup message has no tag; pairs of strings end with an empty one.
EncodeStartup(user, database, extra) ==
  LET body == <<3>> \o FlattenSeq([i \in 1..(2 + Len(extra)) |->
                IF i = 1 THEN Z(<<117>>) \o Z(user) ELSE IF i = 2 THEN Z(<<100>>) \o Z(database)
                ELSE Z(extra[i - 2][1]) \o Z(extra[i - 2][2])]) \o <<0>>
  IN <<1 + Len(body)>> \o body
=============================================================================
