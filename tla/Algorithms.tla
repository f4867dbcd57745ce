------------------------------ MODULE Algorithms ------------------------------
(***************************************************************************)
(* The pure parts against what they are meant to compute: messages and     *)
(* frames (Codec), values and columns (Values, Rows), texts (SqlText), the *)
(* arguments of the macros (QueryInput), dates (Calendar).                 *)
(*                                                                         *)
(* A task is an input, made from what it means, so that it says what is to *)
(* be found in it.  Two tasks take steps: the stream of the server's       *)
(* messages (Framing), and the builds and the commands that share the      *)
(* files of checked queries (Metadata).                                    *)
(***************************************************************************)
EXTENDS Framing, Metadata, Rows, QueryInput, Calendar

VARIABLE task     \* what is given, by its kind

algorithmVars == <<task, framingVars, metadataVars>>

-----------------------------------------------------------------------------
(* The server: what it sends for a message, and what it makes of a frame   *)
(* that it receives.                                                       *)

Strings(ss)  == FlattenSeq([i \in DOMAIN ss |-> Z(ss[i])])
Cell(c)      == IF c = Null THEN <<-1>> ELSE <<Len(c)>> \o c
Cells(cs)    == FlattenSeq([i \in DOMAIN cs |-> Cell(cs[i])])

ServerBody(m) ==
  CASE m[1] = "R" -> IF m[2] = 10 THEN <<10>> \o Strings(m[3]) \o <<0>>
                     ELSE IF m[2] = 11 THEN <<11>> \o m[3] ELSE Tail(m)
    [] m[1] = "S" -> Strings(<<m[2], m[3]>>)
    [] m[1] \in {"K", "Z"} -> Tail(m)
    [] m[1] \in Empty -> <<>>
    [] m[1] = "C" -> Z(m[2])
    [] m[1] = "D" -> <<Len(m[2])>> \o Cells(m[2])
    [] m[1] = "T" -> <<Len(m[2])>> \o FlattenSeq([i \in DOMAIN m[2] |-> Z(m[2][i][1]) \o m[2][i][2] \o <<m[2][i][3]>>])
    [] m[1] \in {"E", "N"} -> FlattenSeq([i \in DOMAIN m[2] |-> <<m[2][i][1]>> \o Z(m[2][i][2])]) \o <<0>>
    [] m[1] = "A" -> <<m[2]>> \o Strings(<<m[3], m[4]>>)
    [] m[1] = "t" -> <<Len(m[2])>> \o m[2]
    [] m[1] \in {"G", "H"} -> <<m[2], Len(m[3])>> \o m[3]
    [] m[1] = "d" -> m[2]
Shown(m) == IF m[1] = "D" THEN <<"D", RowCells(m[2])>> ELSE m

Sends(m) ==
  CASE m[1] = "P" -> EncodeParse(m[2], m[3], m[4])
    [] m[1] = "B" -> EncodeBind(m[2], m[3], m[4], m[5], m[6])
    [] m[1] = "E" -> EncodeExecute(m[2], m[3])
    [] m[1] \in {"S", "H", "c", "X"} -> EncodeEmpty(m[1])
    [] m[1] \in {"Q", "f"} -> EncodeString(m[1], m[2])
    [] m[1] \in {"D", "C"} -> EncodeKind(m[1], m[2], m[3])
    [] m[1] = "p" -> EncodeInitial(m[2], m[3])
    [] m[1] = "d" -> EncodeBytes("d", m[2])

RECURSIVE TakeCells(_, _)
TakeCells(b, n) ==
  IF n = 0 \/ b = <<>> THEN <<<<>>, b>>
  ELSE LET k == IF b[1] < 0 THEN 0 ELSE b[1]
           more == TakeCells(From(b, k + 2), n - 1)
       IN <<<<IF b[1] < 0 THEN Null ELSE SubSeq(b, 2, k + 1)>> \o more[1], more[2]>>
Counted(b) == IF b # <<>> /\ b[1] = Len(b) - 1 THEN Tail(b) ELSE <<-1>>

ServerTakes(tag, b) ==
  LET s1 == CString(b)  s2 == CString(s1.rest)  n == s2.rest[1]
      vs == TakeCells(From(s2.rest, n + 3), s2.rest[n + 2])
  IN CASE tag = "P" -> <<tag, s1.str, s2.str, Counted(s2.rest)>>
       [] tag = "B" -> <<tag, s1.str, s2.str, SubSeq(s2.rest, 2, n + 1), vs[1], Counted(vs[2])>>
       [] tag = "E" -> <<tag, s1.str, s1.rest[1]>>
       [] tag \in {"S", "H", "c", "X"} -> <<tag>>
       [] tag \in {"Q", "f"} -> <<tag, s1.str>>
       [] tag \in {"D", "C"} -> <<tag, b[1], CString(Tail(b)).str>>
       [] tag = "p" -> <<tag, s1.str, Counted(s1.rest)>>
       [] tag = "d" -> <<tag, b>>
RECURSIVE ServerReads(_)
ServerReads(b) ==
  IF b = <<>> THEN <<>> ELSE <<ServerTakes(b[1], SubSeq(b, 3, 1 + b[2]))>> \o ServerReads(From(b, 2 + b[2]))

\* The messages there are, each with what its parser tells apart.
ServerMessages == <<
  <<"R", 0>>, <<"R", 5, 77>>, <<"R", 10, <<<<65, 66>>, <<66>>>>>>, <<"R", 11, <<9, 0>>>>,
  <<"S", <<97>>, <<>>>>, <<"K", 5, 6>>, <<"Z", 73>>, <<"1">>, <<"C", <<83, 49>>>>,
  <<"D", <<>>>>, <<"D", <<<<7>>, Null, <<>>, <<0, 8>>>>>>,
  <<"T", <<<<<<97>>, <<1, 2, 23, 4, -1>>, 1>>, <<<<>>, <<0, 0, 25, -1, -1>>, 0>>>>>>,
  <<"E", <<<<83, <<70>>>>, <<67, <<52, 50>>>>, <<77, <<109>>>>>>>>, <<"A", 3, <<99>>, <<112, 113>>>>,
  <<"t", <<23, 25>>>>, <<"G", 0, <<0, 1>>>>, <<"d", <<0, 1, 2>>>>, <<"d", <<>>>> >>

\* The frames of the stream: some of these, one of a kind that nobody knows, one that ends too
\* early, one that is longer than any message may be.
FrameOf(m) == [tag |-> m[1], body |-> ServerBody(m)]
ServerFrames ==
  {FrameOf(ServerMessages[i]) : i \in {2, 5, 7, 8, 11, 12, 13, 18}} \cup
  {[tag |-> "v", body |-> <<7>>], [tag |-> "K", body |-> <<5>>], [tag |-> "d", body |-> [i \in 1..MaxMessage |-> 0]]}

ClientMessages == <<
  <<"P", <<115>>, <<81, 49>>, <<23, 0>>>>, <<"P", <<>>, <<81>>, <<>>>>,
  <<"B", <<>>, <<115>>, <<1>>, <<<<0, 7>>, Null, <<>>>>, <<1>>>>, <<"B", <<112>>, <<>>, <<>>, <<>>, <<>>>>,
  <<"E", <<>>, 0>>, <<"S">>, <<"Q", <<81>>>>, <<"D", 83, <<115>>>>, <<"C", 80, <<>>>>,
  <<"p", <<77>>, <<1, 2>>>>, <<"d", <<0, 9>>>>, <<"f", <<>>>> >>

-----------------------------------------------------------------------------
(* Values, and what the server sends for them.                             *)

\* numeric: the digits before and after the point in groups of four, without the groups
\* that are 0 at both ends.
Number(ds) == FoldLeft(LAMBDA x, c : 10 * x + c - 48, 0, ds)
ServerNumeric(neg, whole, frac) ==
  LET w  == (Len(whole) + 3) \div 4
      ds == Zeros(4 * w - Len(whole)) \o whole \o frac \o Zeros((4 - (Len(frac) % 4)) % 4)
      gs == [i \in 1..(Len(ds) \div 4) |-> Number(SubSeq(ds, 4 * i - 3, 4 * i))]
      ones == {i \in DOMAIN gs : gs[i] # 0}
      a  == CHOOSE i \in ones : \A j \in ones : i <= j
      z  == CHOOSE i \in ones : \A j \in ones : j <= i
  IN IF ones = {} THEN Put(2, 0) \o Put(2, 0) \o Put(2, 0) \o Put(2, Len(frac))
     ELSE Put(2, z - a + 1) \o Put(2, w - a) \o Put(2, IF neg THEN 16384 ELSE 0) \o Put(2, Len(frac))
          \o FlattenSeq([i \in 1..(z - a + 1) |-> Put(2, gs[a + i - 1])])
NumericText(neg, whole, frac) ==
  (IF neg /\ \E c \in {49, 50, 51, 52, 53, 57} : Contains(whole \o frac, c) THEN <<45>> ELSE <<>>) \o whole \o (IF frac = <<>> THEN <<>> ELSE <<46>> \o frac)

\* The text of an element of an array: quoted when it has to be.
ArrayElement(e) ==
  IF e = <<>> \/ e = NullText \/ \E i \in DOMAIN e : e[i] \in {32, 34, 44, 92, 123, 125}
  THEN <<34>> \o FlattenSeq([i \in DOMAIN e |-> IF e[i] \in {34, 92} THEN <<92, e[i]>> ELSE <<e[i]>>]) \o <<34>>
  ELSE e
Joined(es, c) == FlattenSeq([i \in DOMAIN es |-> IF i = 1 THEN es[i] ELSE <<c>> \o es[i]])
IntText(n) == IF n < 0 THEN <<45>> \o Dec(-n) ELSE Dec(n)

Is(k)  == [k |-> k]
Of(k, T) == [k |-> k, of |-> T]
Word1  == <<65, 98>>                    \* Ab
Enum   == [k |-> "labels", rule |-> "snake_case",
           variants |-> <<[ident |-> Word1, rename |-> None], [ident |-> Word1 \o Word1, rename |-> None],
                          [ident |-> Word1, rename |-> <<120>>]>>]
Comp   == [k |-> "composite", fields |-> <<[type |-> Is("int4"), option |-> FALSE], [type |-> Is("text"), option |-> TRUE]>>]
Range4(l, u, a, b) == [empty |-> FALSE, lower |-> l, upper |-> u, incs |-> <<a, b>>]

\* A type and a value of it.
Samples == <<
  <<Is("bool"), TRUE>>, <<Is("int2"), -3>>, <<Is("int4"), Max32>>, <<Is("int8"), -Max64 - 1>>, <<Is("float8"), 5>>,
  <<Is("text"), <<97, 44>>>>, <<Is("bytea"), <<0, 255>>>>, <<Is("json"), <<49>>>>, <<Is("uuid"), [i \in 1..16 |-> i]>>,
  <<Is("timestamp"), <<"infinity">>>>, <<Is("timestamp"), <<"-infinity">>>>, <<Is("timestamp"), <<"value", Max64 - 1>>>>,
  <<Is("pgdate"), <<"infinity">>>>, <<Is("pgdate"), <<"value", -Max32>>>>, <<Is("datetime"), -Chrono>>,
  <<Is("datetime"), Chrono>>, <<Is("date"), Chrono>>, <<Is("time"), [secs |-> Day - 1, us |-> Second - 1]>>,
  <<Of("array", Is("int4")), <<1, -1>>>>, <<Of("array", Is("text")), <<<<>>, <<97>>>>>>, <<Of("array", Is("bool")), <<>>>>,
  <<Of("range", Is("int4")), EmptyRange>>, <<Of("range", Is("int4")), Range4(1, Null, TRUE, FALSE)>>,
  <<Of("range", Is("int8")), Range4(-1, 5, FALSE, TRUE)>>, <<Comp, <<4, <<97>>>>>>, <<Comp, <<4, Null>>>>,
  <<Enum, 1>>, <<Enum, 2>>, <<Enum, 3>>, <<[k |-> "numbers", of |-> Is("int2"), variants |-> <<4, 7>>], 2>>,
  <<Of("domain", Of("array", Is("int2"))), <<9>>>> >>

\* The bytes of these end where they end: no beginning of them is a value.
Bounded(T) == T.k \notin {"text", "bytea", "json", "labels"}

\* A type, and what the server may send but the type cannot hold; or what the client itself
\* writes for it, text where the bytes of numeric and inet are read; a length below all that came.
Refused == <<
  <<Is("int4"), Put(2, 1)>>, <<Is("datetime"), Put(8, Max64)>>, <<Is("datetime"), Put(8, -Max64 - 1)>>,
  <<Is("datetime"), Put(8, Max64 - 1)>>, <<Is("date"), Put(4, Max32)>>, <<Is("time"), Put(8, Day * Second)>>,
  <<Is("text"), <<BadByte>>>>, <<Enum, <<97>>>>, <<Is("json"), <<1>>>>,
  <<Of("array", Is("int4")), EncodeArrayHeader(TRUE, 23, 1) \o Put(4, -1)>>,
  <<Of("array", Is("int4")), Put(4, 2) \o Put(4, 0) \o Put(4, 23) \o Put(4, 1) \o Put(4, 1)>>,
  <<Comp, Put(4, 2) \o Put(4, 23) \o Put(4, -1) \o Put(4, 25) \o Put(4, -1)>>,
  <<Is("numeric"), <<49, 46, 53>>>>, <<Is("numeric"), [i \in 1..9 |-> 49]>>,
  <<Is("inet"), <<58, 58, 49>>>>, <<Is("inet"), <<49, 48, 46, 48, 46, 48, 46, 49>>>>,
  <<Of("range", Is("int4")), <<8>> \o Put(4, -6)>>, <<Is("numeric"), Put(2, -5) \o Put(2, 0) \o Put(2, 0) \o Put(2, 0)>> >>

\* What no server sends, where the decoder panics: numbers below 0 where there should be a count
\* or a length, -1 for a bound of a range, a digit of an octet that is alone.
Panics == <<
  <<Of("array", Is("int4")), EncodeArrayHeader(FALSE, 23, -1)>>,
  <<Of("array", Is("int4")), EncodeArrayHeader(FALSE, 23, 1) \o Put(4, -2)>>,
  <<Of("range", Is("int4")), <<0>> \o Put(4, -1)>>, <<Of("range", Is("int4")), <<8>> \o Put(4, -5)>>,
  <<Of("range", Of("array", Is("int4"))), <<16>> \o EncodeParam(EncodeArrayHeader(FALSE, 23, -1))>>,
  <<Comp, Put(4, 2) \o Put(4, 23) \o Put(4, -2)>>,
  <<Is("numeric"), Put(2, -1) \o Put(2, 0) \o Put(2, 0) \o Put(2, 0)>>,
  <<Is("numeric"), Put(2, 0) \o Put(2, 0) \o Put(2, 0) \o Put(2, -1)>> >>
TextPanics == <<
  <<Is("bytea"), <<92, 120, 49>>>>, <<Of("array", Is("bytea")), <<123, 49, 44, 34, 92, 92, 120, 49, 50, 51, 34, 125>>>> >>

\* numeric as the server sends it, and another number that the decoder makes of it: NaN, the
\* infinities (with a scale of 32), the number of Max16 + 1 groups, of which none is left.
Special(sign, dscale) == Put(2, 0) \o Put(2, 0) \o Put(2, sign) \o Put(2, dscale)
Misread == <<
  <<Special(-16384, 0), <<48>>>>, <<Special(-12288, 32), <<48, 46>> \o Zeros(32)>>, <<Special(-4096, 32), <<48, 46>> \o Zeros(32)>>,
  <<Put(2, 1) \o Put(2, Max16) \o Put(2, 0) \o Put(2, 0) \o Put(2, 7), <<48>>>> >>

\* A type, the text the server sends, the value.
TextSamples == <<
  <<Is("bool"), <<116>>, TRUE>>, <<Is("int4"), IntText(-7), -7>>, <<Is("int8"), IntText(Max64), Max64>>,
  <<Is("bytea"), <<92, 120, 48, 102, 102, 65>>, <<15, 250>>>>, <<Is("timestamp"), <<45>> \o Infinity, <<"-infinity">>>>,
  <<Of("array", Is("int4")), <<123>> \o Joined(<<IntText(1), IntText(-20)>>, 44) \o <<125>>, <<1, -20>>>>,
  <<Of("range", Is("int4")), <<91>> \o IntText(1) \o <<44>> \o IntText(10) \o <<41>>, Range4(1, 10, TRUE, FALSE)>>,
  <<Is("numeric"), <<78, 97, 78>>, <<78, 97, 78>>>>, <<Is("inet"), <<58, 58, 49>>, <<58, 58, 49>>>>,
  <<Of("range", Is("int4")), <<40, 44>> \o IntText(5) \o <<93>>, Range4(Null, 5, FALSE, TRUE)>>,
  <<Enum, <<97, 98, 95, 97, 98>>, 2>>, <<[k |-> "numbers", of |-> Is("int2"), variants |-> <<4, 7>>], <<55>>, 2>> >>

Elems == {<<>>, <<97>>, <<34>>, <<92>>, <<44, 97>>, <<125>>, <<32>>, NullText}
Rules == {"snake_case", "SCREAMING_SNAKE_CASE", "camelCase", "kebab-case", "lowercase", "UPPERCASE"}
Words == {<<65, 98>>, <<67, 100, 101>>, <<70, 49, 103>>}
\* The words of a name, put together as the rule says.
ByRule(ws, rule) ==
  LET low == [i \in DOMAIN ws |-> ToLower(ws[i])]
  IN CASE rule = "snake_case" -> Joined(low, 95)
       [] rule = "SCREAMING_SNAKE_CASE" -> ToUpper(Joined(low, 95))
       [] rule = "kebab-case" -> Joined(low, 45)
       [] rule = "camelCase"  -> low[1] \o FlattenSeq(Tail(ws))
       [] rule = "lowercase"  -> FlattenSeq(low)
       [] rule = "UPPERCASE"  -> ToUpper(FlattenSeq(low))

\* Rows of two columns, the first in binary form and the second as text.
ColumnA == <<97>>
ColumnB == <<98>>
Columns(names) == <<<<names[1], <<0, 0, 23, 4, -1>>, 1>>, <<names[2], <<0, 0, 23, 4, -1>>, 0>>>>
Field(attr, name, option) == [attr |-> attr, name |-> name, option |-> option, type |-> Is("int4")]
RowOf(cells) == FromEntries(Cells(cells), Loop(Len(cells), LAMBDA st : ReadCellEntry(Cells(cells), st), 1).has)

-----------------------------------------------------------------------------
(* Texts.                                                                  *)

Given(t)  == [text |-> t, param |-> Fail]
Param(n)  == [text |-> <<":">> \o n, param |-> n]
Tokens == <<
  Param(<<"a">>), Param(<<"b", "_">>), Param(<<"a", "1">>), Given(<<":", ":", "a">>), Given(<<":", "1">>),
  Given(<<"'", ":", "a", "'", "'", ":", "b", "'">>), Given(<<"'", "'">>), Given(<<"\"", ":", "a", "'", "\"">>),
  Given(<<"-", "-", ":", "a", "'", "\n">>), Given(<<"/", "*", ":", "a", "'", "*", "/">>),
  Given(<<"$", "$", ":", "a", "'", "$", "$">>), Given(<<"$", "a", "$", ":", "a", "$", "$", ":", "b", "$", "a", "$">>),
  Given(<<"a">>), Given(<<"$", "1">>), Given(<<"-">>), Given(<<"/">>) >>

\* Two texts that would be one token if nothing stood between them.
Fused(x, y) ==
  \/ x \in Word /\ y \in Word \cup {"$"}
  \/ <<x, y>> \in {<<"-", "-">>, <<"/", "*">>, <<":", ":">>, <<"'", "'">>, <<"\"", "\"">>, <<"$", "$">>, <<"$", "a">>}
Sql(ts) ==
  FlattenSeq([i \in DOMAIN ts |->
    (IF i > 1 /\ Fused(Last(Tokens[ts[i - 1]].text), Head(Tokens[ts[i]].text)) THEN <<" ">> ELSE <<>>)
    \o Tokens[ts[i]].text])
ParamNames(ts) ==
  FoldLeft(LAMBDA ns, i : LET n == Tokens[ts[i]].param
                          IN IF n = Fail \/ Contains(ns, n) THEN ns ELSE Append(ns, n),
           <<>>, [i \in DOMAIN ts |-> i])
Rewritten(ts) ==
  FlattenSeq([i \in DOMAIN ts |->
    (IF i > 1 /\ Fused(Last(Tokens[ts[i - 1]].text), Head(Tokens[ts[i]].text)) THEN <<" ">> ELSE <<>>)
    \o (IF Tokens[ts[i]].param = Fail THEN Tokens[ts[i]].text
        ELSE <<"$" \o ToString(SelectInSeq(ParamNames(ts), LAMBDA n : n = Tokens[ts[i]].param))>>)])

\* Statements in which PostgreSQL sees other parameters than are found, and those: a comment in
\* a comment, a quote after a backslash, the index of a slice; an identifier with dollars in it.
Mistaken == <<
  [text |-> <<"/", "*", "/", "*", "*", "/", ":", "a", "*", "/">>, found |-> <<<<"a">>>>],
  [text |-> <<"E", "'", "\\", "'", ":", "a", "'">>, found |-> <<<<"a">>>>],
  [text |-> <<"a", "[", "1", ":", "b", "]">>, found |-> <<<<"b">>>>],
  [text |-> <<"a", "$", "b", "$", " ", ":", "a">>, found |-> <<>>] >>
Characters == {"a", ":", "'", "*", "/", "-", "$"}

\* Percent-encoding of all that is not a letter or a digit.
HexChar(n) == IF n < 10 THEN 48 + n ELSE 55 + n
Quoted(s) == FlattenSeq([i \in DOMAIN s |->
  IF Upper(s[i]) \/ Lower(s[i]) \/ IsDigit(s[i]) THEN <<s[i]>> ELSE <<37, HexChar(s[i] \div 16), HexChar(s[i] % 16)>>])
Uri(c) == Quoted(c.user) \o <<58>> \o Quoted(c.password) \o <<64>> \o c.host \o <<58>> \o Dec(c.port)
          \o <<47>> \o Quoted(c.db)
Plain(s) == Quoted(s) = s
UriParts == [user : {<<117>>, <<64, 58>>}, password : {<<>>, <<47, 63>>, <<52, 37>>}, host : {<<104>>},
             port : {1, 65535}, db : {<<100>>, <<37, 47>>}]

\* DER.
DerLength(n) == IF n < 128 THEN <<n>> ELSE IF n < 256 THEN <<129, n>> ELSE <<130, n \div 256, n % 256>>
Der(tag, b)  == <<tag>> \o DerLength(Len(b)) \o b
RECURSIVE Arc(_)
Arc(n) == IF n < 128 THEN <<n>> ELSE [Arc(n \div 128) EXCEPT ![Len(Arc(n \div 128))] = @ + 128] \o <<n % 128>>
DerOid(arcs) == Der(6, <<40 * arcs[1] + arcs[2]>> \o FlattenSeq([i \in 1..(Len(arcs) - 2) |-> Arc(arcs[i + 2])]))
Certificate(n, arcs) ==
  Der(48, Der(48, [i \in 1..n |-> 48]) \o Der(48, DerOid(arcs) \o <<5, 0>>) \o <<3, 1, 0>>)
Arcs == {<<1, 2, 840, 113549, 1, 1, 11>>, <<1, 3, 101, 112>>, <<2, 5, 127, 128>>}

\* Numbers as they may be written: [+-]?[0-9]*\.?[0-9]*([eE][+-]?[0-9]+)? with a digit.
Signs     == {<<>>, <<43>>, <<45>>}
Digits    == {[i \in 1..n |-> 49] : n \in 0..4}
Mantissas == {w \o f : w \in Digits, f \in {<<>>} \cup {<<46>> \o d : d \in Digits}} \ {<<>>, <<46>>}
Exponents == {<<>>} \cup {<<101>> \o s \o d : s \in Signs, d \in Digits \ {<<>>}}
Literals  == {s \o m \o e : s \in Signs, m \in Mantissas, e \in Exponents} \cup Specials
Written   == BoundedSeq({43, 45, 46, 49, 101}, 4) \cup Specials \cup {Infinity} \cup {<<c>> \o s : c \in {43, 45, 49}, s \in Specials}

-----------------------------------------------------------------------------
(* Checked queries: a text, the names in it and what is sent; arguments;   *)
(* the source files; what compilers expand, and the database.              *)

Q1 == <<"a">>
Q2 == <<"a", " ", "$1">>
Q3 == <<"a", " ", ":", "b">>
Q4 == <<"a", " ", "a">>
Queries == <<
  [sql |-> Q1, names |-> <<>>, sends |-> Q1], [sql |-> Q2, names |-> <<>>, sends |-> Q2],
  [sql |-> Q3, names |-> <<<<"b">>>>, sends |-> Q2] >>
Argument(name, expr) == [name |-> name, expr |-> expr]
Arguments == <<
  <<>>, <<Argument(Fail, 1)>>, <<Argument(<<"b">>, 1)>>, <<Argument(Fail, 1), Argument(<<"b">>, 2)>>, <<Argument(<<"b">>, 1), Argument(Fail, 2)>> >>
Crate == [name |-> "src", queries |-> {Q1, Q3},
          dirs |-> {[name |-> "m", queries |-> {Q2}, dirs |-> {}], [name |-> "target", queries |-> {Q4}, dirs |-> {}]}]

Asks(macro, sql, args) ==
  LET r == ResolveNamed(sql, ParseArgs(args)[1])[1] IN [macro |-> macro, sql |-> r.sql, params |-> r.params]
Asked == {Asks("query", Q1, <<>>), Asks("query_scalar", Q3, <<Argument(<<"b">>, 1)>>), Asks("query_as", Q2, <<>>)}
SourceTexts == SetToSeq(ScanDir(Crate))
Fd(n, oid, attribute) == [name |-> n, oid |-> oid, attribute |-> attribute]
Describes(fields, oids) == (Q1 :> [oids |-> <<>>, fields |-> fields]) @@ (Q2 :> [oids |-> oids, fields |-> fields])
Schemas == {
  [says |-> Describes(<<Fd("a", 23, "t.a")>>, <<23>>), notnull |-> {"t.a"}],
  [says |-> Describes(<<Fd("a", 25, "t.a"), Fd("b", 23, "none")>>, <<25>>), notnull |-> {}],
  [says |-> Q1 :> [oids |-> <<>>, fields |-> <<>>], notnull |-> {}] }
Alike == Permutations(Builders)

-----------------------------------------------------------------------------
(* The tasks.                                                              *)

Pure ==
  \/ \E i \in DOMAIN ServerMessages : task = [kind |-> "message", of |-> i]
  \/ \E i, j \in DOMAIN ClientMessages : task = [kind |-> "requests", of |-> <<i, j>>]
  \/ \E i \in DOMAIN Samples : task = [kind |-> "value", of |-> i]
  \/ \E i \in DOMAIN TextSamples : task = [kind |-> "text", of |-> i]
  \/ \E i \in DOMAIN Refused : task = [kind |-> "refused", of |-> i]
  \/ \E i \in DOMAIN Panics : task = [kind |-> "panic", of |-> i]
  \/ \E i \in DOMAIN TextPanics : task = [kind |-> "text panic", of |-> i]
  \/ \E i \in DOMAIN Misread : task = [kind |-> "misread", of |-> i]
  \/ \E neg \in BOOLEAN, whole \in {0, 5, 9999, 10000, 120034}, frac \in {<<>>, <<48>>, <<48, 53>>, <<48, 48, 48, 48, 53>>} :
       task = [kind |-> "numeric", neg |-> neg, whole |-> whole, frac |-> frac]
  \/ \E xs \in BoundedSeq(Elems, 3) : task = [kind |-> "array", of |-> xs]
  \/ \E ws \in BoundedSeq(Words, 3) : ws # <<>> /\ task = [kind |-> "name", of |-> ws]
  \/ \E cells \in [1..4 -> {Null, <<>>, <<52>>, <<52, 50>>}] : task = [kind |-> "columns", of |-> cells]
  \/ \E a \in {-1, 7}, b \in {Null, <<52, 50>>, <<120>>}, names \in {<<ColumnA, ColumnB>>, <<ColumnB, ColumnA>>} :
       task = [kind |-> "row", names |-> names, of |-> <<EncodeFixed(4, a), b>>]
  \/ \E ts \in BoundedSeq(DOMAIN Tokens, 3) : task = [kind |-> "sql", of |-> ts]
  \/ \E i \in DOMAIN Mistaken : task = [kind |-> "mistaken", of |-> i]
  \/ \E s \in BoundedSeq(Characters, 5) : task = [kind |-> "characters", of |-> s]
  \/ \E c \in UriParts : task = [kind |-> "uri", of |-> c]
  \/ \E k \in 0..47 : task = [kind |-> "days", of |-> 1000 * k]
  \/ \E n \in {0, 5, 127, 130, 300}, arcs \in Arcs : task = [kind |-> "certificate", n |-> n, of |-> arcs]
  \/ \E s \in Written : task = [kind |-> "literal", of |-> s]
  \/ \E i \in DOMAIN Queries, args \in DOMAIN Arguments : task = [kind |-> "query", of |-> i, args |-> args]

Init ==
  /\ FramingInit /\ MetadataInit
  /\ \/ Pure /\ db = CHOOSE d \in Databases : TRUE
     \/ task = [kind |-> "stream"] /\ db = CHOOSE d \in Databases : TRUE
     \/ task = [kind |-> "cache"]
Next ==
  \/ task.kind = "stream" /\ FramingNext /\ UNCHANGED <<task, metadataVars>>
  \/ task.kind = "cache" /\ MetadataNext /\ UNCHANGED <<task, framingVars>>
Spec == Init /\ [][Next]_algorithmVars
=============================================================================
