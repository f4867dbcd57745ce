-------------------------- MODULE AlgorithmProperties --------------------------
(***************************************************************************)
(* What the pure parts are meant to compute.                               *)
(***************************************************************************)
EXTENDS Algorithms

MessageBack ==
  task.kind = "message" =>
    LET m == ServerMessages[task.of]  has == ParseBody(m[1], ServerBody(m))
    IN has # None /\ Shown(has[1]) = m

RequestsBack ==
  task.kind = "requests" =>
    LET all == [k \in 1..2 |-> ClientMessages[task.of[k]]]
    IN ServerReads(Sends(all[1]) \o Sends(all[2])) = all

ValueBack ==
  task.kind = "value" =>
    LET T == Samples[task.of][1]  v == Samples[task.of][2]  b == Encode(T, v)
    IN /\ Decode(T, b) = <<v>>
       /\ Bounded(T) => \A n \in 0..(Len(b) - 1) : Decode(T, SubSeq(b, 1, n)) = None
TextBack ==
  task.kind = "text" => DecodeText(TextSamples[task.of][1], TextSamples[task.of][2]) = <<TextSamples[task.of][3]>>
OthersRefused ==
  /\ task.kind = "refused" => Decode(Refused[task.of][1], Refused[task.of][2]) = None
  /\ task.kind = "panic" => Decode(Panics[task.of][1], Panics[task.of][2]) = Panic
  /\ task.kind = "text panic" => DecodeText(TextPanics[task.of][1], TextPanics[task.of][2]) = Panic
NumericLost ==
  task.kind = "misread" => DecodeNumeric(Misread[task.of][1]) = <<Misread[task.of][2]>>
NumericBack ==
  task.kind = "numeric" =>
    DecodeNumeric(ServerNumeric(task.neg, Dec(task.whole), task.frac)) = <<NumericText(task.neg, Dec(task.whole), task.frac)>>
ArrayBack ==
  task.kind = "array" =>
    LET text == <<123>> \o Joined([i \in DOMAIN task.of |-> ArrayElement(task.of[i])], 44) \o <<125>>
    IN DecodeText(Of("array", Is("text")), text) = <<task.of>>
NamesByRule ==
  task.kind = "name" => \A rule \in Rules : ApplyRenameRule(FlattenSeq(task.of), rule) = ByRule(task.of, rule)
ColumnsBack ==
  task.kind = "columns" =>
    LET c == RowsToColumnar(<<RowOf(SubSeq(task.of, 1, 2)), RowOf(SubSeq(task.of, 3, 4))>>)
    IN \A r, k \in 0..1 : ColumnarCell(c, 2, r, k) = task.of[2 * r + k + 1]
RowBack ==
  task.kind = "row" =>
    LET row == [schema |-> BuildRowSchema(Columns(task.names), <<>>), data |-> RowOf(task.of)]
        a   == task.of[1][1]
        b   == IF task.of[2] = Null THEN <<Null>> ELSE ParseInt(task.of[2], Max32)
        first == task.names[1]  second == task.names[2]
        structs == <<
          [fields |-> <<Field("none", first, FALSE), Field("none", second, TRUE)>>,
           has    |-> IF b = None THEN None ELSE <<<<a, b[1]>>>>],
          [fields |-> <<Field("none", second, FALSE)>>,
           has    |-> IF b = <<Null>> \/ b = None THEN None ELSE <<<<b[1]>>>>],
          [fields |-> <<Field("default", second, FALSE), Field("default", <<99>>, FALSE), Field("skip", <<99>>, FALSE)>>,
           has    |-> IF b = None THEN None ELSE <<<<b[1], Null, Null>>>>],
          [fields |-> <<Field("try_from", first, FALSE)>>,
           has    |-> IF a < 0 THEN None ELSE <<<<a>>>>] >>
    IN \A i \in DOMAIN structs : FromRow(row, structs[i].fields) = structs[i].has


ParamsFound ==
  task.kind = "sql" =>
    LET names == ParamNames(task.of)
        given == BindNamed(BindNamed(BindNamed([kind |-> "empty", given |-> <<>>], <<"a", "1">>, 3), <<"b", "_">>, 2), <<"a">>, 1)
        value(n) == IF n = <<"a">> THEN 1 ELSE IF n = <<"b", "_">> THEN 2 ELSE 3
    IN /\ Rewrite(Sql(task.of)) = [text |-> Rewritten(task.of), names |-> names]
       /\ RewriteNamedParams(Sql(task.of)) = Rewrite(Sql(task.of))
       /\ Materialize(given, Sql(task.of)) =
            <<[text |-> Rewritten(task.of), values |-> [i \in DOMAIN names |-> value(names[i])]]>>
ParamsMistaken ==
  task.kind = "mistaken" =>
    LET m == Mistaken[task.of]
    IN Rewrite(m.text).names = m.found /\ RewriteNamedParams(m.text) = Rewrite(m.text)
LexersAgree ==
  task.kind = "characters" => RewriteNamedParams(task.of) = Rewrite(task.of)
UriFound ==
  task.kind = "uri" =>
    /\ ParsePgUri(Uri(task.of)) = task.of
    /\ ParsePgUri(Uri(task.of) \o <<63, 47, 64>>) = task.of
    /\ Plain(task.of.user \o task.of.password \o task.of.db) => MacroParsePgUri(Uri(task.of)) = task.of
DateFound ==
  task.kind = "days" =>
    /\ CivilOfDay(0) = [y |-> 1970, m |-> 1, d |-> 1]
    /\ \A d \in task.of..(task.of + 999) : CivilOfDay(d + 1) = NextDay(CivilOfDay(d))
    /\ \A t \in task.of..(task.of + 999) : t + 1 < 86400 => ClockNumber(t) < ClockNumber(t + 1)
AlgorithmFound ==
  LET Found(der) ==
        /\ ParseSignatureOid(der) = <<task.of>>
        /\ \A n \in {0, 1, 4, 10, Len(der) - 1} : ParseSignatureOid(SubSeq(der, 1, n)) = Fail
  IN task.kind = "certificate" => Found(Certificate(task.n, task.of))
LiteralsFound ==
  task.kind = "literal" =>
    /\ NumericTryFrom(task.of) = (IF task.of \in Literals THEN <<task.of>> ELSE None)
    /\ NumericTryFrom(<<32>> \o task.of \o <<10>>) = NumericTryFrom(task.of)

ArgumentsFound ==
  LET q == Queries[task.of]  args == Arguments[task.args]
      Values == [i \in DOMAIN args |-> args[i].expr]
      Named  == args # <<>> /\ args[1].name # Fail
      Wanted ==
        CASE ~Named -> <<[sql |-> q.sql, params |-> Values]>>
          [] Named /\ [i \in DOMAIN args |-> args[i].name] = q.names -> <<[sql |-> q.sends, params |-> Values]>>
          [] OTHER -> Fail
  IN task.kind = "query" =>
       /\ Wanted = IF ParseArgs(args) = Fail THEN Fail ELSE ResolveNamed(q.sql, ParseArgs(args)[1])
       /\ ScanDir(Crate) = {Q1, Q2, Q3}

\* What is in a text is found: the parameters of a statement and no other colon, whatever
\* strings, comments, casts and tagged quotes stand around them, each with the value given
\* for its name, the arguments of a macro too.  But a colon before a name is taken for a
\* parameter where it is in what a nested comment leaves open, after a quote that a backslash
\* escapes, or before the upper index of a slice; and one after an identifier with two dollars
\* is not found.  The lexer of the library and that of the macros agree on every text, on these
\* too.  Found as well: the parts of a connection string; the day and second after another; the
\* signature algorithm of a certificate, and none in a part of one; numbers with NaN and the two
\* infinities, and nothing but numbers (named_params.rs, query_builder.rs, query.rs, migrate.rs,
\* cert_hash.rs, newtypes.rs, resolute-macros lib.rs).
TextKept == ParamsFound /\ ParamsMistaken /\ LexersAgree /\ UriFound /\ DateFound /\ AlgorithmFound /\ LiteralsFound /\ ArgumentsFound
=============================================================================
