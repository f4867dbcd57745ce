-------------------------------- MODULE Values --------------------------------
(***************************************************************************)
(* Values as bytes and as text: the encoders and decoders of the types     *)
(* (src/resolute/src/encode.rs, decode.rs, range.rs, newtypes.rs), what    *)
(* the derives generate (src/resolute-derive/src/), the columns of a row   *)
(* (row.rs), the columnar results of the JavaScript bindings               *)
(* (src/pg-wired-js/src/lib.rs).                                           *)
(*                                                                         *)
(* A value of n bytes is n units.  An integer or a float of n bytes has    *)
(* its number in the first of them and 0 in the others, so what checks a   *)
(* length checks it here; text is a sequence of characters as numbers.     *)
(* A decoder gives a sequence with the value, or the empty one: an error;  *)
(* or it panics.                                                           *)
(*                                                                         *)
(* A type is a record: k, its kind; of, the type of its elements; for an   *)
(* enum variants, labels or discriminants; for a composite fields, each    *)
(* with its type and whether it is an Option.                              *)
(***************************************************************************)
EXTENDS Codec, Functions

CONSTANTS
  Max64, Max32, Max16,   \* the largest i64 and i32, the infinities of the server, and i16
  Epoch,          \* PG_EPOCH_OFFSET_US
  Chrono,         \* the microseconds, and the days, that chrono has on each side of its epoch
  Second, Day     \* microseconds in a second, seconds in a day

Put(w, n) == [i \in 1..w |-> IF i = 1 THEN n ELSE 0]
Wrap(n)   == ((n + Max64 + 1) % (2 * (Max64 + 1))) - (Max64 + 1)
Bad(s)    == Contains(s, BadByte)
Panic     == <<Null, Null, Null>>
Stopped(r) == r = None \/ r = Panic
Then(r, Op(_)) == IF Stopped(r) THEN r ELSE Op(r[1])

\* All of the values, or how the first decoder that gives none ends.
All(rs) ==
  LET i == SelectInSeq(rs, Stopped) IN IF i = 0 THEN <<[k \in DOMAIN rs |-> rs[k][1]]>> ELSE rs[i]

-----------------------------------------------------------------------------
(* Scalars.                                                                *)

Width == [int2 |-> 2, int4 |-> 4, int8 |-> 8, float4 |-> 4, float8 |-> 8]

EncodeFixed(w, n) == Put(w, n)
DecodeFixed(w, b) == IF Len(b) # w THEN None ELSE <<b[1]>>
EncodeBool(v)     == <<IF v THEN 1 ELSE 0>>
DecodeBool(b)     == IF Len(b) # 1 THEN None ELSE <<b[1] # 0>>
DecodeString(b)   == IF Bad(b) THEN None ELSE <<b>>
DecodeUuid(b)     == IF Len(b) # 16 THEN None ELSE <<b>>

\* A version and a text; of json, as against jsonb, the text alone.  The text itself is
\* serde_json's: all but the empty one is taken.
EncodeJson(v) == <<1>> \o v
DecodeJson(b) == LET text == IF b # <<>> /\ b[1] = 1 THEN Tail(b) ELSE b
                 IN IF text = <<>> \/ Bad(text) THEN None ELSE <<text>>

\* PgTimestamp and PgDate are a number or one of the two infinities.
EncodeSentinel(w, max, v) == Put(w, CASE v[1] = "infinity" -> max [] v[1] = "-infinity" -> -max - 1 [] OTHER -> v[2])
DecodeSentinel(w, max, b) ==
  Then(DecodeFixed(w, b), LAMBDA n : <<CASE n = max -> <<"infinity">> [] n = -max - 1 -> <<"-infinity">> [] OTHER -> <<"value", n>>>>)

\* chrono: microseconds since 1970, days since 2000, a time of the day.
EncodeDateTime(us) == Put(8, us - Epoch)
DecodeDateTime(b) ==
  Then(DecodeFixed(8, b), LAMBDA n : IF n \in {Max64, -Max64 - 1} \/ Wrap(n + Epoch) \notin -Chrono..Chrono
                                     THEN None ELSE <<Wrap(n + Epoch)>>)
EncodeDate(days) == Put(4, days)
DecodeDate(b) ==
  Then(DecodeFixed(4, b), LAMBDA n : IF n \in {Max32, -Max32 - 1} \/ n \notin -Chrono..Chrono
                                     THEN None ELSE <<n>>)
EncodeTime(t) == Put(8, t.secs * Second + t.us)
DecodeTime(b) ==
  Then(DecodeFixed(8, b), LAMBDA n : IF n \div Second >= Day THEN None
                                     ELSE <<[secs |-> n \div Second, us |-> n % Second]>>)

RECURSIVE Dec(_)
Dec(n)    == IF n < 10 THEN <<48 + n>> ELSE Append(Dec(n \div 10), 48 + (n % 10))
Zeros(n)  == [i \in 1..n |-> 48]
Pad(d)    == Zeros(4 - Len(Dec(d))) \o Dec(d)

\* numeric: the number of the groups of four digits, the place of the first, the sign, the
\* digits after the point; the groups.  The two numbers are cast to usize: below 0 they ask for
\* more than there can be, but 8 + 2 * nd wraps first.  So does weight + 1, an i16.  (As in a
\* build without overflow checks; with them each of the three panics.)
DecodeNumeric(b) ==
  LET nd == b[1]  weight == b[3]  dscale == b[7]
      digit(i) == IF i \in 0..(nd - 1) THEN b[9 + 2 * i] ELSE 0
      whole == IF weight < 0 \/ weight = Max16 THEN Zeros(1)
               ELSE Dec(digit(0)) \o FlattenSeq([i \in 1..weight |-> Pad(digit(i))])
      frac  == SubSeq(FlattenSeq([p \in 1..((dscale + 3) \div 4) |-> Pad(digit(weight + p))]), 1, dscale)
  IN IF Len(b) < 8 \/ Len(b) < 8 + 2 * nd \/ 8 + 2 * nd < 0 THEN None
     ELSE IF nd < 0 \/ dscale < 0 THEN Panic
     ELSE IF nd = 0 THEN <<Zeros(1) \o (IF dscale > 0 THEN <<46>> \o Zeros(dscale) ELSE <<>>)>>
     ELSE <<(IF b[5] = 16384 THEN <<45>> ELSE <<>>) \o whole \o (IF dscale > 0 THEN <<46>> \o frac ELSE <<>>)>>

\* inet: the family, the mask, is it a cidr, the octets of the address; two make a group in v6.
DecodeInet(b) ==
  LET n == b[4]  addr == SubSeq(b, 5, 4 + n)
  IN IF Len(b) < 4 \/ Len(b) < 4 + n THEN None
     ELSE IF b[1] = 2 /\ n = 4 THEN <<[addr |-> addr, mask |-> b[2]]>>
     ELSE IF b[1] = 3 /\ n = 16 THEN <<[addr |-> [i \in 1..8 |-> 256 * addr[2 * i - 1] + addr[2 * i]], mask |-> b[2]]>>
     ELSE None

-----------------------------------------------------------------------------
(* Arrays, ranges, composites, enums, domains.                             *)

\* The bytes of a value of a type, and back: below, over all kinds.
RECURSIVE Encode(_, _)
RECURSIVE Decode(_, _)

\* encode_param: the length of the value, and the value.
EncodeParam(b) == Put(4, Len(b)) \o b

\* The bytes of a value of this length at an index, and the index after them.  A length is
\* cast to usize: below 0 the end wraps to one before the beginning, and to slice panics; or it
\* is beyond any buffer.
Slice(b, at, len) ==
  IF len < 0 THEN IF at - 1 + len >= 0 THEN Panic ELSE None
  ELSE IF at + len - 1 > Len(b) THEN None
  ELSE <<SubSeq(b, at, at + len - 1), at + len>>

\* A bound of a range: always a value.  An element, a field: a value or Null.
ReadBound(b, at) == IF at + 3 > Len(b) THEN None ELSE Slice(b, at + 4, b[at])
ReadParam(b, at) == IF at + 3 <= Len(b) /\ b[at] = -1 THEN <<Null, at + 4>> ELSE ReadBound(b, at)

Oid == [bool |-> 16, int2 |-> 21, int4 |-> 23, int8 |-> 20, float4 |-> 700, float8 |-> 701, text |-> 25,
        numeric |-> 1700, inet |-> 869, datetime |-> 1114, date |-> 1082, time |-> 1083, uuid |-> 2950,
        json |-> 3802]

EncodeArrayHeader(has_null, oid, n) ==
  Put(4, 1) \o Put(4, IF has_null THEN 1 ELSE 0) \o Put(4, oid) \o Put(4, n) \o Put(4, 1)

\* What a loop over the values of a buffer gives: all, or what it was stopped by.
StopAt(st, r) == [st EXCEPT !.ok = FALSE, !.has = r]
Result(st)    == IF st.ok THEN <<st.has>> ELSE st.has

\* parse_array_header: the number of elements, for which there is to be room, and where they begin.
ParseArrayHeader(b) ==
  IF Len(b) < 12 THEN None
  ELSE IF b[1] = 0 THEN <<0, 13>>
  ELSE IF b[1] # 1 \/ Len(b) < 20 THEN None
  ELSE IF b[13] < 0 THEN Panic
  ELSE <<b[13], 21>>

DecodeArrayElements(T, b) ==
  LET hd == ParseArrayHeader(b)
      Step(st) ==
        LET p == ReadParam(b, st.at)
            v == IF Stopped(p) THEN p ELSE IF p[1] = Null THEN None ELSE Decode(T, p[1])
        IN IF Stopped(v) THEN StopAt(st, v) ELSE [ok |-> TRUE, at |-> p[2], has |-> Append(st.has, v[1])]
  IN IF Stopped(hd) THEN hd ELSE Result(Loop(hd[1], Step, hd[2]))

\* The flags of a range: empty 1, a bound included 2 and 4, a bound that is not there 8 and 16.
EmptyRange == [empty |-> TRUE, lower |-> Null, upper |-> Null, incs |-> <<FALSE, FALSE>>]
Flag(flags, f) == (flags \div f) % 2 = 1
RangeOf(incs, lower, upper) ==
  IF Stopped(lower) THEN lower
  ELSE IF Stopped(upper) THEN upper
  ELSE <<[empty |-> FALSE, lower |-> lower[1], upper |-> upper[1], incs |-> incs]>>
EncodeRange(T, r) ==
  LET bound(v) == IF v = Null THEN <<>> ELSE EncodeParam(Encode(T, v))
  IN IF r.empty THEN <<1>>
     ELSE <<(IF r.incs[1] THEN 2 ELSE 0) + (IF r.incs[2] THEN 4 ELSE 0)
            + (IF r.lower = Null THEN 8 ELSE 0) + (IF r.upper = Null THEN 16 ELSE 0)>>
          \o bound(r.lower) \o bound(r.upper)
DecodeRange(T, b) ==
  LET Value(p, v) == IF Stopped(v) THEN v ELSE <<v[1], p[2]>>
      Taken(p) == IF Stopped(p) THEN p ELSE Value(p, Decode(T, p[1]))
      Bound(inf, at) == IF inf THEN <<Null, at>> ELSE Taken(ReadBound(b, at))
      WithUpper(lower) ==
        IF Stopped(lower) THEN lower
        ELSE RangeOf(<<Flag(b[1], 2), Flag(b[1], 4)>>, lower, Bound(Flag(b[1], 16), lower[2]))
  IN IF b = <<>> THEN None
     ELSE IF Flag(b[1], 1) THEN <<EmptyRange>>
     ELSE WithUpper(Bound(Flag(b[1], 8), 2))

\* A composite: the number of its fields, and of each its type and its value.
EncodeComposite(fields, vs) ==
  Put(4, Len(fields)) \o FlattenSeq([i \in DOMAIN fields |->
    Put(4, Oid[fields[i].type.k])
    \o (IF vs[i] = Null THEN Put(4, -1) ELSE EncodeParam(Encode(fields[i].type, vs[i])))])
DecodeComposite(fields, b) ==
  LET Step(st) ==
        LET f == fields[Len(st.has) + 1]
            p == IF st.at + 7 > Len(b) THEN None ELSE ReadParam(b, st.at + 4)
            v == IF Stopped(p) THEN p
                 ELSE IF p[1] = Null THEN (IF f.option THEN <<Null>> ELSE None)
                 ELSE Decode(f.type, p[1])
        IN IF Stopped(v) THEN StopAt(st, v) ELSE [ok |-> TRUE, at |-> p[2], has |-> Append(st.has, v[1])]
  IN IF Len(b) < 4 THEN None ELSE Result(Loop(Len(fields), Step, 5))

Upper(c) == c \in 65..90
Lower(c) == c \in 97..122
ToLower(s) == [i \in DOMAIN s |-> IF Upper(s[i]) THEN s[i] + 32 ELSE s[i]]
ToUpper(s) == [i \in DOMAIN s |-> IF Lower(s[i]) THEN s[i] - 32 ELSE s[i]]

\* to_snake_case: an underscore before a capital that follows a small letter, or that
\* follows a capital and is followed by a small letter.
ToSnakeCase(s) ==
  LET starts(i) == /\ i > 1 /\ Upper(s[i])
                   /\ Lower(s[i - 1]) \/ (Upper(s[i - 1]) /\ i < Len(s) /\ Lower(s[i + 1]))
  IN FlattenSeq([i \in DOMAIN s |-> IF starts(i) THEN <<95>> \o ToLower(<<s[i]>>) ELSE ToLower(<<s[i]>>)])

Renamed(s, snake, rule) ==
  CASE rule = "lowercase"  -> ToLower(s)
    [] rule = "UPPERCASE"  -> ToUpper(s)
    [] rule = "SCREAMING_SNAKE_CASE" -> ToUpper(snake)
    [] rule = "camelCase"  ->
         FlattenSeq([i \in DOMAIN snake |->
           IF snake[i] = 95 THEN <<>> ELSE IF i > 1 /\ snake[i - 1] = 95 THEN ToUpper(<<snake[i]>>) ELSE <<snake[i]>>])
    [] rule = "PascalCase" -> s
    [] rule = "kebab-case" -> [i \in DOMAIN snake |-> IF snake[i] = 95 THEN 45 ELSE snake[i]]
    [] OTHER               -> snake
ApplyRenameRule(s, rule) == Renamed(s, ToSnakeCase(s), rule)

\* get_variant_label: the name it was given, or one by the rule.
VariantLabel(v, rule) == IF v.rename # None THEN v.rename ELSE ApplyRenameRule(v.ident, rule)

\* The match arms are tried in order; a variant is its index.
Arm(i) == IF i = 0 THEN None ELSE <<i>>
DecodeLabel(T, b) ==
  IF Bad(b) THEN None ELSE Arm(SelectInSeq(T.variants, LAMBDA v : VariantLabel(v, T.rule) = b))
DecodeDiscriminant(T, n) == Arm(SelectInSeq(T.variants, LAMBDA v : v = n))

Encode(T, v) ==
  CASE T.k \in DOMAIN Width -> EncodeFixed(Width[T.k], v)
    [] T.k = "bool"      -> EncodeBool(v)
    [] T.k \in {"text", "bytea", "uuid", "numeric", "inet"} -> v
    [] T.k = "json"      -> EncodeJson(v)
    [] T.k = "timestamp" -> EncodeSentinel(8, Max64, v)
    [] T.k = "pgdate"    -> EncodeSentinel(4, Max32, v)
    [] T.k = "datetime"  -> EncodeDateTime(v)
    [] T.k = "date"      -> EncodeDate(v)
    [] T.k = "time"      -> EncodeTime(v)
    [] T.k = "array"     -> EncodeArrayHeader(FALSE, Oid[T.of.k], Len(v))
                            \o FlattenSeq([i \in DOMAIN v |-> EncodeParam(Encode(T.of, v[i]))])
    [] T.k = "range"     -> EncodeRange(T.of, v)
    [] T.k = "composite" -> EncodeComposite(T.fields, v)
    [] T.k = "labels"    -> VariantLabel(T.variants[v], T.rule)
    [] T.k = "numbers"   -> EncodeFixed(Width[T.of.k], T.variants[v])
    [] T.k = "domain"    -> Encode(T.of, v)

Decode(T, b) ==
  CASE T.k \in DOMAIN Width -> DecodeFixed(Width[T.k], b)
    [] T.k = "bool"      -> DecodeBool(b)
    [] T.k = "text"      -> DecodeString(b)
    [] T.k = "bytea"     -> <<b>>
    [] T.k = "uuid"      -> DecodeUuid(b)
    [] T.k = "numeric"   -> DecodeNumeric(b)
    [] T.k = "inet"      -> DecodeInet(b)
    [] T.k = "json"      -> DecodeJson(b)
    [] T.k = "timestamp" -> DecodeSentinel(8, Max64, b)
    [] T.k = "pgdate"    -> DecodeSentinel(4, Max32, b)
    [] T.k = "datetime"  -> DecodeDateTime(b)
    [] T.k = "date"      -> DecodeDate(b)
    [] T.k = "time"      -> DecodeTime(b)
    [] T.k = "array"     -> DecodeArrayElements(T.of, b)
    [] T.k = "range"     -> DecodeRange(T.of, b)
    [] T.k = "composite" -> DecodeComposite(T.fields, b)
    [] T.k = "labels"    -> DecodeLabel(T, b)
    [] T.k = "numbers"   -> Then(DecodeFixed(Width[T.of.k], b), LAMBDA n : DecodeDiscriminant(T, n))
    [] T.k = "domain"    -> Decode(T.of, b)

\* SqlParam: the type and the value of a parameter; 0 and NULL for None.
ParamOid(T, v)   == IF v = Null THEN 0 ELSE Oid[T.k]
ParamValue(T, v) == IF v = Null THEN Null ELSE Encode(T, v)
=============================================================================
