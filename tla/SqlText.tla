------------------------------- MODULE SqlText -------------------------------
(***************************************************************************)
(* The texts that are read: SQL with named parameters                      *)
(* (src/resolute/src/named_params.rs, and once more in                     *)
(* src/resolute-macros/src/lib.rs), the parameters of a QueryBuilder       *)
(* (query_builder.rs), connection strings (query.rs), the signature        *)
(* algorithm of a certificate (src/pg-wired/src/cert_hash.rs).             *)
(*                                                                         *)
(* SQL is a sequence of characters.  A connection string and a certificate *)
(* are sequences of bytes.  What may fail gives the empty sequence, or the *)
(* one of its result.                                                      *)
(***************************************************************************)
EXTENDS Integers, Sequences, SequencesExt, TLC

CONSTANT ArcBase   \* the arcs of an object identifier are counted modulo this

Fail == <<>>
After(s, i) == SubSeq(s, i, Len(s))

\* The first index from i on at which P holds, or the one past the end.
Find(s, i, P(_)) == Min({j \in i..Len(s) : P(j)} \cup {Len(s) + 1})

-----------------------------------------------------------------------------
(* Named parameters.                                                       *)

NameStart == {"a", "b", "_"}
Word      == NameStart \cup {"1"}
Pair(s, i, x, y) == i < Len(s) /\ s[i] = x /\ s[i + 1] = y

(* Where what begins at i ends: the index after it. *)

LineEnd(s, i) == Find(s, i, LAMBDA j : s[j] = "\n")

\* Up to the first closing mark; without one, up to the last character.
BlockEnd(s, i) ==
  LET Closed(e) == IF e <= Len(s) THEN e + 2 ELSE IF i + 2 <= Len(s) THEN Len(s) ELSE i + 2
  IN Closed(Find(s, i + 2, LAMBDA j : Pair(s, j, "*", "/")))

RECURSIVE StringEnd(_, _)
StringEnd(s, i) ==
  LET Closed(e) == IF Pair(s, e, "'", "'") THEN StringEnd(s, e + 2) ELSE IF e <= Len(s) THEN e + 1 ELSE e
  IN Closed(Find(s, i, LAMBDA j : s[j] = "'"))

IdentEnd(s, i) ==
  LET Closed(e) == IF e <= Len(s) THEN e + 1 ELSE e IN Closed(Find(s, i, LAMBDA j : s[j] = "\""))

\* $tag$ and all up to the next $tag$; or, if it is no tag, the $ alone.
DollarEnd(s, i) ==
  LET Closed(tag, e) == IF e <= Len(s) THEN e + Len(tag) ELSE e
      Tagged(t, tag) ==
        IF t > Len(s) \/ (t <= Len(s) /\ s[t] # "$") THEN i + 1
        ELSE Closed(tag, Find(s, t + 1, LAMBDA j : IsPrefix(tag, After(s, j))))
      To(t) == Tagged(t, SubSeq(s, i, t))
  IN To(Find(s, i + 1, LAMBDA j : s[j] \notin Word))

NameEnd(s, i) == Find(s, i, LAMBDA j : s[j] \notin Word)

IndexIn(names, n) == SelectInSeq(names, LAMBDA m : m = n)

\* Variant: only what is in a string is left alone, not what is in a comment.
SkipEnd_NoComments(s, i) ==
  CASE s[i] = "'"            -> StringEnd(s, i + 1)
    [] s[i] = "\""           -> IdentEnd(s, i + 1)
    [] s[i] = "$"            -> DollarEnd(s, i)
    [] Pair(s, i, ":", ":")  -> i + 2
    [] OTHER                 -> i + 1

\* What is passed through: comments, strings, identifiers, casts; or one character.
SkipEnd(s, i) ==
  CASE Pair(s, i, "-", "-")  -> LineEnd(s, i)
    [] Pair(s, i, "/", "*")  -> BlockEnd(s, i)
    [] s[i] = "'"            -> StringEnd(s, i + 1)
    [] s[i] = "\""           -> IdentEnd(s, i + 1)
    [] s[i] = "$"            -> DollarEnd(s, i)
    [] Pair(s, i, ":", ":")  -> i + 2
    [] OTHER                 -> i + 1

IsParam(s, i) == s[i] = ":" /\ i < Len(s) /\ s[i + 1] \in NameStart

\* rewrite: from i on, with the text so far and the names in the order of their indices.
\* A parameter is put into the text as one unit, $ and its index.
RECURSIVE RewriteFrom(_, _, _, _)
RewriteFrom(s, i, text, names) ==
  LET Numbered(e, n, all) == RewriteFrom(s, e, Append(text, "$" \o ToString(IndexIn(all, n))), all)
      Named(e, n)   == Numbered(e, n, IF IndexIn(names, n) = 0 THEN Append(names, n) ELSE names)
      NameUpTo(e)   == Named(e, SubSeq(s, i + 1, e - 1))
      PassUpTo(e)   == RewriteFrom(s, e, text \o SubSeq(s, i, e - 1), names)
  IN IF i > Len(s) THEN [text |-> text, names |-> names]
     ELSE IF IsParam(s, i) THEN NameUpTo(NameEnd(s, i + 1)) ELSE PassUpTo(SkipEnd(s, i))
Rewrite(s) == RewriteFrom(s, 1, <<>>, <<>>)

\* The macros read it with a lexer of their own, here one character after another: what stands
\* around it, up to where it is read already, the closing tag of what it is in.
RewriteNamedParams(s) ==
  LET Take(st, around, text, next) == [st EXCEPT !.around = around, !.text = @ \o text, !.next = next]
      Add(st, around, i)     == Take(st, around, <<s[i]>>, i + 1)
      AddTwo(st, around, i)  == Take(st, around, <<s[i], s[i + 1]>>, i + 2)
      AddTag(st, around, tag, i) == Take([st EXCEPT !.tag = tag], around, tag, i + Len(tag))
      Dollar(st, tag, i)     == IF Last(tag) = "$" /\ Len(tag) > 1 THEN AddTag(st, "dollar", tag, i) ELSE Add(st, "sql", i)
      Known(st, n)           == IF IndexIn(st.names, n) = 0 THEN [st EXCEPT !.names = Append(@, n)] ELSE st
      AddIndex(st, n, i)     == Take(st, "sql", <<"$" \o ToString(IndexIn(st.names, n))>>, i + 1 + Len(n))
      Name(st, n, i)         == AddIndex(Known(st, n), n, i)
      UpTo(i)                == Min({j \in i..Len(s) : j = Len(s) \/ s[j + 1] \notin Word})
      InSql(st, i) ==
        CASE Pair(s, i, "-", "-")  -> Add(st, "line", i)
          [] Pair(s, i, "/", "*")  -> AddTwo(st, "block", i)
          [] s[i] = "'"            -> Add(st, "string", i)
          [] s[i] = "\""           -> Add(st, "identifier", i)
          [] s[i] = "$"            -> Dollar(st, SubSeq(s, i, Min({Len(s), UpTo(i) + 1})), i)
          [] Pair(s, i, ":", ":")  -> AddTwo(st, "sql", i)
          [] s[i] = ":" /\ i < Len(s) /\ s[i + 1] \in NameStart -> Name(st, SubSeq(s, i + 1, UpTo(i + 1)), i)
          [] OTHER                 -> Add(st, "sql", i)
      Read(st, i) ==
        CASE st.next > i -> st
          [] st.around = "line" /\ s[i] # "\n" -> Add(st, "line", i)
          [] st.around = "block" /\ Pair(s, i, "*", "/") -> AddTwo(st, "sql", i)
          [] st.around = "block" /\ i < Len(s) -> Add(st, "block", i)
          [] st.around = "string" /\ Pair(s, i, "'", "'") -> AddTwo(st, "string", i)
          [] st.around = "string" -> Add(st, IF s[i] = "'" THEN "sql" ELSE "string", i)
          [] st.around = "identifier" -> Add(st, IF s[i] = "\"" THEN "sql" ELSE "identifier", i)
          [] st.around = "dollar" /\ IsPrefix(st.tag, After(s, i)) -> AddTag(st, "sql", st.tag, i)
          [] st.around = "dollar" -> Add(st, "dollar", i)
          [] OTHER -> InSql(st, i)
      end == FoldLeft(Read, [around |-> "sql", next |-> 1, tag |-> <<>>, text |-> <<>>, names |-> <<>>],
                      [i \in DOMAIN s |-> i])
  IN [text |-> end.text, names |-> end.names]

\* resolve_named_params: the value given for each name, the first if there are several.
ResolveNamedParams(names, given) ==
  LET at(n) == SelectInSeq(given, LAMBDA g : g[1] = n)
  IN IF \E i \in DOMAIN names : at(names[i]) = 0 THEN Fail
     ELSE <<[i \in DOMAIN names |-> given[at(names[i])][2]]>>

(* A QueryBuilder has no parameters yet, some by position, some by name, or was given  *)
(* both kinds.                                                                          *)
Bind(b, v) ==
  CASE b.kind = "empty"      -> [kind |-> "positional", given |-> <<v>>]
    [] b.kind = "positional" -> [b EXCEPT !.given = Append(@, v)]
    [] OTHER                 -> [kind |-> "invalid", given |-> <<>>]
BindNamed(b, n, v) ==
  CASE b.kind = "empty" -> [kind |-> "named", given |-> <<<<n, v>>>>]
    [] b.kind = "named" -> [b EXCEPT !.given = Append(@, <<n, v>>)]
    [] OTHER            -> [kind |-> "invalid", given |-> <<>>]
Materialize(b, s) ==
  CASE b.kind = "invalid" -> Fail
    [] b.kind = "named"   -> LET With(r, vs) == IF vs = Fail THEN Fail ELSE <<[text |-> r.text, values |-> vs[1]]>>
                                 To(r) == With(r, ResolveNamedParams(r.names, b.given))
                             IN To(Rewrite(s))
    [] OTHER              -> <<[text |-> s, values |-> b.given]>>

-----------------------------------------------------------------------------
(* Connection strings.                                                     *)

HexDigit(b) ==
  CASE b \in 48..57  -> <<b - 48>>
    [] b \in 97..102 -> <<b - 97 + 10>>
    [] b \in 65..70  -> <<b - 65 + 10>>
    [] OTHER         -> Fail

\* Each byte, and each %XX, becomes a character.
UrlDecode(s) ==
  LET RECURSIVE From(_)
      From(i) ==
        IF i > Len(s) THEN <<>>
        ELSE IF s[i] = 37 /\ i + 2 <= Len(s) /\ HexDigit(s[i + 1]) # Fail /\ HexDigit(s[i + 2]) # Fail
        THEN <<16 * HexDigit(s[i + 1])[1] + HexDigit(s[i + 2])[1]>> \o From(i + 3)
        ELSE <<s[i]>> \o From(i + 1)
  IN From(1)

\* split_once at the first c; without one, s and what stands for the rest.
SplitOnce(s, c, first, rest) ==
  LET i == SelectInSeq(s, LAMBDA b : b = c)
  IN IF i = 0 THEN <<first, rest>> ELSE <<SubSeq(s, 1, i - 1), After(s, i + 1)>>

\* The defaults, and the port that parses.
Postgres    == <<112, 111, 115, 116, 103, 114, 101, 115>>
Localhost   == <<49, 50, 55, 46, 48, 46, 48, 46, 49>>
DefaultPort == 5432
Port(s) ==
  LET n == FoldLeft(LAMBDA x, b : 10 * x + b - 48, 0, s)
  IN IF s # <<>> /\ Len(s) < 9 /\ (\A i \in DOMAIN s : s[i] \in 48..57) /\ n < 65536 THEN n ELSE DefaultPort

\* What stands between the scheme and the end, read as it is: the parser of the macros, which
\* decodes nothing and keeps what follows a question mark.
MacroParsePgUri(uri) ==
  LET Parts(user, host, db) ==
        [user |-> user[1], password |-> user[2], host |-> host[1], port |-> Port(host[2]), db |-> db]
      Split(auth, hd) ==
        Parts(SplitOnce(auth, 58, auth, <<>>), SplitOnce(hd[1], 58, hd[1], <<>>), hd[2])
      Halves(h) == Split(h[1], SplitOnce(h[2], 47, h[2], Postgres))
  IN Halves(SplitOnce(uri, 64, Postgres \o <<58>> \o Postgres, uri))

\* parse_pg_uri: the same without what follows a question mark, and decoded.
ParsePgUri(uri) ==
  LET Decoded(c) == [c EXCEPT !.user = UrlDecode(@), !.password = UrlDecode(@), !.db = UrlDecode(@)]
  IN Decoded(MacroParsePgUri(SplitOnce(uri, 63, uri, <<>>)[1]))

\* parse_pg_keyvalue over the parts [key, value], the last of a key counts.
ParsePgKeyvalue(parts) ==
  FoldLeft(LAMBDA c, p : CASE p[1] \in {"host", "hostaddr"} -> [c EXCEPT !.host = p[2]]
                           [] p[1] = "port"     -> [c EXCEPT !.port = Port(p[2])]
                           [] p[1] = "user"     -> [c EXCEPT !.user = p[2]]
                           [] p[1] = "password" -> [c EXCEPT !.password = p[2]]
                           [] p[1] = "dbname"   -> [c EXCEPT !.db = p[2]]
                           [] OTHER             -> c,
           [user |-> Postgres, password |-> <<>>, host |-> Localhost, port |-> DefaultPort, db |-> Postgres],
           parts)

-----------------------------------------------------------------------------
(* The signature algorithm of a certificate.                               *)

\* read_length: the octets of the length, and the length.
ReadLength(b) ==
  LET n == b[1] - 128
  IN IF b = <<>> THEN Fail
     ELSE IF b[1] < 128 THEN <<1, b[1]>>
     ELSE IF n = 0 \/ n > 8 \/ n > 3 \/ Len(b) < 1 + n THEN Fail     \* more than 3 octets exceed any b
     ELSE <<1 + n, FoldLeft(LAMBDA x, o : 256 * x + o, 0, SubSeq(b, 2, 1 + n))>>

\* read_tlv: the octets of the whole, and the content.
ReadTlv(b, tag) ==
  LET Content(l, total) == IF total > Len(b) THEN Fail ELSE <<total, SubSeq(b, 2 + l[1], total)>>
      Told(l) == IF l = Fail THEN Fail ELSE Content(l, 1 + l[1] + l[2])
  IN IF b = <<>> \/ b[1] # tag THEN Fail ELSE Told(ReadLength(Tail(b)))

\* decode_oid: 7 bits an octet, the high bit where more follow.  checked_shl refuses a
\* shift that is too wide and no overflow, so an arc wraps at ArcBase, 2^32 in the code.
DecodeOid(b) ==
  LET Step(st, o) ==
        LET acc == ((128 * st.acc) % ArcBase) + (o % 128)
        IN IF o < 128 THEN [acc |-> 0, arcs |-> Append(st.arcs, acc)] ELSE [st EXCEPT !.acc = acc]
      st == FoldLeft(Step, [acc |-> 0, arcs |-> <<b[1] \div 40, b[1] % 40>>], Tail(b))
  IN IF b = <<>> \/ st.acc # 0 THEN Fail ELSE <<st.arcs>>

\* parse_signature_oid: past the certificate's body to the algorithm after it.
ParseSignatureOid(der) ==
  LET InOid(oid)     == IF oid = Fail THEN Fail ELSE DecodeOid(oid[2])
      Alg(alg)     == IF alg = Fail THEN Fail ELSE InOid(ReadTlv(alg[2], 6))
      Tbs(b, tbs)  == IF tbs = Fail THEN Fail ELSE Alg(ReadTlv(After(b, tbs[1] + 1), 48))
      Outer(outer) == IF outer = Fail THEN Fail ELSE Tbs(outer[2], ReadTlv(outer[2], 48))
  IN Outer(ReadTlv(der, 48))
=============================================================================
