------------------------------ MODULE Metadata ------------------------------
(***************************************************************************)
(* What checked queries know of the database: the files of the directory   *)
(* .resolute, the macros that read and write them while crates are built   *)
(* (src/resolute-macros/src/lib.rs and cache.rs), and the command prepare  *)
(* that writes one for each query (src/resolute-cli/src/main.rs), all at   *)
(* the same time and while the schema changes.                             *)
(*                                                                         *)
(* A file is named after the hash of the text of its query, so the         *)
(* directory is a function from texts.  std::fs::write opens a file, which *)
(* empties it, and writes it with one write; nothing locks it.             *)
(***************************************************************************)
EXTENDS Integers, Sequences

CONSTANTS
  Builders,      \* the compilers that expand macros at the same time
  Requests,      \* what they expand: the macro, the text it sends, the arguments
  Scanned,       \* the texts in the source as prepare finds them, sorted, each once
  Databases,     \* what the database may be: the queries it accepts, and its NOT NULL columns
  Names, Oids,   \* names and types of fields
  Attributes,    \* columns of tables
  NoAttribute,   \* of a field that is no column of a table
  MaxBuilds,     \* bound: how many macros are expanded
  MaxChanges     \* bound: how often the schema changes

Texts == {r.sql : r \in Requests} \cup {Scanned[i] : i \in DOMAIN Scanned}
Description == [oids : Seq(Oids), fields : Seq([name : Names, oid : Oids, attribute : Attributes \cup {NoAttribute}])]
ASSUME ScannedAssumption ==
  /\ Len(Scanned) \in Nat /\ DOMAIN Scanned = 1..Len(Scanned)
  /\ \A i, j \in DOMAIN Scanned : Scanned[i] = Scanned[j] => i = j
ASSUME DatabasesAssumption ==
  /\ NoAttribute \notin Attributes
  /\ \A d \in Databases : (\A t \in DOMAIN d.says : d.says[t] \in Description) /\ d.notnull \subseteq Attributes
ASSUME MaxAssumption == MaxBuilds \in Nat /\ MaxChanges \in Nat

VARIABLES
  db,        \* the database now
  had,       \* it now and before
  files,     \* the directory
  build,     \* per compiler: the macro it expands, how far it is, what it knows
  prep,      \* the command prepare: how far it is, what it knows, has a query failed
  alone,     \* history: of which macros nobody else has opened the file since they did
  calm,      \* history: since prepare began nobody else has changed the schema or a file
  builds, changes

metadataVars == <<db, had, files, build, prep, alone, calm, builds, changes>>

-----------------------------------------------------------------------------
(* Entries and files.                                                      *)

CacheEntries == [oids : Seq(Oids), columns : Seq([name : Names, oid : Oids, nullable : {"yes", "no", "unsaid"}])]
NoEntry == [oids |-> <<>>, columns |-> <<>>]
NoDescription == [oids |-> <<>>, fields |-> <<>>]

NoFile   == [is |-> "absent", entry |-> NoEntry]
Emptied    == [is |-> "empty", entry |-> NoEntry]
Torn     == [is |-> "torn", entry |-> NoEntry]
Whole(e) == [is |-> "whole", entry |-> e]

\* Variant: a column may be NULL only if the server says so.
Described_Optimist(d, notnull) ==
  [oids |-> d.oids,
   columns |-> [i \in DOMAIN d.fields |->
     [name |-> d.fields[i].name, oid |-> d.fields[i].oid,
      nullable |-> IF d.fields[i].attribute \in notnull \cup {NoAttribute} THEN "no" ELSE "yes"]]]

\* describe_live: a column may be NULL unless it is one of a table that may not.
Described(d, notnull) ==
  [oids |-> d.oids,
   columns |-> [i \in DOMAIN d.fields |->
     [name |-> d.fields[i].name, oid |-> d.fields[i].oid,
      nullable |-> IF d.fields[i].attribute \in notnull THEN "no" ELSE "yes"]]]

\* prepare: it says nothing of NULL.
Prepared(d) ==
  [oids |-> d.oids,
   columns |-> [i \in DOMAIN d.fields |->
     [name |-> d.fields[i].name, oid |-> d.fields[i].oid, nullable |-> "unsaid"]]]

\* read_cache: a file that is no JSON is as good as none.
Readable(t) == files[t].is = "whole"

\* Open a file of one's own, or one that others have open too.
Open(t) == files' = [files EXCEPT ![t] = Emptied]

\* Write: over what others have written since, of which a longer end stays behind.
Write(t, e) ==
  \E f \in {Whole(e), Torn} :
    /\ files[t] \in {Emptied, Whole(e)} => f = Whole(e)
    /\ files' = [files EXCEPT ![t] = f]
WriteFails(t) == \E f \in {files[t], Torn} : files' = [files EXCEPT ![t] = f]

-----------------------------------------------------------------------------
(* The macros.                                                             *)

\* query_impl, query_as_impl and query_scalar_impl: an error of the compiler, or code that reads
\* its columns, some of them as an Option.  What is not said to be nullable is not; the struct
\* of query_as! says it of itself; query_scalar! never reads an Option.
Compiles(r, e) == Len(r.params) = Len(e.oids) /\ (r.macro = "query_scalar" => Len(e.columns) = 1)
ReadAsOption(r, e, i) == r.macro = "query" /\ e.columns[i].nullable = "yes"

Busy == {"describe", "nulls", "open", "fill"}
NoRequest == [macro |-> "none", sql |-> <<>>, params |-> <<>>]
Does(at, ask, saw, has) == [at |-> at, ask |-> ask, saw |-> saw, has |-> has]
Idle == Does("idle", NoRequest, NoDescription, NoEntry)
Goes(b, at, saw, has) == build' = [build EXCEPT ![b] = Does(at, build[b].ask, saw, has)]
GivesUp(b) == build' = [build EXCEPT ![b] = Idle]

IsOpen(t) ==
  \/ \E b \in Builders : build[b].at = "fill" /\ build[b].ask.sql = t
  \/ prep.at = "fill" /\ Scanned[prep.next] = t

MetadataInit ==
  /\ db \in Databases /\ had = {db}
  /\ files = [t \in Texts |-> NoFile]
  /\ build = [b \in Builders |-> Idle]
  /\ prep = [at |-> "idle", next |-> 1, entry |-> NoEntry, failed |-> FALSE]
  /\ alone = [b \in Builders |-> FALSE] /\ calm = FALSE
  /\ builds = 0 /\ changes = 0

\* resolve_metadata: what the file says, whatever database is there; else, if it may, the
\* database.
Expand(b) ==
  /\ build[b].at \in {"idle", "done"} /\ builds < MaxBuilds
  /\ \E r \in Requests, offline \in BOOLEAN :
       build' = [build EXCEPT ![b] =
         IF Readable(r.sql) THEN Does("done", r, NoDescription, files[r.sql].entry)
         ELSE IF offline THEN Idle ELSE Does("describe", r, NoDescription, NoEntry)]
  /\ builds' = builds + 1
  /\ alone' = [alone EXCEPT ![b] = FALSE]
  /\ UNCHANGED <<db, had, files, prep, calm, changes>>

\* describe_live: the connection may fail, the query be refused.
Describe(b) ==
  /\ build[b].at = "describe"
  /\ \/ GivesUp(b)
     \/ /\ build[b].ask.sql \in DOMAIN db.says
        /\ Goes(b, "nulls", db.says[build[b].ask.sql], NoEntry)
  /\ UNCHANGED <<db, had, files, prep, alone, calm, builds, changes>>

\* The second query of describe_live, if there is a column to ask for; nobody is told if it fails.
Nulls(b) ==
  /\ build[b].at = "nulls"
  /\ \E notnull \in {db.notnull, {}} : Goes(b, "open", NoDescription, Described(build[b].saw, notnull))
  /\ UNCHANGED <<db, had, files, prep, alone, calm, builds, changes>>

\* write_cache.  If it fails the code is generated all the same.
OpenFile(b) ==
  LET t == build[b].ask.sql
  IN /\ build[b].at = "open"
     /\ Open(t)
     /\ Goes(b, "fill", NoDescription, build[b].has)
     /\ alone' = [c \in Builders |-> IF c = b THEN ~IsOpen(t) ELSE alone[c] /\ build[c].ask.sql # t]
     /\ calm' = FALSE
     /\ UNCHANGED <<db, had, prep, builds, changes>>
OpenFails(b) ==
  /\ build[b].at = "open" /\ Goes(b, "done", NoDescription, build[b].has)
  /\ UNCHANGED <<db, had, files, prep, alone, calm, builds, changes>>
Fill(b) ==
  /\ build[b].at = "fill" /\ Write(build[b].ask.sql, build[b].has)
  /\ Goes(b, "done", NoDescription, build[b].has)
  /\ UNCHANGED <<db, had, prep, alone, calm, builds, changes>>
FillFails(b) ==
  /\ build[b].at = "fill" /\ WriteFails(build[b].ask.sql)
  /\ Goes(b, "done", NoDescription, build[b].has)
  /\ alone' = [alone EXCEPT ![b] = FALSE]
  /\ UNCHANGED <<db, had, prep, calm, builds, changes>>

\* The compiler is killed.
Dies(b) ==
  /\ build[b].at \in Busy
  /\ IF build[b].at = "fill" THEN WriteFails(build[b].ask.sql) ELSE UNCHANGED files
  /\ GivesUp(b)
  /\ alone' = [alone EXCEPT ![b] = FALSE]
  /\ UNCHANGED <<db, had, prep, calm, builds, changes>>

-----------------------------------------------------------------------------
(* The commands, and the schema.                                           *)

PrepGoes(at, next, entry, failed) == prep' = [at |-> at, next |-> next, entry |-> entry, failed |-> failed]

\* prepare, once.
Begin ==
  /\ prep.at = "idle" /\ PrepGoes("describe", 1, NoEntry, FALSE)
  /\ calm' = \A b \in Builders : build[b].at # "fill"
  /\ UNCHANGED <<db, had, files, build, alone, builds, changes>>

\* One query after the other: one that is refused is passed over, and remembered.
PrepDescribe ==
  /\ prep.at = "describe" /\ prep.next <= Len(Scanned)
  /\ LET t == Scanned[prep.next]
     IN \/ PrepGoes("describe", prep.next + 1, NoEntry, TRUE)
        \/ t \in DOMAIN db.says /\ PrepGoes("open", prep.next, Prepared(db.says[t]), prep.failed)
  /\ UNCHANGED <<db, had, files, build, alone, calm, builds, changes>>
PrepOpen ==
  LET t == Scanned[prep.next]
  IN /\ prep.at = "open" /\ Open(t)
     /\ PrepGoes("fill", prep.next, prep.entry, prep.failed)
     /\ alone' = [c \in Builders |-> alone[c] /\ build[c].ask.sql # t]
     /\ UNCHANGED <<db, had, build, calm, builds, changes>>
PrepFill ==
  /\ prep.at = "fill" /\ Write(Scanned[prep.next], prep.entry)
  /\ PrepGoes("describe", prep.next + 1, NoEntry, prep.failed)
  /\ UNCHANGED <<db, had, build, alone, calm, builds, changes>>
PrepEnds ==
  /\ prep.at = "describe" /\ prep.next > Len(Scanned)
  /\ PrepGoes("done", prep.next, NoEntry, prep.failed)
  /\ UNCHANGED <<db, had, files, build, alone, calm, builds, changes>>

\* A file that cannot be opened or written ends the command, as does a signal.
PrepDies ==
  /\ prep.at \in {"describe", "open", "fill"}
  /\ IF prep.at = "fill" THEN WriteFails(Scanned[prep.next]) ELSE UNCHANGED files
  /\ PrepGoes("failed", prep.next, NoEntry, prep.failed)
  /\ UNCHANGED <<db, had, build, alone, calm, builds, changes>>

Change ==
  /\ changes < MaxChanges /\ changes' = changes + 1
  /\ db' \in Databases /\ had' = had \cup {db'}
  /\ calm' = FALSE
  /\ UNCHANGED <<files, build, prep, alone, builds>>

\* check: the files that are not as the database describes their query.
ColumnsMatch(xs, ys) ==
  Len(xs) = Len(ys) /\ \A i \in DOMAIN xs : xs[i].name = ys[i].name /\ xs[i].oid = ys[i].oid
Stale ==
  {t \in Texts : /\ Readable(t)
                 /\ \/ t \notin DOMAIN db.says
                    \/ files[t].entry.oids # db.says[t].oids
                    \/ ~ColumnsMatch(files[t].entry.columns, db.says[t].fields)}

MetadataNext ==
  \/ \E b \in Builders : Expand(b) \/ Describe(b) \/ Nulls(b) \/ OpenFile(b) \/ OpenFails(b) \/ Fill(b) \/ FillFails(b) \/ Dies(b)
  \/ Begin \/ PrepDescribe \/ PrepOpen \/ PrepFill \/ PrepEnds \/ PrepDies \/ Change
MetadataSpec == MetadataInit /\ [][MetadataNext]_metadataVars

-----------------------------------------------------------------------------
(* What is promised.                                                       *)

Said(d, t, e) ==
  /\ t \in DOMAIN d.says
  /\ e.oids = d.says[t].oids
  /\ DOMAIN e.columns = DOMAIN d.says[t].fields
  /\ \A i \in DOMAIN e.columns :
       e.columns[i].name = d.says[t].fields[i].name /\ e.columns[i].oid = d.says[t].fields[i].oid

\* An entry is what one database said of this text, and "no" what one said of that very column.
Honest(all, t, e) ==
  \E d, n \in all :
    /\ Said(d, t, e)
    /\ \A i \in DOMAIN e.columns :
         e.columns[i].nullable = "no" => d.says[t].fields[i].attribute \in n.notnull
FilesHonest == \A t \in Texts : Readable(t) => Honest(had, t, files[t].entry)

\* What is generated has as many arguments as one database wanted for this text, and query! reads
\* without Option only what one declared NOT NULL, or what prepare wrote.
CodeHonest ==
  \A b \in Builders :
    LET r == build[b].ask  e == build[b].has
    IN build[b].at = "done" /\ Compiles(r, e) =>
         \E d, n \in had :
           /\ Said(d, r.sql, e) /\ Len(r.params) = Len(d.says[r.sql].oids)
           /\ r.macro = "query" => \A i \in DOMAIN e.columns :
                \/ ReadAsOption(r, e, i)
                \/ e.columns[i].nullable = "unsaid"
                \/ d.says[r.sql].fields[i].attribute \in n.notnull

\* What a build described and wrote is what the next one reads, unless somebody else opened the
\* file.
Repeatable ==
  \A b \in Builders : build[b].at = "done" /\ alone[b] => files[build[b].ask.sql] = Whole(build[b].has)

\* After a prepare that nothing failed and nobody disturbed, check finds nothing.
Fresh ==
  prep.at = "done" /\ ~prep.failed /\ calm =>
    \A i \in DOMAIN Scanned : Readable(Scanned[i]) /\ Scanned[i] \notin Stale

\* However many compilers expand macros while prepare runs, the schema changes, writes fail and
\* processes die: what a file says of a query is what one database said of it, and never half of
\* it or two of them; the code generated from it fits that database; a build without the database
\* that follows one with it generates the same; and what prepare has written is not stale
\* (resolute-macros lib.rs resolve_metadata, describe_live, cache.rs, resolute-cli main.rs
\* prepare, check).
MetadataKept == FilesHonest /\ CodeHonest /\ Repeatable /\ Fresh
=============================================================================
