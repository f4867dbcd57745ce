------------------------------ MODULE QueryInput ------------------------------
(***************************************************************************)
(* What a query macro is given (QueryInput::parse and resolve_named in     *)
(* src/resolute-macros/src/lib.rs), and where prepare looks for queries    *)
(* (scan_dir in src/resolute-cli/src/main.rs).                             *)
(***************************************************************************)
EXTENDS SqlText

-----------------------------------------------------------------------------
(* The arguments of a macro.                                               *)

\* QueryInput::parse: positional arguments, or bindings.  After a positional one, "n = e" is
\* read as an expression, an assignment.
ParseArgs(args) ==
  LET Step(st, a) ==
        CASE st.mode = "error" -> st
          [] st.mode # "positional" /\ a.name # Fail -> [st EXCEPT !.named = Append(@, a), !.mode = "named"]
          [] st.mode # "named" /\ (a.name = Fail \/ st.mode = "positional") ->
               [st EXCEPT !.params = Append(@, a.expr), !.mode = "positional"]
          [] OTHER -> [st EXCEPT !.mode = "error"]
      Parsed(st) == IF st.mode = "error" THEN Fail ELSE <<st>>
  IN Parsed(FoldLeft(Step, [mode |-> "unknown", params |-> <<>>, named |-> <<>>], args))

\* resolve_named: each name is bound, and each binding is a name.
ResolveNamed(sql, q) ==
  LET at(n) == SelectInSeq(q.named, LAMBDA a : a.name = n)
      Bound(r) ==
        IF (\E i \in DOMAIN r.names : at(r.names[i]) = 0)
           \/ (\E i \in DOMAIN q.named : ~Contains(r.names, q.named[i].name)) THEN Fail
        ELSE <<[sql |-> r.text, params |-> [i \in DOMAIN r.names |-> q.named[at(r.names[i])].expr]]>>
  IN IF q.named = <<>> THEN <<[sql |-> sql, params |-> q.params]>> ELSE Bound(RewriteNamedParams(sql))

-----------------------------------------------------------------------------
(* The source files.                                                       *)

\* scan_dir: the queries of the files under a directory, but not of target and of what is
\* hidden.
RECURSIVE ScanDir(_)
ScanDir(dir) ==
  dir.queries \cup UNION {ScanDir(d) : d \in {d \in dir.dirs : d.name \notin {"target", ".git"}}}
=============================================================================
