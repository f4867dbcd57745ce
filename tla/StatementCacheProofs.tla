------------------------- MODULE StatementCacheProofs -------------------------
(***************************************************************************)
(* Why a name denotes one statement, why an entry of the cache is known to *)
(* the server, why a call that nobody disturbs repairs what it found, and  *)
(* why the shared session is left in a transaction only by a call that was *)
(* dropped between its sends.  A request that somebody waits for is the    *)
(* one of his attempt, and those of an attempt are answered in the order   *)
(* in which they were sent; a name that is cached, or parsed and about to  *)
(* be, is prepared and nobody closes it.                                   *)
(***************************************************************************)
EXTENDS StatementCache, FiniteSetTheorems, SequenceTheorems, WellFoundedInduction, TLAPS

Policies == {PolicyOf[k] : k \in Kinds}
Lookups  == [sql : Sqls, name : Nat, parse : BOOLEAN]
Results  == {"ok", "failed", "missing", "stale", "exists"}
Records  == [does : Policies \cup {None}, sqls : Seq(Sqls), execs : Seq(Lookups), again : BOOLEAN, done : Nat]
Messages ==
  [t : Tasks \cup {None}, i : Nat, op : {"setup", "commit"}]
  \cup [t : Tasks \cup {None}, i : Nat, op : {"exec"}, x : Lookups] \cup [op : {"close"}, name : Nat]

\* The requests of the attempt of a task, as many as they are and one by one.
Size(c) == IF c.does.sends = "tx" THEN 3 ELSE Len(c.execs)
Request(t, c, j) ==
  IF c.does.sends # "tx" THEN Exec(t, j, c.execs[j])
  ELSE IF j = 1 THEN [t |-> t, i |-> 1, op |-> "setup"]
  ELSE IF j = 2 THEN Exec(t, 2, c.execs[1])
  ELSE [t |-> t, i |-> 3, op |-> "commit"]
\* The response to the j-th statement.
Response(c, g, j) == IF c.does.sends = "tx" THEN g[j + 1] ELSE g[j]
Sent(c, o) == Size(c) - Len(o)

TypeOK ==
  /\ cache \in [Sqls -> Nat \cup {None}] /\ counter \in Nat
  /\ pc \in [Tasks -> {"idle", "look", "send", "wait"}]
  /\ call \in [Tasks -> Records]
  /\ out \in [Tasks -> Seq(Messages)]
  /\ got \in [Tasks -> UNION {[1..n -> Results \cup {None}] : n \in Nat}]
  /\ chan \in Seq(Messages)
  /\ prepared \subseteq [name : Nat, sql : Sqls, stale : BOOLEAN]
  /\ tx \in [open : BOOLEAN, failed : BOOLEAN] /\ cut \in BOOLEAN
  /\ unsure \subseteq Nat /\ alone \in Tasks \cup {None}
  /\ ran \in Nat /\ alters \in Nat

\* A call as it stands: what it has looked up, what it has yet to send, what was answered.
Shape(t) ==
  /\ pc[t] = "idle" => call[t] = NoCall
  /\ pc[t] # "idle" =>
       /\ call[t].does \in Policies
       /\ Len(call[t].sqls) = IF call[t].does.sends = "batch" THEN 2 ELSE 1
       /\ Len(call[t].execs) <= Len(call[t].sqls)
       /\ \A j \in 1..Len(call[t].execs) : call[t].execs[j].sql = call[t].sqls[j]
       /\ call[t].again => call[t].does.again # "never"
  /\ pc[t] = "look" => Len(call[t].execs) < Len(call[t].sqls) /\ call[t].done = 0
  /\ pc[t] \in {"idle", "look"} => got[t] = <<>>
  /\ pc[t] \in {"send", "wait"} =>
       /\ Len(call[t].execs) = Len(call[t].sqls)
       /\ got[t] \in [1..Size(call[t]) -> Results \cup {None}]
       /\ call[t].done < Len(call[t].execs)
       /\ call[t].does.sends = "tx" => got[t][1] \in {"ok", None} /\ got[t][3] \in {"ok", None}
  /\ pc[t] # "send" => out[t] = <<>>
  /\ pc[t] = "send" =>
       /\ Len(out[t]) \in 1..Size(call[t])
       /\ \A j \in 1..Len(out[t]) : out[t][j] = Request(t, call[t], Sent(call[t], out[t]) + j)
       /\ \A j \in (Sent(call[t], out[t]) + 1)..Size(call[t]) : got[t][j] = None

\* A request that somebody waits for is one of his attempt, and neither it nor a later one
\* of the attempt is answered.
Awaited(i) == chan[i].op # "close" /\ chan[i].t # None
Matched ==
  \A i \in 1..Len(chan) : Awaited(i) =>
    LET r == chan[i] IN
    /\ pc[r.t] \in {"send", "wait"} /\ r.i \in 1..Sent(call[r.t], out[r.t])
    /\ r = Request(r.t, call[r.t], r.i) /\ \A k \in r.i..Size(call[r.t]) : got[r.t][k] = None
Ordered ==
  \A i, j \in 1..Len(chan) : i < j /\ Awaited(i) /\ Awaited(j) /\ chan[i].t = chan[j].t => chan[i].i < chan[j].i

Wire == TypeOK /\ (\A t \in Tasks : Shape(t)) /\ Matched /\ Ordered

-----------------------------------------------------------------------------
(* Policies and requests.                                                  *)

LEMMA PolicyFacts ==
  ASSUME NEW p \in Policies
  PROVE  /\ p \in [sends : {"one", "tx", "batch"}, again : {"any", "never", "hit"}, force : BOOLEAN]
         /\ p.again # "never" => p.sends # "batch"
         /\ p.again = "hit" => p.force
<1>1. PICK k \in AllKinds : p = PolicyOf[k]
  BY StatementCacheAssumption DEF Policies
<1>2. k \in {"query", "execute", "stream", "pooled", "exec_query", "exec_formats", "exec_transaction", "pipeline", "js_query", "js_raw"}
  BY <1>1 DEF AllKinds, PolicyOf
<1>3. p \in {ClientQuery, ClientExecute, QueryStream, OnConn, ExecQuery, ExecFormats, ExecTransaction, PipelineRun,
            JsQuery, JsRaw}
  BY <1>1, <1>2 DEF PolicyOf
<1>4. p \in {Policy("one", "any", FALSE), Policy("one", "never", FALSE), Policy("one", "hit", TRUE),
            Policy("tx", "hit", TRUE), Policy("batch", "never", FALSE)}
  BY <1>3 DEF ClientQuery, ClientExecute, QueryStream, OnConn, ExecQuery, ExecFormats, ExecTransaction, PipelineRun, JsQuery, JsRaw
<1>5. p \in {[sends |-> "one", again |-> "any", force |-> FALSE], [sends |-> "one", again |-> "never", force |-> FALSE],
            [sends |-> "one", again |-> "hit", force |-> TRUE], [sends |-> "tx", again |-> "hit", force |-> TRUE],
            [sends |-> "batch", again |-> "never", force |-> FALSE]}
  BY <1>4 DEF Policy
<1>6. p \in [sends : {"one", "tx", "batch"}, again : {"any", "never", "hit"}, force : BOOLEAN]
  <2>1. \A s \in {"one", "tx", "batch"}, a \in {"any", "never", "hit"}, f \in BOOLEAN :
          [sends |-> s, again |-> a, force |-> f] \in [sends : {"one", "tx", "batch"}, again : {"any", "never", "hit"}, force : BOOLEAN]
    OBVIOUS
  <2>2. CASE p = [sends |-> "one", again |-> "any", force |-> FALSE]
    BY <2>1, <2>2
  <2>3. CASE p = [sends |-> "one", again |-> "never", force |-> FALSE]
    BY <2>1, <2>3
  <2>4. CASE p = [sends |-> "one", again |-> "hit", force |-> TRUE]
    BY <2>1, <2>4
  <2>5. CASE p = [sends |-> "tx", again |-> "hit", force |-> TRUE]
    BY <2>1, <2>5
  <2>6. CASE p = [sends |-> "batch", again |-> "never", force |-> FALSE]
    BY <2>1, <2>6
  <2> QED
    BY <1>5, <2>2, <2>3, <2>4, <2>5, <2>6
<1>7. p.again # "never" => p.sends # "batch"
  BY <1>5
<1>8. p.again = "hit" => p.force
  <2>1. CASE p = [sends |-> "one", again |-> "hit", force |-> TRUE]
    BY <2>1
  <2>2. CASE p = [sends |-> "tx", again |-> "hit", force |-> TRUE]
    BY <2>2
  <2>3. CASE p.again # "hit"
    BY <2>3
  <2> QED
    BY <1>5, <2>1, <2>2, <2>3
<1> QED
  BY <1>6, <1>7, <1>8

LEMMA Constants ==
  /\ None \notin Nat /\ None \notin Tasks /\ None \notin Results
  /\ Cap \in Nat \ {0} /\ ChanCap \in Nat \ {0}
BY StatementCacheAssumption DEF Results

\* Requests says what Request says.
LEMMA RequestsAre ==
  ASSUME NEW t \in Tasks, NEW sends, NEW execs \in Seq(Lookups), Len(execs) > 0
  PROVE  LET reqs == Requests(t, sends, execs) IN
         /\ reqs \in Seq(Messages)
         /\ Len(reqs) = IF sends = "tx" THEN 3 ELSE Len(execs)
         /\ DOMAIN reqs = 1..Len(reqs)
         /\ sends # "tx" => \A j \in 1..Len(reqs) : reqs[j] = Exec(t, j, execs[j])
         /\ sends = "tx" => /\ reqs[1] = [t |-> t, i |-> 1, op |-> "setup"]
                            /\ reqs[2] = Exec(t, 2, execs[1])
                            /\ reqs[3] = [t |-> t, i |-> 3, op |-> "commit"]
<1>1. \A j \in Nat, x \in Lookups : Exec(t, j, x) \in Messages
  BY DEF Exec, Messages
<1>2. CASE sends = "tx"
  <2>1. execs[1] \in Lookups
    OBVIOUS
  <2>2. [t |-> t, i |-> 1, op |-> "setup"] \in Messages /\ [t |-> t, i |-> 3, op |-> "commit"] \in Messages
    BY DEF Messages
  <2> QED
    BY <1>1, <1>2, <2>1, <2>2 DEF Requests
<1>3. CASE sends # "tx"
  <2>1. Requests(t, sends, execs) = [i \in 1..Len(execs) |-> Exec(t, i, execs[i])]
    BY <1>3 DEF Requests
  <2>2. \A i \in 1..Len(execs) : Exec(t, i, execs[i]) \in Messages
    BY <1>1
  <2> QED
    BY <1>3, <2>1, <2>2, SMTT(30)
<1> QED
  BY <1>2, <1>3

-----------------------------------------------------------------------------
(* What the steps do, in terms of the parts of the state.                  *)

LEMMA LookedUpIs ==
  ASSUME TypeOK, NEW s \in Sqls, NEW force \in BOOLEAN
  PROVE  LET x == LookedUp(s, force) IN
         /\ x \in Lookups /\ x.sql = s
         /\ cache[s] = None => x.name = counter /\ x.parse
         /\ cache[s] # None => x.name = cache[s] /\ (x.parse <=> force)
<1>1. cache[s] \in Nat \cup {None} /\ counter \in Nat
  BY DEF TypeOK
<1>2. CASE cache[s] = None
  BY <1>1, <1>2 DEF LookedUp, Lookups
<1>3. CASE cache[s] # None
  BY <1>1, <1>3 DEF LookedUp, Lookups
<1> QED
  BY <1>2, <1>3

\* The record of a call after a lookup.
LEMMA CallAfterLookUp ==
  ASSUME NEW c \in Records, NEW x \in Lookups
  PROVE  LET d == [c EXCEPT !.execs = Append(c.execs, x)] IN
         /\ d \in Records /\ d.does = c.does /\ d.sqls = c.sqls /\ d.again = c.again /\ d.done = c.done
         /\ d.execs = Append(c.execs, x) /\ d.execs \in Seq(Lookups) /\ Len(d.execs) = Len(c.execs) + 1
         /\ d.execs[Len(c.execs) + 1] = x /\ \A j \in 1..Len(c.execs) : d.execs[j] = c.execs[j]
<1> DEFINE d == [c EXCEPT !.execs = Append(c.execs, x)]
<1>1. c.execs \in Seq(Lookups)
  BY DEF Records
<1>2. Append(c.execs, x) \in Seq(Lookups) /\ Len(Append(c.execs, x)) = Len(c.execs) + 1
  BY <1>1
<1>3. /\ Append(c.execs, x)[Len(c.execs) + 1] = x
      /\ \A j \in 1..Len(c.execs) : Append(c.execs, x)[j] = c.execs[j]
  BY <1>1
<1>4. d.execs = Append(c.execs, x) /\ d.does = c.does /\ d.sqls = c.sqls /\ d.again = c.again /\ d.done = c.done
  BY DEF Records
<1>5. d \in Records
  BY <1>2 DEF Records
<1> HIDE DEF d
<1> SUFFICES /\ d \in Records /\ d.does = c.does /\ d.sqls = c.sqls /\ d.again = c.again /\ d.done = c.done
             /\ d.execs = Append(c.execs, x) /\ d.execs \in Seq(Lookups) /\ Len(d.execs) = Len(c.execs) + 1
             /\ d.execs[Len(c.execs) + 1] = x /\ \A j \in 1..Len(c.execs) : d.execs[j] = c.execs[j]
  BY DEF d
<1> QED
  BY <1>2, <1>3, <1>4, <1>5

LEMMA LookUpDoes ==
  ASSUME TypeOK, NEW t \in Tasks, NEW c \in Records, c.does \in Policies,
         Len(c.sqls) = (IF c.does.sends = "batch" THEN 2 ELSE 1), Len(c.execs) < Len(c.sqls), LookUp(t, c)
  PROVE  /\ c.sqls[Len(c.execs) + 1] \in Sqls /\ (c.again /\ c.does.force) \in BOOLEAN
         /\ LET s == c.sqls[Len(c.execs) + 1]
                x == LookedUp(s, c.again /\ c.does.force)
                d == [c EXCEPT !.execs = Append(c.execs, x)]
                reqs == Requests(t, c.does.sends, d.execs)
            IN /\ x \in Lookups /\ x.sql = s
               /\ call' = [call EXCEPT ![t] = d]
               /\ counter' = IF cache[s] = None THEN counter + 1 ELSE counter
               /\ \/ /\ Len(d.execs) < Len(c.sqls) /\ pc' = [pc EXCEPT ![t] = "look"]
                     /\ out' = out /\ got' = got
                  \/ /\ Len(d.execs) = Len(c.sqls) /\ pc' = [pc EXCEPT ![t] = "send"]
                     /\ out' = [out EXCEPT ![t] = reqs]
                     /\ got' = [got EXCEPT ![t] = [i \in DOMAIN reqs |-> None]]
<1> DEFINE s == c.sqls[Len(c.execs) + 1]
           x == LookedUp(s, c.again /\ c.does.force)
           d == [c EXCEPT !.execs = Append(c.execs, x)]
<1>1. c.sqls \in Seq(Sqls) /\ c.execs \in Seq(Lookups) /\ c.again \in BOOLEAN /\ c.does.force \in BOOLEAN
  BY PolicyFacts DEF Records
<1>2. s \in Sqls
  BY <1>1
<1>3. (c.again /\ c.does.force) \in BOOLEAN
  OBVIOUS
<1>4. x \in Lookups /\ x.sql = s
  BY <1>2, <1>3, LookedUpIs
<1>5. d.execs = Append(c.execs, x) /\ Len(d.execs) = Len(c.execs) + 1
  BY <1>4, CallAfterLookUp
<1>6. Len(d.execs) < Len(c.sqls) \/ Len(d.execs) = Len(c.sqls)
  BY <1>1, <1>5
<1>7. /\ call' = [call EXCEPT ![t] = d]
      /\ counter' = IF cache[s] = None THEN counter + 1 ELSE counter
      /\ IF Len(d.execs) < Len(c.sqls) THEN pc' = [pc EXCEPT ![t] = "look"] /\ UNCHANGED <<out, got>>
         ELSE /\ pc' = [pc EXCEPT ![t] = "send"]
              /\ out' = [out EXCEPT ![t] = Requests(t, c.does.sends, d.execs)]
              /\ got' = [got EXCEPT ![t] = [i \in DOMAIN Requests(t, c.does.sends, d.execs) |-> None]]
  BY <1>5 DEF LookUp
<1> HIDE DEF d, x, s
<1>8. \/ /\ Len(d.execs) < Len(c.sqls) /\ pc' = [pc EXCEPT ![t] = "look"]
         /\ out' = out /\ got' = got
      \/ /\ Len(d.execs) = Len(c.sqls) /\ pc' = [pc EXCEPT ![t] = "send"]
         /\ out' = [out EXCEPT ![t] = Requests(t, c.does.sends, d.execs)]
         /\ got' = [got EXCEPT ![t] = [i \in DOMAIN Requests(t, c.does.sends, d.execs) |-> None]]
  BY <1>6, <1>7
<1> QED
  BY <1>2, <1>3, <1>4, <1>7, <1>8 DEF s, x, d

\* A step that leaves a task alone leaves its requests and its shape alone.
LEMMA TaskFrame ==
  ASSUME NEW t \in Tasks, call'[t] = call[t], out'[t] = out[t], pc'[t] = pc[t], got'[t] = got[t], Shape(t)
  PROVE  Shape(t)'
BY DEF Shape

LEMMA LookUpShape ==
  ASSUME TypeOK, NEW t \in Tasks, NEW c \in Records, c.does \in Policies,
         Len(c.sqls) = (IF c.does.sends = "batch" THEN 2 ELSE 1), Len(c.execs) < Len(c.sqls), LookUp(t, c),
         \A j \in 1..Len(c.execs) : c.execs[j].sql = c.sqls[j], c.done = 0, c.again => c.does.again # "never",
         out[t] = <<>>, got[t] = <<>>
  PROVE  /\ call' \in [Tasks -> Records] /\ counter' \in Nat
         /\ pc' \in [Tasks -> {"idle", "look", "send", "wait"}]
         /\ out' \in [Tasks -> Seq(Messages)]
         /\ got' \in [Tasks -> UNION {[1..n -> Results \cup {None}] : n \in Nat}]
         /\ Shape(t)'
         /\ \A u \in Tasks \ {t} : call'[u] = call[u] /\ pc'[u] = pc[u] /\ out'[u] = out[u] /\ got'[u] = got[u]
<1> DEFINE s == c.sqls[Len(c.execs) + 1]
           x == LookedUp(s, c.again /\ c.does.force)
           d == [c EXCEPT !.execs = Append(c.execs, x)]
           reqs == Requests(t, c.does.sends, d.execs)
<1>1. /\ s \in Sqls /\ x \in Lookups /\ x.sql = s
      /\ call' = [call EXCEPT ![t] = d]
      /\ counter' = IF cache[s] = None THEN counter + 1 ELSE counter
      /\ \/ /\ Len(d.execs) < Len(c.sqls) /\ pc' = [pc EXCEPT ![t] = "look"]
            /\ out' = out /\ got' = got
         \/ /\ Len(d.execs) = Len(c.sqls) /\ pc' = [pc EXCEPT ![t] = "send"]
            /\ out' = [out EXCEPT ![t] = reqs]
            /\ got' = [got EXCEPT ![t] = [i \in DOMAIN reqs |-> None]]
  BY LookUpDoes
<1>2. /\ d \in Records /\ d.does = c.does /\ d.sqls = c.sqls /\ d.again = c.again /\ d.done = c.done
      /\ d.execs \in Seq(Lookups) /\ Len(d.execs) = Len(c.execs) + 1
      /\ d.execs[Len(c.execs) + 1] = x /\ \A j \in 1..Len(c.execs) : d.execs[j] = c.execs[j]
  BY <1>1, CallAfterLookUp
<1> HIDE DEF d, x
<1>3. /\ call \in [Tasks -> Records] /\ pc \in [Tasks -> {"idle", "look", "send", "wait"}] /\ counter \in Nat
      /\ out \in [Tasks -> Seq(Messages)] /\ got \in [Tasks -> UNION {[1..n -> Results \cup {None}] : n \in Nat}]
  BY DEF TypeOK
<1>4. /\ Len(c.execs) \in Nat /\ Len(c.sqls) \in {1, 2} /\ Len(d.execs) \in Nat \ {0}
  <2>1. c.execs \in Seq(Lookups)
    BY DEF Records
  <2> QED
    BY <2>1, <1>2
<1>5. /\ reqs \in Seq(Messages)
      /\ Len(reqs) = IF c.does.sends = "tx" THEN 3 ELSE Len(d.execs)
      /\ DOMAIN reqs = 1..Len(reqs)
      /\ c.does.sends # "tx" => \A j \in 1..Len(reqs) : reqs[j] = Exec(t, j, d.execs[j])
      /\ c.does.sends = "tx" => /\ reqs[1] = [t |-> t, i |-> 1, op |-> "setup"]
                                /\ reqs[2] = Exec(t, 2, d.execs[1])
                                /\ reqs[3] = [t |-> t, i |-> 3, op |-> "commit"]
  <2>1. d.execs \in Seq(Lookups) /\ Len(d.execs) > 0
    BY <1>2, <1>4
  <2> QED
    BY <2>1, RequestsAre
<1> HIDE DEF reqs
<1>6. \A j \in 1..Len(d.execs) : d.execs[j].sql = d.sqls[j]
  BY <1>1, <1>2, <1>4
<1>7. call'[t] = d
  BY <1>1, <1>3
<1>8. CASE /\ Len(d.execs) < Len(c.sqls) /\ pc' = [pc EXCEPT ![t] = "look"]
           /\ out' = out /\ got' = got
  <2>1. pc'[t] = "look" /\ out'[t] = <<>> /\ got'[t] = <<>>
    BY <1>8, <1>3
  <2>2. Shape(t)'
    BY <2>1, <1>2, <1>6, <1>7, <1>8 DEF Shape
  <2>3. call' \in [Tasks -> Records] /\ counter' \in Nat
    BY <1>1, <1>2, <1>3
  <2>4. pc' \in [Tasks -> {"idle", "look", "send", "wait"}]
    BY <1>3, <1>8
  <2>5. \A u \in Tasks \ {t} : call'[u] = call[u] /\ pc'[u] = pc[u]
    BY <1>1, <1>3, <1>8
  <2> QED
    BY <1>3, <1>8, <2>2, <2>3, <2>4, <2>5
<1>9. CASE /\ Len(d.execs) = Len(c.sqls) /\ pc' = [pc EXCEPT ![t] = "send"]
           /\ out' = [out EXCEPT ![t] = reqs]
           /\ got' = [got EXCEPT ![t] = [i \in DOMAIN reqs |-> None]]
  <2>1. pc'[t] = "send" /\ out'[t] = reqs /\ got'[t] = [i \in 1..Len(reqs) |-> None]
    BY <1>9, <1>3, <1>5
  <2>2. Size(call'[t]) = Len(reqs) /\ Sent(call'[t], out'[t]) = 0 /\ Len(reqs) \in Nat \ {0}
    BY <2>1, <1>2, <1>4, <1>5, <1>7 DEF Size, Sent
  <2>3. \A j \in 1..Len(reqs) : out'[t][j] = Request(t, call'[t], j)
    <3>1. CASE c.does.sends = "tx"
      <4>1. Len(reqs) = 3
        BY <3>1, <1>5
      <4>2. Request(t, call'[t], 1) = reqs[1] /\ Request(t, call'[t], 2) = reqs[2] /\ Request(t, call'[t], 3) = reqs[3]
        BY <3>1, <1>2, <1>5, <1>7 DEF Request
      <4> QED
        BY <4>1, <4>2, <2>1
    <3>2. CASE c.does.sends # "tx"
      BY <3>2, <2>1, <1>2, <1>5, <1>7 DEF Request
    <3> QED
      BY <3>1, <3>2
  <2>4. \A j \in 1..Len(reqs) : out'[t][j] = Request(t, call'[t], Sent(call'[t], out'[t]) + j)
    BY <2>2, <2>3
  <2>5. got'[t] \in [1..Len(reqs) -> Results \cup {None}] /\ \A j \in 1..Len(reqs) : got'[t][j] = None
    BY <2>1
  <2>6. Shape(t)'
    <3> SUFFICES /\ call'[t].does \in Policies
                 /\ Len(call'[t].sqls) = IF call'[t].does.sends = "batch" THEN 2 ELSE 1
                 /\ Len(call'[t].execs) = Len(call'[t].sqls) /\ Len(call'[t].execs) <= Len(call'[t].sqls)
                 /\ \A j \in 1..Len(call'[t].execs) : call'[t].execs[j].sql = call'[t].sqls[j]
                 /\ call'[t].again => call'[t].does.again # "never"
                 /\ got'[t] \in [1..Size(call'[t]) -> Results \cup {None}]
                 /\ call'[t].done < Len(call'[t].execs)
                 /\ call'[t].does.sends = "tx" => got'[t][1] \in {"ok", None} /\ got'[t][3] \in {"ok", None}
                 /\ Len(out'[t]) \in 1..Size(call'[t])
                 /\ \A j \in 1..Len(out'[t]) : out'[t][j] = Request(t, call'[t], Sent(call'[t], out'[t]) + j)
                 /\ \A j \in (Sent(call'[t], out'[t]) + 1)..Size(call'[t]) : got'[t][j] = None
      BY <2>1 DEF Shape
    <3>1. call'[t].does.sends = "tx" => got'[t][1] = None /\ got'[t][3] = None
      BY <1>2, <1>5, <1>7, <2>5
    <3>2. call'[t].done < Len(call'[t].execs)
      BY <1>2, <1>4, <1>7
    <3>3. /\ Len(call'[t].execs) = Len(call'[t].sqls) /\ Len(call'[t].execs) <= Len(call'[t].sqls)
          /\ Len(call'[t].sqls) = IF call'[t].does.sends = "batch" THEN 2 ELSE 1
      BY <1>2, <1>4, <1>7, <1>9
    <3>4. /\ Len(out'[t]) \in 1..Size(call'[t]) /\ \A j \in (Sent(call'[t], out'[t]) + 1)..Size(call'[t]) : got'[t][j] = None
          /\ got'[t] \in [1..Size(call'[t]) -> Results \cup {None}]
      BY <2>1, <2>2, <2>5
    <3> QED
      BY <1>2, <1>6, <1>7, <2>1, <2>4, <3>1, <3>2, <3>3, <3>4
  <2>7. call' \in [Tasks -> Records] /\ counter' \in Nat
    BY <1>1, <1>2, <1>3
  <2>8. pc' \in [Tasks -> {"idle", "look", "send", "wait"}] /\ out' \in [Tasks -> Seq(Messages)]
    BY <1>3, <1>5, <1>9
  <2>9. got' \in [Tasks -> UNION {[1..n -> Results \cup {None}] : n \in Nat}]
    <3>1. [i \in DOMAIN reqs |-> None] \in [1..Len(reqs) -> Results \cup {None}] /\ Len(reqs) \in Nat
      BY <1>5, <2>2
    <3>2. [i \in DOMAIN reqs |-> None] \in UNION {[1..n -> Results \cup {None}] : n \in Nat}
      BY <3>1, Zenon
    <3> QED
      BY <3>2, <1>3, <1>9
  <2>10. \A u \in Tasks \ {t} : call'[u] = call[u] /\ pc'[u] = pc[u] /\ out'[u] = out[u] /\ got'[u] = got[u]
    BY <1>1, <1>3, <1>9
  <2> QED
    BY <2>6, <2>7, <2>8, <2>9, <2>10
<1> QED
  BY <1>1, <1>8, <1>9

LEMMA Message ==
  ASSUME TypeOK, NEW i \in 1..Len(chan)
  PROVE  /\ chan[i] \in Messages /\ chan[i].op \in {"setup", "commit", "exec", "close"}
         /\ chan[i].op # "close" => chan[i].t \in Tasks \cup {None}
         /\ Awaited(i) => chan[i].t \in Tasks
         /\ chan[i].op = "exec" => chan[i].x \in Lookups
         /\ chan[i].op = "close" => chan[i].name \in Nat
<1>1. chan[i] \in Messages
  BY DEF TypeOK
<1> QED
  BY <1>1, Constants DEF Messages, Awaited

LEMMA Sizes ==
  ASSUME TypeOK, NEW t \in Tasks, Shape(t), pc[t] \in {"send", "wait"}
  PROVE  /\ Size(call[t]) \in 1..3 /\ Len(call[t].execs) \in 1..2 /\ Len(out[t]) \in Nat /\ Sent(call[t], out[t]) \in 0..Size(call[t])
         /\ call[t].does \in Policies /\ call[t].does.sends \in {"one", "tx", "batch"}
         /\ call[t].does.sends # "batch" => Len(call[t].execs) = 1
         /\ call[t].does.sends = "one" => Size(call[t]) = 1
         /\ call[t].does.sends = "tx" => Size(call[t]) = 3
         /\ call[t].execs \in Seq(Lookups) /\ call[t].sqls \in Seq(Sqls) /\ call[t].again \in BOOLEAN /\ call[t].done \in Nat
         /\ pc[t] = "wait" => Sent(call[t], out[t]) = Size(call[t])
<1>1. call[t] \in Records /\ out[t] \in Seq(Messages)
  BY DEF TypeOK
<1>2. /\ call[t].execs \in Seq(Lookups) /\ call[t].sqls \in Seq(Sqls) /\ call[t].again \in BOOLEAN /\ call[t].done \in Nat
      /\ Len(out[t]) \in Nat
  BY <1>1 DEF Records
<1>3. /\ call[t].does \in Policies
      /\ Len(call[t].sqls) = IF call[t].does.sends = "batch" THEN 2 ELSE 1
      /\ Len(call[t].execs) = Len(call[t].sqls)
  BY DEF Shape
<1>4. call[t].does.sends \in {"one", "tx", "batch"}
  BY <1>3, PolicyFacts
<1>5. pc[t] = "wait" => Len(out[t]) = 0
  BY DEF Shape
<1>6. pc[t] = "send" => Len(out[t]) \in 1..Size(call[t])
  BY DEF Shape
<1>7. Len(call[t].execs) \in {1, 2} /\ (call[t].does.sends # "batch" => Len(call[t].execs) = 1)
  BY <1>3
<1>8. /\ Size(call[t]) \in 1..3 /\ (call[t].does.sends = "one" => Size(call[t]) = 1)
      /\ (call[t].does.sends = "tx" => Size(call[t]) = 3)
  BY <1>7 DEF Size
<1>9. Sent(call[t], out[t]) \in 0..Size(call[t]) /\ (pc[t] = "wait" => Sent(call[t], out[t]) = Size(call[t]))
  <2>1. CASE pc[t] = "wait"
    BY <1>5, <1>8, <2>1 DEF Sent
  <2>2. CASE pc[t] = "send"
    BY <1>6, <1>8, <2>2 DEF Sent
  <2> QED
    BY <2>1, <2>2
<1> QED
  BY <1>2, <1>3, <1>4, <1>7, <1>8, <1>9

\* What is still awaited is the request it was.
LEMMA KeepsMatched ==
  ASSUME TypeOK, Matched, Ordered, TypeOK', NEW h \in {0, 1},
         \A i \in 1..Len(chan') : Awaited(i)' =>
           LET r == chan[i + h] IN
           /\ i + h \in 1..Len(chan) /\ chan'[i] = r
           /\ pc'[r.t] \in {"send", "wait"} /\ call'[r.t] = call[r.t] /\ out'[r.t] = out[r.t]
           /\ \A k \in r.i..Size(call[r.t]) : got'[r.t][k] = got[r.t][k]
  PROVE  Matched' /\ Ordered'
<1>1. Len(chan) \in Nat /\ Len(chan') \in Nat
  <2>1. chan \in Seq(Messages) /\ chan' \in Seq(Messages)
    BY DEF TypeOK
  <2> QED
    BY <2>1
<1>2. ASSUME NEW i \in 1..Len(chan'), Awaited(i)'
      PROVE  /\ i + h \in 1..Len(chan) /\ chan'[i] = chan[i + h] /\ Awaited(i + h)
  BY <1>2 DEF Awaited
<1>3. ASSUME NEW i \in 1..Len(chan'), Awaited(i)', NEW r, r = chan[i + h]
      PROVE  /\ pc'[r.t] \in {"send", "wait"} /\ r.i \in 1..Sent(call'[r.t], out'[r.t])
             /\ r = Request(r.t, call'[r.t], r.i) /\ \A k \in r.i..Size(call'[r.t]) : got'[r.t][k] = None
  <2>1. /\ r.i \in 1..Sent(call[r.t], out[r.t]) /\ r = Request(r.t, call[r.t], r.i) /\ \A k \in r.i..Size(call[r.t]) : got[r.t][k] = None
    BY <1>2, <1>3 DEF Matched
  <2>2. r.t \in Tasks
    BY <1>2, <1>3, Message
  <2>3. /\ call'[r.t] = call[r.t] /\ out'[r.t] = out[r.t] /\ pc'[r.t] \in {"send", "wait"}
        /\ \A k \in r.i..Size(call[r.t]) : got'[r.t][k] = got[r.t][k]
    BY <1>3
  <2>4. /\ Size(call'[r.t]) = Size(call[r.t]) /\ Sent(call'[r.t], out'[r.t]) = Sent(call[r.t], out[r.t])
        /\ Request(r.t, call'[r.t], r.i) = Request(r.t, call[r.t], r.i)
    BY <2>3 DEF Size, Sent, Request
  <2> QED
    BY <2>1, <2>3, <2>4
<1>4. Matched'
  <2> SUFFICES ASSUME NEW i \in 1..Len(chan'), Awaited(i)'
               PROVE  /\ pc'[chan'[i].t] \in {"send", "wait"} /\ chan'[i].i \in 1..Sent(call'[chan'[i].t], out'[chan'[i].t])
                      /\ chan'[i] = Request(chan'[i].t, call'[chan'[i].t], chan'[i].i)
                      /\ \A k \in chan'[i].i..Size(call'[chan'[i].t]) : got'[chan'[i].t][k] = None
    BY DEF Matched
  <2> QED
    BY <1>2, <1>3
<1>5. Ordered'
  <2> SUFFICES ASSUME NEW i \in 1..Len(chan'), NEW j \in 1..Len(chan'), i < j, Awaited(i)', Awaited(j)', chan'[i].t = chan'[j].t
               PROVE  chan'[i].i < chan'[j].i
    BY DEF Ordered
  <2>1. i + h < j + h
    BY <1>1
  <2> QED
    BY <1>2, <2>1, SMTT(30) DEF Ordered
<1> QED
  BY <1>4, <1>5

\* There is an oldest entry.
LEMMA OldestIsCached ==
  ASSUME TypeOK, Cached # {}
  PROVE  Oldest \in Cached
<1> DEFINE R == OpToRel(<, Nat)
           T == {cache[s] : s \in Cached}
<1>1. \A s \in Cached : cache[s] \in Nat
  BY DEF TypeOK, Cached
<1>2. T \subseteq Nat /\ T # {}
  BY <1>1
<1>3. PICK n \in T : \A m \in T : ~ (<<m, n>> \in R)
  <2>1. IsWellFoundedOn(R, Nat)
    BY NatLessThanWellFounded
  <2> HIDE DEF R, T
  <2> QED
    BY <1>2, <2>1, WFMin
<1>4. \A m \in T : n <= m
  <2>1. \A a, b \in Nat : a < b => <<a, b>> \in R
    BY DEF OpToRel
  <2>2. \A m \in T : m \in Nat /\ n \in Nat /\ ~ (m < n)
    <3> HIDE DEF R, T
    <3> QED
      BY <1>2, <1>3, <2>1
  <2> QED
    BY <2>2
<1>5. PICK s \in Cached : cache[s] = n
  BY <1>3
<1>6. \A z \in Cached : cache[s] <= cache[z]
  BY <1>4, <1>5
<1> QED
  BY <1>6 DEF Oldest

CloseOf(n) == [op |-> "close", name |-> n]

LEMMA PublishDoes ==
  ASSUME TypeOK, NEW x \in Lookups, Publish(x)
  PROVE  /\ cache' \in [Sqls -> Nat \cup {None}] /\ chan' \in Seq(Messages)
         /\ \/ cache' = cache /\ chan' = chan
            \/ /\ x.parse /\ x.sql \notin Cached /\ cache' = [cache EXCEPT ![x.sql] = x.name] /\ chan' = chan
            \/ /\ x.parse /\ x.sql \notin Cached
               /\ \E o \in Cached : /\ cache' = [cache EXCEPT ![o] = None, ![x.sql] = x.name]
                                    /\ chan' = chan \/ chan' = Append(chan, CloseOf(cache[o]))
<1>1. x.sql \in Sqls /\ x.name \in Nat /\ cache \in [Sqls -> Nat \cup {None}] /\ chan \in Seq(Messages)
  BY DEF TypeOK, Lookups
<1>2. CASE ~x.parse \/ x.sql \in Cached
  <2>1. cache' = cache /\ chan' = chan
    BY <1>2 DEF Publish
  <2> QED
    BY <1>1, <2>1
<1>3. CASE x.parse /\ x.sql \notin Cached /\ Cardinality(Cached) < Cap
  <2>1. cache' = [cache EXCEPT ![x.sql] = x.name] /\ chan' = chan
    BY <1>3 DEF Publish
  <2>2. cache' \in [Sqls -> Nat \cup {None}]
    BY <1>1, <2>1
  <2> QED
    BY <1>1, <1>3, <2>1, <2>2
<1>4. CASE x.parse /\ x.sql \notin Cached /\ ~(Cardinality(Cached) < Cap)
  <2>1. Cached # {}
    BY <1>4, FS_EmptySet, Constants
  <2>2. Oldest \in Cached
    BY <2>1, OldestIsCached
  <2>3. /\ cache' = [cache EXCEPT ![Oldest] = None, ![x.sql] = x.name]
        /\ chan' = IF Len(chan) < ChanCap THEN Append(chan, [op |-> "close", name |-> cache[Oldest]]) ELSE chan
    BY <1>4 DEF Publish
  <2>4. chan' = chan \/ chan' = Append(chan, CloseOf(cache[Oldest]))
    BY <2>3 DEF CloseOf
  <2>5. cache[Oldest] \in Nat
    BY <1>1, <2>2 DEF Cached
  <2>6. CloseOf(cache[Oldest]) \in Messages
    BY <2>5 DEF Messages, CloseOf
  <2>7. chan' \in Seq(Messages)
    BY <1>1, <2>4, <2>6
  <2>8. cache' \in [Sqls -> Nat \cup {None}]
    BY <1>1, <2>3
  <2> QED
    BY <1>4, <2>2, <2>3, <2>4, <2>7, <2>8
<1> QED
  BY <1>2, <1>3, <1>4

LEMMA ForgetDoes ==
  ASSUME TypeOK, NEW t \in Tasks, chan' = Forget(t, chan)
  PROVE  /\ chan' \in Seq(Messages) /\ Len(chan') = Len(chan)
         /\ \A i \in 1..Len(chan) :
              /\ chan'[i].op = chan[i].op /\ (chan[i].op = "exec" => chan'[i].x = chan[i].x)
              /\ IF chan[i].op # "close" /\ chan[i].t = t THEN chan'[i].t = None ELSE chan'[i] = chan[i]
<1>1. chan \in Seq(Messages) /\ DOMAIN chan = 1..Len(chan) /\ Len(chan) \in Nat
  BY DEF TypeOK
<1>2. chan' = [i \in 1..Len(chan) |-> IF chan[i].op # "close" /\ chan[i].t = t THEN [chan[i] EXCEPT !.t = None] ELSE chan[i]]
  BY <1>1 DEF Forget
<1>3. ASSUME NEW i \in 1..Len(chan)
      PROVE  /\ chan'[i] \in Messages /\ chan'[i].op = chan[i].op /\ (chan[i].op = "exec" => chan'[i].x = chan[i].x)
             /\ IF chan[i].op # "close" /\ chan[i].t = t THEN chan'[i].t = None ELSE chan'[i] = chan[i]
  <2>1. chan[i] \in Messages
    BY <1>1
  <2>2. CASE chan[i].op # "close" /\ chan[i].t = t
    <3>1. chan'[i] = [chan[i] EXCEPT !.t = None]
      BY <1>2, <2>2
    <3>2. CASE chan[i].op = "exec"
      <4>1. chan[i] \in [t : Tasks \cup {None}, i : Nat, op : {"exec"}, x : Lookups]
        BY <2>1, <3>2 DEF Messages
      <4>2. /\ chan'[i] \in [t : Tasks \cup {None}, i : Nat, op : {"exec"}, x : Lookups]
            /\ chan'[i].op = chan[i].op /\ chan'[i].x = chan[i].x /\ chan'[i].t = None
        BY <3>1, <4>1
      <4> QED
        BY <2>2, <4>2 DEF Messages
    <3>3. CASE chan[i].op # "exec"
      <4>1. chan[i] \in [t : Tasks \cup {None}, i : Nat, op : {"setup", "commit"}]
        BY <2>1, <2>2, <3>3 DEF Messages
      <4>2. /\ chan'[i] \in [t : Tasks \cup {None}, i : Nat, op : {"setup", "commit"}]
            /\ chan'[i].op = chan[i].op /\ chan'[i].t = None
        BY <3>1, <4>1
      <4> QED
        BY <2>2, <3>3, <4>2 DEF Messages
    <3> QED
      BY <3>2, <3>3
  <2>3. CASE ~(chan[i].op # "close" /\ chan[i].t = t)
    BY <1>2, <2>1, <2>3
  <2> QED
    BY <2>2, <2>3
<1>4. chan' \in [1..Len(chan) -> Messages]
  BY <1>2, <1>3
<1> QED
  BY <1>1, <1>3, <1>4

\* What an attempt comes to is one of its responses, unless it is success.
LEMMA OutcomeIs ==
  ASSUME TypeOK, NEW t \in Tasks, Shape(t), pc[t] \in {"send", "wait"}
  PROVE  /\ DOMAIN got[t] = 1..Size(call[t])
         /\ Failed(t) <=> \E i \in 1..Size(call[t]) : got[t][i] \notin {None, "ok"}
         /\ ~Failed(t) => Outcome(t) = "ok"
         /\ Failed(t) => Outcome(t) # "ok" /\ \E i \in 1..Size(call[t]) : Outcome(t) = got[t][i]
<1>1. Size(call[t]) \in 1..3 /\ DOMAIN got[t] = 1..Size(call[t])
  BY Sizes DEF Shape
<1>2. ASSUME Failed(t)
      PROVE  Outcome(t) # "ok" /\ \E i \in 1..Size(call[t]) : Outcome(t) = got[t][i]
  <2> DEFINE P(i) == got[t][i] # "ok" /\ \A j \in 1..(i - 1) : got[t][j] = "ok"
  <2>1. PICK k \in 1..Size(call[t]) : got[t][k] # "ok"
    BY <1>1, <1>2 DEF Failed
  <2>2. \E i \in 1..Size(call[t]) : P(i)
    <3>1. CASE got[t][1] # "ok"
      BY <1>1, <3>1
    <3>2. CASE got[t][1] = "ok" /\ got[t][2] # "ok" /\ k # 1
      <4>1. 2 \in 1..Size(call[t])
        BY <1>1, <2>1, <3>2
      <4>2. P(2)
        BY <3>2
      <4> QED
        BY <4>1, <4>2
    <3>3. CASE got[t][1] = "ok" /\ got[t][2] = "ok"
      <4>1. k = 3 /\ 3 \in 1..Size(call[t])
        BY <1>1, <2>1, <3>3
      <4>2. P(3)
        BY <2>1, <3>3, <4>1
      <4> QED
        BY <4>1, <4>2
    <3> QED
      BY <2>1, <3>1, <3>2, <3>3
  <2>3. Outcome(t) = got[t][CHOOSE i \in DOMAIN got[t] : P(i)]
    BY <1>2 DEF Outcome
  <2>4. (CHOOSE i \in DOMAIN got[t] : P(i)) \in 1..Size(call[t]) /\ P(CHOOSE i \in DOMAIN got[t] : P(i))
    BY <1>1, <2>2
  <2> QED
    BY <2>3, <2>4
<1>3. ~Failed(t) => Outcome(t) = "ok"
  BY DEF Outcome
<1>4. Failed(t) <=> \E i \in 1..Size(call[t]) : got[t][i] \notin {None, "ok"}
  BY <1>1 DEF Failed
<1> QED
  BY <1>1, <1>2, <1>3, <1>4

\* Whoever has his answer waits for nothing more, but for a COMMIT.
LEMMA NothingLeft ==
  ASSUME Wire, NEW t \in Tasks, Answered(t), NEW i \in 1..Len(chan), Awaited(i), chan[i].t = t
  PROVE  chan[i].op = "commit" /\ Failed(t) /\ call[t].does.sends # "batch"
<1>1. Shape(t) /\ pc[t] = "wait" /\ TypeOK
  BY DEF Wire, Answered
<1>2. /\ Size(call[t]) \in 1..3 /\ call[t].does.sends \in {"one", "tx", "batch"}
      /\ call[t].does.sends = "one" => Size(call[t]) = 1
      /\ call[t].does.sends = "tx" => Size(call[t]) = 3
      /\ Sent(call[t], out[t]) = Size(call[t])
  BY <1>1, Sizes
<1>3. /\ chan[i].i \in 1..Size(call[t]) /\ chan[i] = Request(t, call[t], chan[i].i)
      /\ \A k \in chan[i].i..Size(call[t]) : got[t][k] = None
  BY <1>2 DEF Wire, Matched
<1>4. got[t][chan[i].i] = None
  BY <1>2, <1>3
<1>5. DOMAIN got[t] = 1..Size(call[t]) /\ (Failed(t) <=> \E k \in 1..Size(call[t]) : got[t][k] \notin {None, "ok"})
  BY <1>1, OutcomeIs
<1>6. Failed(t) /\ call[t].does.sends # "batch"
  BY <1>3, <1>4, <1>5 DEF Answered
<1>7. PICK k \in 1..Size(call[t]) : got[t][k] \notin {None, "ok"}
  BY <1>5, <1>6
<1>8. k < chan[i].i
  BY <1>2, <1>3, <1>7
<1>9. call[t].does.sends = "tx"
  BY <1>2, <1>3, <1>6, <1>7, <1>8
<1>10. got[t][1] \in {"ok", None}
  BY <1>1, <1>9 DEF Shape
<1>11. chan[i].i = 3
  BY <1>2, <1>3, <1>7, <1>8, <1>9, <1>10
<1> QED
  BY <1>3, <1>6, <1>9, <1>11 DEF Request

-----------------------------------------------------------------------------
(* The steps keep requests and responses in place.                         *)

LEMMA LookUpWire ==
  ASSUME Wire, NEW t \in Tasks, pc[t] \in {"idle", "look"}, NEW c \in Records, c.does \in Policies,
         Len(c.sqls) = (IF c.does.sends = "batch" THEN 2 ELSE 1), Len(c.execs) < Len(c.sqls), LookUp(t, c),
         \A j \in 1..Len(c.execs) : c.execs[j].sql = c.sqls[j], c.done = 0, c.again => c.does.again # "never",
         UNCHANGED <<cache, chan, serverVars, unsure>>, alone' \in Tasks \cup {None}, ran' \in Nat
  PROVE  Wire'
<1>1. TypeOK /\ Shape(t) /\ Matched /\ Ordered
  BY DEF Wire
<1>2. out[t] = <<>> /\ got[t] = <<>>
  BY <1>1 DEF Shape
<1>3. /\ call' \in [Tasks -> Records] /\ counter' \in Nat
      /\ pc' \in [Tasks -> {"idle", "look", "send", "wait"}]
      /\ out' \in [Tasks -> Seq(Messages)]
      /\ got' \in [Tasks -> UNION {[1..n -> Results \cup {None}] : n \in Nat}]
      /\ Shape(t)'
      /\ \A u \in Tasks \ {t} : call'[u] = call[u] /\ pc'[u] = pc[u] /\ out'[u] = out[u] /\ got'[u] = got[u]
  BY <1>1, <1>2, LookUpShape
<1>4. TypeOK'
  BY <1>1, <1>3 DEF TypeOK, serverVars
<1>5. \A u \in Tasks : Shape(u)'
  BY <1>3, TaskFrame DEF Wire
<1>6. Matched' /\ Ordered'
  <2>1. chan' = chan
    OBVIOUS
  <2>2. ASSUME NEW i \in 1..Len(chan'), Awaited(i)'
        PROVE  LET r == chan[i + 0] IN
               /\ i + 0 \in 1..Len(chan) /\ chan'[i] = r
               /\ pc'[r.t] \in {"send", "wait"} /\ call'[r.t] = call[r.t] /\ out'[r.t] = out[r.t]
               /\ \A k \in r.i..Size(call[r.t]) : got'[r.t][k] = got[r.t][k]
    <3>1. i \in 1..Len(chan) /\ i + 0 = i /\ Awaited(i)
      BY <2>1, <2>2 DEF Awaited
    <3>2. chan[i].t \in Tasks /\ pc[chan[i].t] \in {"send", "wait"}
      BY <1>1, <3>1, Message DEF Matched
    <3>3. chan[i].t # t
      BY <3>2
    <3> QED
      BY <1>3, <2>1, <3>1, <3>2, <3>3, SMTT(40)
  <2> QED
    BY <1>1, <1>4, <2>2, KeepsMatched
<1> QED
  BY <1>4, <1>5, <1>6 DEF Wire

LEMMA CallWire ==
  ASSUME Wire, NEW t \in Tasks, Call(t)
  PROVE  Wire'
<1>0. PICK does \in Policies : \E sqls \in [1..(IF does.sends = "batch" THEN 2 ELSE 1) -> Sqls] :
        ran' = ran + Len(sqls) /\ LookUp(t, [NoCall EXCEPT !.does = does, !.sqls = sqls])
  BY DEF Call, Policies
<1>1. PICK sqls \in [1..(IF does.sends = "batch" THEN 2 ELSE 1) -> Sqls] :
        ran' = ran + Len(sqls) /\ LookUp(t, [NoCall EXCEPT !.does = does, !.sqls = sqls])
  BY <1>0
<1> DEFINE c == [NoCall EXCEPT !.does = does, !.sqls = sqls]
<1>2. sqls \in Seq(Sqls) /\ Len(sqls) = IF does.sends = "batch" THEN 2 ELSE 1
  OBVIOUS
<1>3. /\ c.does = does /\ c.sqls = sqls /\ c.execs = <<>> /\ c.done = 0 /\ c.again = FALSE
      /\ c \in Records
  <2>1. /\ NoCall \in Records /\ NoCall.execs = <<>> /\ NoCall.done = 0 /\ NoCall.again = FALSE
    BY DEF NoCall, Records
  <2> QED
    BY <1>2, <2>1 DEF Records
<1>4. Len(c.execs) = 0 /\ 0 < Len(c.sqls) /\ Len(sqls) \in Nat
  BY <1>2, <1>3
<1>5. alone' \in Tasks \cup {None} /\ ran' \in Nat
  <2>1. ran \in Nat
    BY DEF Wire, TypeOK
  <2>2. alone' \in Tasks \cup {None}
    BY DEF Call
  <2> QED
    BY <1>1, <1>4, <2>1, <2>2
<1>6. UNCHANGED <<cache, chan, serverVars, unsure>> /\ pc[t] \in {"idle", "look"}
  BY DEF Call
<1>7. LookUp(t, c)
  BY <1>1
<1> HIDE DEF c
<1>8. \A j \in 1..Len(c.execs) : c.execs[j].sql = c.sqls[j]
  BY <1>4
<1> QED
  BY <1>2, <1>3, <1>4, <1>5, <1>6, <1>7, <1>8, LookUpWire

LEMMA LookWire ==
  ASSUME Wire, NEW t \in Tasks, Look(t)
  PROVE  Wire'
<1>1. TypeOK /\ Shape(t) /\ pc[t] = "look" /\ LookUp(t, call[t]) /\ call[t] \in Records
  BY DEF Wire, Look, TypeOK
<1>2. UNCHANGED <<cache, chan, serverVars, unsure>> /\ alone' \in Tasks \cup {None} /\ ran' \in Nat
  BY <1>1 DEF Look, TypeOK
<1>3. /\ call[t].does \in Policies
      /\ Len(call[t].sqls) = IF call[t].does.sends = "batch" THEN 2 ELSE 1
      /\ Len(call[t].execs) < Len(call[t].sqls) /\ call[t].done = 0
      /\ \A j \in 1..Len(call[t].execs) : call[t].execs[j].sql = call[t].sqls[j]
      /\ call[t].again => call[t].does.again # "never"
  BY <1>1 DEF Shape
<1> QED
  BY <1>1, <1>2, <1>3, LookUpWire

LEMMA RequestFields ==
  ASSUME TypeOK, NEW t \in Tasks, Shape(t), pc[t] \in {"send", "wait"}, NEW j \in 1..Size(call[t])
  PROVE  LET r == Request(t, call[t], j) IN
         /\ r.t = t /\ r.i = j /\ r.op # "close"
         /\ r.op = "exec" => r.x = call[t].execs[IF call[t].does.sends = "tx" THEN 1 ELSE j]
         /\ r.op = "exec" <=> ~(call[t].does.sends = "tx" /\ j # 2)
         /\ r.op = "commit" <=> call[t].does.sends = "tx" /\ j = 3
         /\ r.op = "setup" <=> call[t].does.sends = "tx" /\ j = 1
<1>1. CASE call[t].does.sends # "tx"
  BY <1>1 DEF Request, Exec
<1>2. CASE call[t].does.sends = "tx" /\ j = 2
  BY <1>2 DEF Request, Exec
<1>3. CASE call[t].does.sends = "tx" /\ j # 2
  <2>1. j \in {1, 3}
    BY <1>3 DEF Size
  <2> QED
    BY <1>3, <2>1 DEF Request
<1> QED
  BY <1>1, <1>2, <1>3

LEMMA SendWire ==
  ASSUME Wire, NEW t \in Tasks, Send(t)
  PROVE  Wire'
<1>1. TypeOK /\ Shape(t) /\ Matched /\ Ordered /\ pc[t] = "send"
  BY DEF Wire, Send
<1>2. /\ Len(out[t]) \in 1..Size(call[t]) /\ out[t] \in Seq(Messages) /\ chan \in Seq(Messages) /\ Len(chan) \in Nat
      /\ \A j \in 1..Len(out[t]) : out[t][j] = Request(t, call[t], Sent(call[t], out[t]) + j)
      /\ \A j \in (Sent(call[t], out[t]) + 1)..Size(call[t]) : got[t][j] = None
  <2>1. out[t] \in Seq(Messages) /\ chan \in Seq(Messages)
    BY <1>1 DEF TypeOK
  <2> QED
    BY <1>1, <2>1 DEF Shape
<1>3. Size(call[t]) \in 1..3 /\ Sent(call[t], out[t]) = Size(call[t]) - Len(out[t]) /\ Sent(call[t], out[t]) \in Nat
  BY <1>1, Sizes DEF Sent
<1> DEFINE k == Sent(call[t], out[t]) + 1
           r == Request(t, call[t], k)
<1>4. k \in 1..Size(call[t]) /\ Head(out[t]) = r /\ r \in Messages
  <2>1. k \in 1..Size(call[t])
    BY <1>2, <1>3
  <2>2. Head(out[t]) = out[t][1] /\ out[t][1] \in Messages
    BY <1>2
  <2> QED
    BY <1>2, <2>1, <2>2
<1>5. r.t = t /\ r.i = k /\ r.op # "close"
  BY <1>1, <1>4, RequestFields
<1>6. /\ chan' = Append(chan, r) /\ out' = [out EXCEPT ![t] = Tail(@)]
      /\ pc' = [pc EXCEPT ![t] = IF Len(out[t]) = 1 THEN "wait" ELSE "send"]
      /\ call' = call /\ got' = got
  BY <1>4 DEF Send
<1> HIDE DEF r, k
<1>7. TypeOK'
  <2>1. chan' \in Seq(Messages) /\ Tail(out[t]) \in Seq(Messages)
    BY <1>2, <1>4, <1>6
  <2>2. out' \in [Tasks -> Seq(Messages)] /\ pc' \in [Tasks -> {"idle", "look", "send", "wait"}]
    BY <1>1, <1>6, <2>1 DEF TypeOK
  <2> QED
    BY <1>1, <1>6, <2>1, <2>2 DEF TypeOK, Send, cacheVars, serverVars
<1>8. /\ \A u \in Tasks \ {t} : pc'[u] = pc[u] /\ out'[u] = out[u]
      /\ pc'[t] = (IF Len(out[t]) = 1 THEN "wait" ELSE "send")
      /\ out'[t] = Tail(out[t]) /\ Len(out'[t]) = Len(out[t]) - 1
      /\ \A j \in 1..Len(out'[t]) : out'[t][j] = out[t][j + 1]
  BY <1>1, <1>2, <1>6 DEF TypeOK
<1>9. Sent(call'[t], out'[t]) = k /\ k = Sent(call[t], out[t]) + 1
  BY <1>2, <1>3, <1>6, <1>8 DEF Sent, k
<1>10. Shape(t)'
  <2>0. /\ call[t].does \in Policies
        /\ Len(call[t].sqls) = IF call[t].does.sends = "batch" THEN 2 ELSE 1
        /\ Len(call[t].execs) <= Len(call[t].sqls)
        /\ \A j \in 1..Len(call[t].execs) : call[t].execs[j].sql = call[t].sqls[j]
        /\ call[t].again => call[t].does.again # "never"
        /\ Len(call[t].execs) = Len(call[t].sqls)
        /\ got[t] \in [1..Size(call[t]) -> Results \cup {None}]
        /\ call[t].done < Len(call[t].execs)
        /\ call[t].does.sends = "tx" => got[t][1] \in {"ok", None} /\ got[t][3] \in {"ok", None}
    BY <1>1 DEF Shape
  <2>1. CASE Len(out[t]) = 1
    <3>1. pc'[t] = "wait" /\ out'[t] = <<>>
      <4>1. out'[t] \in Seq(Messages)
        BY <1>7 DEF TypeOK
      <4>2. Len(out'[t]) = 0
        <5>1. Len(out'[t]) = Len(out[t]) - 1
          BY <1>8
        <5> QED
          BY <2>1, <5>1
      <4>3. out'[t] = <<>>
        BY <4>1, <4>2
      <4> QED
        BY <1>8, <2>1, <4>3
    <3>2. pc'[t] # "idle" /\ pc'[t] \notin {"idle", "look"} /\ pc'[t] # "look" /\ pc'[t] # "send"
      BY <3>1
    <3> QED
      BY <1>6, <2>0, <3>1, <3>2, ZenonT(60) DEF Shape
  <2>2. CASE Len(out[t]) # 1
    <3>1. pc'[t] = "send" /\ Len(out'[t]) \in 1..Size(call[t])
      <4>1. pc'[t] = "send" /\ Len(out'[t]) = Len(out[t]) - 1
        BY <1>8, <2>2
      <4>2. \A m \in 1..3 : \A l \in 1..m : l # 1 => l - 1 \in 1..m
        OBVIOUS
      <4> QED
        BY <1>2, <1>3, <2>2, <4>1, <4>2
    <3>2. \A j \in 1..Len(out'[t]) : out'[t][j] = Request(t, call'[t], Sent(call'[t], out'[t]) + j)
      <4> SUFFICES ASSUME NEW j \in 1..Len(out'[t])
                   PROVE  out'[t][j] = Request(t, call'[t], k + j)
        BY <1>9
      <4>1. j + 1 \in 1..Len(out[t]) /\ Sent(call[t], out[t]) + (j + 1) = k + j
        BY <1>2, <1>3, <1>8, <1>9, SMTT(40)
      <4> QED
        BY <1>2, <1>6, <1>8, <4>1
    <3>3. \A j \in (Sent(call'[t], out'[t]) + 1)..Size(call'[t]) : got'[t][j] = None
      <4>1. \A j \in (k + 1)..Size(call[t]) : j \in (Sent(call[t], out[t]) + 1)..Size(call[t])
        BY <1>3, <1>9
      <4> QED
        BY <1>2, <1>6, <1>9, <4>1
    <3>4. pc'[t] # "idle" /\ pc'[t] \notin {"idle", "look"} /\ pc'[t] # "look"
      BY <3>1
    <3> QED
      BY <1>6, <2>0, <3>1, <3>2, <3>3, <3>4, Zenon DEF Shape
  <2> QED
    BY <2>1, <2>2
<1>11. \A u \in Tasks : Shape(u)'
  BY <1>6, <1>8, <1>10, TaskFrame DEF Wire
<1>12. ASSUME NEW i \in 1..Len(chan'), Awaited(i)'
       PROVE  \/ i \in 1..Len(chan) /\ chan'[i] = chan[i] /\ Awaited(i)
              \/ i = Len(chan) + 1 /\ chan'[i] = r
  BY <1>2, <1>6, <1>12 DEF Awaited
<1>13. Matched'
  <2> SUFFICES ASSUME NEW i \in 1..Len(chan'), Awaited(i)'
               PROVE  LET q == chan'[i] IN
                      /\ pc'[q.t] \in {"send", "wait"} /\ q.i \in 1..Sent(call'[q.t], out'[q.t])
                      /\ q = Request(q.t, call'[q.t], q.i) /\ \A j \in q.i..Size(call'[q.t]) : got'[q.t][j] = None
    BY DEF Matched
  <2>1. CASE i \in 1..Len(chan) /\ chan'[i] = chan[i] /\ Awaited(i)
    <3> DEFINE q == chan[i]
    <3>1. /\ pc[q.t] \in {"send", "wait"} /\ q.i \in 1..Sent(call[q.t], out[q.t])
          /\ q = Request(q.t, call[q.t], q.i) /\ \A j \in q.i..Size(call[q.t]) : got[q.t][j] = None
      BY <1>1, <2>1 DEF Matched
    <3>2. q.t \in Tasks
      BY <1>1, <2>1, Message
    <3> HIDE DEF q
    <3>3. pc'[q.t] \in {"send", "wait"} /\ q.i \in 1..Sent(call'[q.t], out'[q.t])
      <4>1. CASE q.t = t
        BY <1>3, <1>8, <1>9, <3>1, <4>1
      <4>2. CASE q.t # t
        BY <1>6, <1>8, <3>1, <3>2, <4>2
      <4> QED
        BY <4>1, <4>2
    <3> QED
      BY <1>6, <2>1, <3>1, <3>3 DEF q
  <2>2. CASE i = Len(chan) + 1 /\ chan'[i] = r
    <3>1. /\ pc'[t] \in {"send", "wait"} /\ k \in 1..Sent(call'[t], out'[t])
          /\ \A j \in k..Size(call'[t]) : got'[t][j] = None
      BY <1>2, <1>3, <1>4, <1>6, <1>8, <1>9
    <3>2. r = Request(t, call'[t], k)
      BY <1>6 DEF r
    <3> QED
      BY <1>5, <2>2, <3>1, <3>2
  <2> QED
    BY <1>12, <2>1, <2>2
<1>14. Ordered'
  <2> SUFFICES ASSUME NEW i \in 1..Len(chan'), NEW j \in 1..Len(chan'), i < j, Awaited(i)', Awaited(j)', chan'[i].t = chan'[j].t
               PROVE  chan'[i].i < chan'[j].i
    BY DEF Ordered
  <2>1. i \in 1..Len(chan) /\ chan'[i] = chan[i] /\ Awaited(i)
    BY <1>2, <1>6, <1>12
  <2>2. CASE j \in 1..Len(chan) /\ chan'[j] = chan[j] /\ Awaited(j)
    BY <1>1, <2>1, <2>2 DEF Ordered
  <2>3. CASE j = Len(chan) + 1 /\ chan'[j] = r
    <3>1. chan[i].t = t /\ chan'[j].i = k
      BY <1>5, <2>1, <2>3
    <3>2. chan[i].i \in 1..Sent(call[t], out[t])
      BY <1>1, <2>1, <3>1 DEF Matched
    <3> QED
      BY <1>3, <1>9, <2>1, <3>1, <3>2
  <2> QED
    BY <1>12, <2>2, <2>3
<1> QED
  BY <1>7, <1>11, <1>13, <1>14 DEF Wire

\* Whoever has no request on its way may end his attempt.
LEMMA EndWire ==
  ASSUME Wire, NEW t \in Tasks, TypeOK', Shape(t)',
         \A u \in Tasks \ {t} : call'[u] = call[u] /\ pc'[u] = pc[u] /\ out'[u] = out[u] /\ got'[u] = got[u],
         \A i \in 1..Len(chan') : Awaited(i)' => i \in 1..Len(chan) /\ chan'[i] = chan[i] /\ chan[i].t # t
  PROVE  Wire'
<1>1. TypeOK /\ Matched /\ Ordered
  BY DEF Wire
<1>2. \A u \in Tasks : Shape(u)'
  BY TaskFrame DEF Wire
<1>3. ASSUME NEW i \in 1..Len(chan'), Awaited(i)'
      PROVE  LET r == chan[i + 0] IN
             /\ i + 0 \in 1..Len(chan) /\ chan'[i] = r
             /\ pc'[r.t] \in {"send", "wait"} /\ call'[r.t] = call[r.t] /\ out'[r.t] = out[r.t]
             /\ \A k \in r.i..Size(call[r.t]) : got'[r.t][k] = got[r.t][k]
  <2>1. i + 0 = i /\ i \in 1..Len(chan) /\ chan'[i] = chan[i] /\ chan[i].t # t
    BY <1>3
  <2>2. Awaited(i)
    BY <1>3, <2>1 DEF Awaited
  <2>3. chan[i].t \in Tasks /\ pc[chan[i].t] \in {"send", "wait"}
    BY <1>1, <2>1, <2>2, Message DEF Matched
  <2> QED
    BY <2>1, <2>3
<1>4. Matched' /\ Ordered'
  BY <1>1, <1>3, KeepsMatched
<1> QED
  BY <1>2, <1>4 DEF Wire

LEMMA CloseIsNotAwaited ==
  ASSUME TypeOK, NEW o \in Sqls, chan' = chan \/ chan' = Append(chan, CloseOf(cache[o])),
         NEW i \in 1..Len(chan'), Awaited(i)'
  PROVE  i \in 1..Len(chan) /\ chan'[i] = chan[i] /\ Awaited(i)
<1>1. chan \in Seq(Messages)
  BY DEF TypeOK
<1>2. CASE chan' = chan
  BY <1>2 DEF Awaited
<1>3. CASE chan' = Append(chan, CloseOf(cache[o]))
  <2>1. CASE i = Len(chan) + 1
    BY <1>1, <1>3, <2>1 DEF Awaited, CloseOf
  <2>2. CASE i # Len(chan) + 1
    <3>1. i \in 1..Len(chan) /\ chan'[i] = chan[i]
      BY <1>1, <1>3, <2>2
    <3> QED
      BY <3>1 DEF Awaited
  <2> QED
    BY <2>1, <2>2
<1> QED
  BY <1>2, <1>3

\* The part of an end that Succeeds and Fails have in common.
LEMMA ReturnShape ==
  ASSUME TypeOK, NEW t \in Tasks, Shape(t), pc[t] = "wait", Returns(t)
  PROVE  /\ call' \in [Tasks -> Records] /\ pc' \in [Tasks -> {"idle", "look", "send", "wait"}]
         /\ got' \in [Tasks -> UNION {[1..n -> Results \cup {None}] : n \in Nat}]
         /\ alone' \in Tasks \cup {None} /\ Shape(t)' /\ pc'[t] = "idle" /\ call'[t] = NoCall /\ out' = out
         /\ \A u \in Tasks \ {t} : call'[u] = call[u] /\ pc'[u] = pc[u] /\ got'[u] = got[u]
<1>1. NoCall \in Records
  BY DEF NoCall, Records
<1>2. <<>> \in UNION {[1..n -> Results \cup {None}] : n \in Nat}
  <2>1. <<>> \in [1..0 -> Results \cup {None}]
    OBVIOUS
  <2> QED
    BY <2>1
<1>3. /\ pc' = [pc EXCEPT ![t] = "idle"] /\ call' = [call EXCEPT ![t] = NoCall] /\ got' = [got EXCEPT ![t] = <<>>]
      /\ out' = out /\ alone' \in Tasks \cup {None}
  BY DEF Returns, TypeOK
<1>4. /\ call' \in [Tasks -> Records] /\ pc' \in [Tasks -> {"idle", "look", "send", "wait"}]
      /\ got' \in [Tasks -> UNION {[1..n -> Results \cup {None}] : n \in Nat}]
  <2>1. call' \in [Tasks -> Records]
    BY <1>1, <1>3 DEF TypeOK
  <2>2. pc' \in [Tasks -> {"idle", "look", "send", "wait"}]
    BY <1>3 DEF TypeOK
  <2>3. got' \in [Tasks -> UNION {[1..n -> Results \cup {None}] : n \in Nat}]
    BY <1>2, <1>3 DEF TypeOK
  <2> QED
    BY <2>1, <2>2, <2>3
<1>5. pc'[t] = "idle" /\ call'[t] = NoCall /\ got'[t] = <<>> /\ out'[t] = <<>>
  BY <1>3 DEF TypeOK, Shape
<1>6. Shape(t)'
  BY <1>5 DEF Shape
<1>7. \A u \in Tasks \ {t} : call'[u] = call[u] /\ pc'[u] = pc[u] /\ got'[u] = got[u]
  BY <1>3 DEF TypeOK
<1> QED
  BY <1>3, <1>4, <1>5, <1>6, <1>7

\* What Succeeds publishes was answered with "ok", or is a statement of a batch.
LEMMA SucceedsIs ==
  ASSUME Wire, NEW t \in Tasks, Succeeds(t)
  PROVE  LET i == call[t].done + 1
             x == call[t].execs[i]
         IN /\ TypeOK /\ Shape(t) /\ pc[t] = "wait" /\ Answered(t)
            /\ i \in 1..Len(call[t].execs) /\ x \in Lookups /\ Publish(x)
            /\ \A k \in 1..Size(call[t]) : got[t][k] # None
            /\ \A j \in 1..Len(chan) : Awaited(j) => chan[j].t # t
            /\ call[t].does.sends # "batch" => Response(call[t], got[t], i) = "ok" /\ i = 1
            /\ i < Len(call[t].execs) => call[t].does.sends = "batch"
            /\ i = Len(call[t].execs) \/ i < Len(call[t].execs)
<1>1. TypeOK /\ Shape(t) /\ pc[t] = "wait" /\ Answered(t)
  BY DEF Wire, Succeeds, Answered
<1>2. /\ Size(call[t]) \in 1..3 /\ Len(call[t].execs) \in 1..2
      /\ call[t].does.sends # "batch" => Len(call[t].execs) = 1
      /\ call[t].does.sends = "one" => Size(call[t]) = 1
      /\ call[t].does.sends = "tx" => Size(call[t]) = 3
      /\ call[t].execs \in Seq(Lookups) /\ call[t].done \in Nat
      /\ call[t].does.sends \in {"one", "tx", "batch"}
      /\ call[t].done < Len(call[t].execs)
  BY <1>1, Sizes DEF Shape
<1> DEFINE i == call[t].done + 1
           x == call[t].execs[i]
<1>3. i \in 1..Len(call[t].execs) /\ x \in Lookups
  BY <1>2
<1>4. Publish(x)
  BY DEF Succeeds
<1>5. /\ DOMAIN got[t] = 1..Size(call[t])
      /\ Failed(t) <=> \E k \in 1..Size(call[t]) : got[t][k] \notin {None, "ok"}
      /\ Failed(t) => Outcome(t) # "ok"
  BY <1>1, OutcomeIs
<1>6. call[t].does.sends # "batch" => ~Failed(t)
  BY <1>5 DEF Succeeds
<1>7. \A k \in 1..Size(call[t]) : got[t][k] # None
  BY <1>1, <1>5, <1>6 DEF Answered
<1>8. \A j \in 1..Len(chan) : Awaited(j) => chan[j].t # t
  BY <1>1, <1>6, NothingLeft
<1>9. call[t].does.sends # "batch" => Response(call[t], got[t], i) = "ok" /\ i = 1
  <2> SUFFICES ASSUME call[t].does.sends # "batch" PROVE Response(call[t], got[t], i) = "ok" /\ i = 1
    OBVIOUS
  <2>1. i = 1
    <3>1. Len(call[t].execs) = 1 /\ call[t].done \in Nat /\ call[t].done < Len(call[t].execs)
      BY <1>2
    <3> QED
      BY <3>1
  <2>2. \A k \in 1..Size(call[t]) : got[t][k] = "ok"
    <3>1. ~ \E k \in 1..Size(call[t]) : got[t][k] \notin {None, "ok"}
      BY <1>5, <1>6
    <3> QED
      BY <1>7, <3>1
  <2>3. (call[t].does.sends = "tx" => 2 \in 1..Size(call[t])) /\ 1 \in 1..Size(call[t])
    BY <1>2
  <2> QED
    BY <2>1, <2>2, <2>3 DEF Response
<1>10. /\ i < Len(call[t].execs) => call[t].does.sends = "batch"
       /\ i = Len(call[t].execs) \/ i < Len(call[t].execs)
  <2>1. Len(call[t].execs) \in 1..2 /\ call[t].done \in Nat /\ call[t].done < Len(call[t].execs)
    BY <1>2
  <2>2. \A d \in Nat, l \in 1..2 : d < l => (d + 1 = l \/ d + 1 < l) /\ (d + 1 < l => l # 1)
    OBVIOUS
  <2> QED
    BY <1>2, <2>1, <2>2
<1> HIDE DEF x, i
<1> SUFFICES /\ TypeOK /\ Shape(t) /\ pc[t] = "wait" /\ Answered(t)
             /\ i \in 1..Len(call[t].execs) /\ x \in Lookups /\ Publish(x)
             /\ \A k \in 1..Size(call[t]) : got[t][k] # None
             /\ \A j \in 1..Len(chan) : Awaited(j) => chan[j].t # t
             /\ call[t].does.sends # "batch" => Response(call[t], got[t], i) = "ok" /\ i = 1
             /\ i < Len(call[t].execs) => call[t].does.sends = "batch"
             /\ i = Len(call[t].execs) \/ i < Len(call[t].execs)
  BY DEF x, i
<1> QED
  BY <1>1, <1>3, <1>4, <1>7, <1>8, <1>9, <1>10

LEMMA SucceedsWire ==
  ASSUME Wire, NEW t \in Tasks, Succeeds(t)
  PROVE  Wire'
<1> DEFINE i == call[t].done + 1
           x == call[t].execs[i]
<1>1. /\ TypeOK /\ Shape(t) /\ pc[t] = "wait"
      /\ i \in 1..Len(call[t].execs) /\ x \in Lookups /\ Publish(x)
      /\ \A j \in 1..Len(chan) : Awaited(j) => chan[j].t # t
      /\ i = Len(call[t].execs) \/ i < Len(call[t].execs)
  BY SucceedsIs
<1> HIDE DEF x
<1>2. /\ cache' \in [Sqls -> Nat \cup {None}] /\ chan' \in Seq(Messages)
      /\ chan' = chan \/ \E o \in Cached : chan' = Append(chan, CloseOf(cache[o]))
  BY <1>1, PublishDoes
<1>3. \A j \in 1..Len(chan') : Awaited(j)' => j \in 1..Len(chan) /\ chan'[j] = chan[j] /\ chan[j].t # t
  <2> SUFFICES ASSUME NEW j \in 1..Len(chan'), Awaited(j)'
               PROVE  j \in 1..Len(chan) /\ chan'[j] = chan[j] /\ chan[j].t # t
    OBVIOUS
  <2>1. j \in 1..Len(chan) /\ chan'[j] = chan[j] /\ Awaited(j)
    <3>1. CASE chan' = chan
      BY <3>1 DEF Awaited
    <3>2. CASE \E o \in Cached : chan' = Append(chan, CloseOf(cache[o]))
      BY <1>1, <3>2, CloseIsNotAwaited DEF Cached
    <3> QED
      BY <1>2, <3>1, <3>2
  <2> QED
    BY <1>1, <2>1
<1>4. unsure' \subseteq Nat
  <2>1. unsure' = unsure \/ unsure' = unsure \cup {x.name}
    BY DEF Succeeds, x
  <2> QED
    BY <1>1, <2>1 DEF TypeOK, Lookups
<1>5. counter' = counter /\ out' = out /\ ran' = ran /\ UNCHANGED serverVars
  BY DEF Succeeds, Returns
<1>6. CASE i = Len(call[t].execs)
  <2>1. Returns(t)
    BY <1>6 DEF Succeeds
  <2>2. /\ call' \in [Tasks -> Records] /\ pc' \in [Tasks -> {"idle", "look", "send", "wait"}]
        /\ got' \in [Tasks -> UNION {[1..n -> Results \cup {None}] : n \in Nat}]
        /\ alone' \in Tasks \cup {None} /\ Shape(t)'
        /\ \A u \in Tasks \ {t} : call'[u] = call[u] /\ pc'[u] = pc[u] /\ got'[u] = got[u]
    BY <1>1, <2>1, ReturnShape
  <2>3. TypeOK'
    BY <1>1, <1>2, <1>4, <1>5, <2>2 DEF TypeOK, serverVars
  <2> QED
    BY <1>3, <1>5, <2>2, <2>3, EndWire
<1>7. CASE i < Len(call[t].execs)
  <2>1. /\ call' = [call EXCEPT ![t].done = i] /\ pc' = pc /\ got' = got /\ alone' = alone
    BY <1>7 DEF Succeeds
  <2>2. call[t] \in Records /\ i \in Nat
    BY <1>1 DEF TypeOK, Records
  <2>3. /\ [call[t] EXCEPT !.done = i] \in Records
        /\ \A f \in {"does", "sqls", "execs", "again"} : [call[t] EXCEPT !.done = i][f] = call[t][f]
        /\ [call[t] EXCEPT !.done = i].done = i
    BY <2>2 DEF Records
  <2>4. /\ call' \in [Tasks -> Records] /\ call'[t] = [call[t] EXCEPT !.done = i]
        /\ \A u \in Tasks \ {t} : call'[u] = call[u]
    BY <1>1, <2>1, <2>3 DEF TypeOK
  <2>5. /\ call'[t].does = call[t].does /\ call'[t].sqls = call[t].sqls /\ call'[t].execs = call[t].execs
        /\ call'[t].again = call[t].again /\ call'[t].done = i
    BY <2>3, <2>4
  <2>6. Shape(t)'
    <3>1. Size(call'[t]) = Size(call[t])
      BY <2>5 DEF Size
    <3>2. /\ call[t].does \in Policies
          /\ Len(call[t].sqls) = IF call[t].does.sends = "batch" THEN 2 ELSE 1
          /\ Len(call[t].execs) <= Len(call[t].sqls)
          /\ \A j \in 1..Len(call[t].execs) : call[t].execs[j].sql = call[t].sqls[j]
          /\ call[t].again => call[t].does.again # "never"
          /\ Len(call[t].execs) = Len(call[t].sqls)
          /\ got[t] \in [1..Size(call[t]) -> Results \cup {None}]
          /\ call[t].does.sends = "tx" => got[t][1] \in {"ok", None} /\ got[t][3] \in {"ok", None}
          /\ out[t] = <<>>
      BY <1>1 DEF Shape
    <3>3. pc'[t] # "idle" /\ pc'[t] \notin {"idle", "look"} /\ pc'[t] # "look" /\ pc'[t] # "send" /\ pc'[t] = "wait"
      BY <1>1, <2>1
    <3>4. call'[t].done < Len(call'[t].execs)
      BY <1>7, <2>5
    <3> QED
      BY <1>5, <2>1, <2>5, <3>1, <3>2, <3>3, <3>4, Zenon DEF Shape
  <2>7. TypeOK'
    BY <1>1, <1>2, <1>4, <1>5, <2>1, <2>4 DEF TypeOK, serverVars
  <2> QED
    BY <1>3, <1>5, <2>1, <2>4, <2>6, <2>7, EndWire
<1> QED
  BY <1>1, <1>6, <1>7

\* What stays in the channel of an attempt has no receiver.
LEMMA ForgetLeaves ==
  ASSUME Wire, NEW t \in Tasks, chan' = Forget(t, chan)
  PROVE  /\ chan' \in Seq(Messages)
         /\ \A i \in 1..Len(chan') : Awaited(i)' => i \in 1..Len(chan) /\ chan'[i] = chan[i] /\ chan[i].t # t
<1>1. TypeOK
  BY DEF Wire
<1>2. /\ chan' \in Seq(Messages) /\ Len(chan') = Len(chan)
      /\ \A i \in 1..Len(chan) :
           /\ chan'[i].op = chan[i].op
           /\ IF chan[i].op # "close" /\ chan[i].t = t THEN chan'[i].t = None ELSE chan'[i] = chan[i]
  BY <1>1, ForgetDoes
<1> QED
  BY <1>2 DEF Awaited

LEMMA FailsWire ==
  ASSUME Wire, NEW t \in Tasks, Fails(t)
  PROVE  Wire'
<1>1. TypeOK /\ Shape(t) /\ pc[t] = "wait" /\ Returns(t) /\ chan' = Forget(t, chan)
  BY DEF Wire, Fails, Answered
<1>2. /\ call' \in [Tasks -> Records] /\ pc' \in [Tasks -> {"idle", "look", "send", "wait"}]
      /\ got' \in [Tasks -> UNION {[1..n -> Results \cup {None}] : n \in Nat}]
      /\ alone' \in Tasks \cup {None} /\ Shape(t)' /\ out' = out
      /\ \A u \in Tasks \ {t} : call'[u] = call[u] /\ pc'[u] = pc[u] /\ got'[u] = got[u]
  BY <1>1, ReturnShape
<1>3. /\ chan' \in Seq(Messages)
      /\ \A i \in 1..Len(chan') : Awaited(i)' => i \in 1..Len(chan) /\ chan'[i] = chan[i] /\ chan[i].t # t
  BY <1>1, ForgetLeaves
<1>4. TypeOK'
  BY <1>1, <1>2, <1>3 DEF TypeOK, serverVars, Fails, Returns
<1> QED
  BY <1>2, <1>3, <1>4, EndWire

LEMMA InvalidateDoes ==
  ASSUME Wire, NEW t \in Tasks, Invalidate(t)
  PROVE  /\ TypeOK /\ Shape(t) /\ pc[t] = "wait" /\ Answered(t) /\ call[t] \in Records
         /\ call[t].sqls \in Seq(Sqls) /\ Len(call[t].sqls) = 1 /\ call[t].sqls[1] \in Sqls
         /\ call[t].does.again # "never" /\ call[t].done = 0 /\ ~call[t].again
         /\ cache' = [cache EXCEPT ![call[t].sqls[1]] = None] /\ chan' = Forget(t, chan)
         /\ pc' = [pc EXCEPT ![t] = "look"] /\ got' = [got EXCEPT ![t] = <<>>] /\ out' = out
         /\ call' = [call EXCEPT ![t] = [call[t] EXCEPT !.execs = <<>>, !.again = TRUE]]
         /\ call'[t] \in Records /\ call'[t].does = call[t].does /\ call'[t].sqls = call[t].sqls
         /\ call'[t].done = call[t].done /\ call'[t].execs = <<>> /\ call'[t].again = TRUE
<1>1. TypeOK /\ Shape(t) /\ pc[t] = "wait" /\ Answered(t)
  BY DEF Wire, Invalidate, Answered
<1>2. call[t] \in Records /\ call[t].sqls \in Seq(Sqls)
  BY <1>1 DEF TypeOK, Records
<1>3. call[t].does.again # "never" /\ ~call[t].again
  BY DEF Invalidate, MayRetry
<1>4. call[t].does \in Policies
  BY <1>1 DEF Shape
<1>5. call[t].does.sends # "batch"
  BY <1>3, <1>4, PolicyFacts
<1>6. Len(call[t].sqls) = 1 /\ Len(call[t].execs) = 1 /\ call[t].done < Len(call[t].execs)
  BY <1>1, <1>5 DEF Shape
<1>7. call[t].done = 0 /\ call[t].sqls[1] \in Sqls
  <2>1. call[t].done \in Nat
    BY <1>2 DEF Records
  <2> QED
    BY <1>2, <1>6, <2>1
<1>8. /\ cache' = [cache EXCEPT ![call[t].sqls[1]] = None] /\ chan' = Forget(t, chan)
      /\ pc' = [pc EXCEPT ![t] = "look"] /\ got' = [got EXCEPT ![t] = <<>>] /\ out' = out
      /\ call' = [call EXCEPT ![t] = [call[t] EXCEPT !.execs = <<>>, !.again = TRUE]]
  BY DEF Invalidate
<1> DEFINE d == [call[t] EXCEPT !.execs = <<>>, !.again = TRUE]
<1>9. d \in Records /\ d.does = call[t].does /\ d.sqls = call[t].sqls /\ d.done = call[t].done /\ d.execs = <<>> /\ d.again = TRUE
  <2>1. <<>> \in Seq(Lookups)
    OBVIOUS
  <2> QED
    BY <1>2, <2>1 DEF Records
<1>10. call'[t] = d
  BY <1>1, <1>8 DEF TypeOK
<1> HIDE DEF d
<1> QED
  BY <1>1, <1>2, <1>3, <1>6, <1>7, <1>8, <1>9, <1>10 DEF d

LEMMA InvalidateWire ==
  ASSUME Wire, NEW t \in Tasks, Invalidate(t)
  PROVE  Wire'
<1>1. /\ TypeOK /\ Shape(t) /\ pc[t] = "wait" /\ Answered(t)
      /\ Len(call[t].sqls) = 1 /\ call[t].does.again # "never" /\ call[t].done = 0
      /\ cache' = [cache EXCEPT ![call[t].sqls[1]] = None] /\ chan' = Forget(t, chan)
      /\ pc' = [pc EXCEPT ![t] = "look"] /\ got' = [got EXCEPT ![t] = <<>>] /\ out' = out
      /\ call' = [call EXCEPT ![t] = [call[t] EXCEPT !.execs = <<>>, !.again = TRUE]]
      /\ call'[t] \in Records /\ call'[t].does = call[t].does /\ call'[t].sqls = call[t].sqls
      /\ call'[t].done = call[t].done /\ call'[t].execs = <<>> /\ call'[t].again = TRUE
  BY InvalidateDoes
<1>2. <<>> \in UNION {[1..n -> Results \cup {None}] : n \in Nat}
  <2>1. <<>> \in [1..0 -> Results \cup {None}]
    OBVIOUS
  <2> QED
    BY <2>1
<1>3. pc'[t] = "look" /\ got'[t] = <<>> /\ out'[t] = <<>>
  BY <1>1 DEF TypeOK, Shape
<1>4. /\ call[t].does \in Policies
      /\ Len(call[t].sqls) = IF call[t].does.sends = "batch" THEN 2 ELSE 1
  BY <1>1 DEF Shape
<1>5. Shape(t)'
  <2>1. Len(call'[t].execs) = 0 /\ Len(call'[t].execs) <= Len(call'[t].sqls) /\ Len(call'[t].execs) < Len(call'[t].sqls)
    BY <1>1
  <2>2. \A j \in 1..Len(call'[t].execs) : call'[t].execs[j].sql = call'[t].sqls[j]
    BY <2>1
  <2>3. pc'[t] # "idle" /\ pc'[t] # "send" /\ pc'[t] \notin {"send", "wait"} /\ pc'[t] = "look"
    BY <1>3
  <2>4. /\ call'[t].does \in Policies
        /\ Len(call'[t].sqls) = IF call'[t].does.sends = "batch" THEN 2 ELSE 1
        /\ call'[t].again => call'[t].does.again # "never"
        /\ call'[t].done = 0 /\ got'[t] = <<>> /\ out'[t] = <<>>
    BY <1>1, <1>3, <1>4
  <2> QED
    BY <2>1, <2>2, <2>3, <2>4, Zenon DEF Shape
<1>6. /\ chan' \in Seq(Messages)
      /\ \A i \in 1..Len(chan') : Awaited(i)' => i \in 1..Len(chan) /\ chan'[i] = chan[i] /\ chan[i].t # t
  BY <1>1, ForgetLeaves
<1>7. \A u \in Tasks \ {t} : call'[u] = call[u] /\ pc'[u] = pc[u] /\ out'[u] = out[u] /\ got'[u] = got[u]
  BY <1>1 DEF TypeOK
<1>8. TypeOK'
  <2>1. cache' \in [Sqls -> Nat \cup {None}] /\ pc' \in [Tasks -> {"idle", "look", "send", "wait"}]
    BY <1>1 DEF TypeOK
  <2>2. call' \in [Tasks -> Records]
    <3>1. [call[t] EXCEPT !.execs = <<>>, !.again = TRUE] = call'[t]
      BY <1>1 DEF TypeOK
    <3>2. [call[t] EXCEPT !.execs = <<>>, !.again = TRUE] \in Records
      BY <1>1, <3>1
    <3> QED
      BY <1>1, <3>2 DEF TypeOK
  <2>3. got' \in [Tasks -> UNION {[1..n -> Results \cup {None}] : n \in Nat}]
    BY <1>1, <1>2 DEF TypeOK
  <2> QED
    BY <1>1, <1>6, <2>1, <2>2, <2>3 DEF TypeOK, Invalidate, serverVars
<1> QED
  BY <1>5, <1>6, <1>7, <1>8, EndWire

\* A call that is dropped.
LEMMA GiveUpDoes ==
  ASSUME Wire, NEW t \in Tasks, GiveUp(t)
  PROVE  /\ TypeOK /\ Shape(t) /\ pc[t] \in {"send", "wait"} /\ chan' = Forget(t, chan)
         /\ pc' = [pc EXCEPT ![t] = "idle"] /\ call' = [call EXCEPT ![t] = NoCall]
         /\ out' = [out EXCEPT ![t] = <<>>] /\ got' = [got EXCEPT ![t] = <<>>]
         /\ pc'[t] = "idle" /\ call'[t] = NoCall /\ out'[t] = <<>> /\ got'[t] = <<>>
         /\ \A u \in Tasks \ {t} : call'[u] = call[u] /\ pc'[u] = pc[u] /\ out'[u] = out[u] /\ got'[u] = got[u]
         /\ cut' = (cut \/ Halfway(t)) /\ alone' = (IF alone = t THEN None ELSE alone)
         /\ UNCHANGED <<cache, counter, prepared, tx, alters, unsure, ran>>
<1>1. TypeOK /\ Shape(t)
  BY DEF Wire
<1>2. /\ call \in [Tasks -> Records] /\ pc \in [Tasks -> {"idle", "look", "send", "wait"}]
      /\ out \in [Tasks -> Seq(Messages)] /\ got \in [Tasks -> UNION {[1..n -> Results \cup {None}] : n \in Nat}]
  BY <1>1 DEF TypeOK
<1> QED
  BY <1>1, <1>2 DEF GiveUp, cacheVars

LEMMA GiveUpWire ==
  ASSUME Wire, NEW t \in Tasks, GiveUp(t)
  PROVE  Wire'
<1>1. /\ TypeOK /\ Shape(t) /\ chan' = Forget(t, chan)
      /\ pc' = [pc EXCEPT ![t] = "idle"] /\ call' = [call EXCEPT ![t] = NoCall]
      /\ out' = [out EXCEPT ![t] = <<>>] /\ got' = [got EXCEPT ![t] = <<>>]
      /\ pc'[t] = "idle" /\ call'[t] = NoCall /\ out'[t] = <<>> /\ got'[t] = <<>>
      /\ \A u \in Tasks \ {t} : call'[u] = call[u] /\ pc'[u] = pc[u] /\ out'[u] = out[u] /\ got'[u] = got[u]
      /\ cut' = (cut \/ Halfway(t)) /\ alone' = (IF alone = t THEN None ELSE alone)
      /\ UNCHANGED <<cache, counter, prepared, tx, alters, unsure, ran>>
  BY GiveUpDoes
<1>2. NoCall \in Records /\ <<>> \in Seq(Messages)
  BY DEF NoCall, Records
<1>3. <<>> \in UNION {[1..n -> Results \cup {None}] : n \in Nat}
  <2>1. <<>> \in [1..0 -> Results \cup {None}]
    OBVIOUS
  <2> QED
    BY <2>1
<1>4. /\ chan' \in Seq(Messages)
      /\ \A i \in 1..Len(chan') : Awaited(i)' => i \in 1..Len(chan) /\ chan'[i] = chan[i] /\ chan[i].t # t
  BY <1>1, ForgetLeaves
<1>5. TypeOK'
  <2>1. call' \in [Tasks -> Records]
    BY <1>1, <1>2 DEF TypeOK
  <2>2. pc' \in [Tasks -> {"idle", "look", "send", "wait"}]
    BY <1>1 DEF TypeOK
  <2>3. out' \in [Tasks -> Seq(Messages)]
    BY <1>1, <1>2 DEF TypeOK
  <2>4. got' \in [Tasks -> UNION {[1..n -> Results \cup {None}] : n \in Nat}]
    BY <1>1, <1>3 DEF TypeOK
  <2>5. alone' \in Tasks \cup {None} /\ cut' \in BOOLEAN
    BY <1>1 DEF TypeOK
  <2> QED
    BY <1>1, <1>4, <2>1, <2>2, <2>3, <2>4, <2>5 DEF TypeOK
<1>6. Shape(t)'
  BY <1>1 DEF Shape
<1> QED
  BY <1>1, <1>4, <1>5, <1>6, EndWire

\* The server takes the first request and answers it, if somebody waits for it.
Answers(res) ==
  IF Awaited(1) THEN got' = [got EXCEPT ![chan[1].t][chan[1].i] = res] ELSE got' = got

LEMMA TakesDoes ==
  ASSUME TypeOK, NEW op, Takes(op)
  PROVE  /\ Len(chan) \in Nat \ {0} /\ 1 \in 1..Len(chan) /\ chan[1] = Head(chan) /\ chan[1].op = op
         /\ chan' \in Seq(Messages) /\ Len(chan') = Len(chan) - 1
         /\ \A i \in 1..Len(chan') : i + 1 \in 1..Len(chan) /\ chan'[i] = chan[i + 1]
         /\ cut' \in BOOLEAN
         /\ cut' = (cut /\ (op = "commit" => \E i \in 1..Len(chan') : chan'[i].op = "setup" /\ chan'[i].t = None))
         /\ UNCHANGED <<cacheVars, pc, call, out, unsure, alone, ran, alters>>
<1>1. chan \in Seq(Messages) /\ chan # <<>> /\ Head(chan).op = op /\ chan' = Tail(chan)
  BY DEF Takes, TypeOK
<1>2. Len(chan) \in Nat \ {0} /\ Head(chan) = chan[1]
  BY <1>1
<1>3. /\ Tail(chan) \in Seq(Messages) /\ Len(Tail(chan)) = Len(chan) - 1
      /\ \A i \in 1..Len(Tail(chan)) : Tail(chan)[i] = chan[i + 1]
  BY <1>1
<1>4. \A i \in 1..Len(chan') : i + 1 \in 1..Len(chan)
  BY <1>1, <1>2, <1>3
<1>5. DOMAIN chan' = 1..Len(chan') /\ cut \in BOOLEAN
  BY <1>1, <1>3 DEF TypeOK
<1>6. /\ cut' \in BOOLEAN
      /\ cut' = (cut /\ (op = "commit" => \E i \in 1..Len(chan') : chan'[i].op = "setup" /\ chan'[i].t = None))
  BY <1>5 DEF Takes
<1>7. UNCHANGED <<cacheVars, pc, call, out, unsure, alone, ran, alters>>
  BY DEF Takes
<1>8. /\ chan' \in Seq(Messages) /\ Len(chan') = Len(chan) - 1
      /\ \A i \in 1..Len(chan') : chan'[i] = chan[i + 1]
  BY <1>1, <1>3
<1> HIDE DEF cacheVars
<1> QED
  BY <1>1, <1>2, <1>4, <1>6, <1>7, <1>8

LEMMA AnswerWire ==
  ASSUME Wire, NEW op, Takes(op), NEW res \in Results, got' = got \/ Answers(res), op # "exec" => res = "ok",
         prepared' \subseteq [name : Nat, sql : Sqls, stale : BOOLEAN], tx' \in [open : BOOLEAN, failed : BOOLEAN]
  PROVE  Wire'
<1>1. TypeOK /\ Matched /\ Ordered
  BY DEF Wire
<1>2. /\ Len(chan) \in Nat \ {0} /\ 1 \in 1..Len(chan) /\ chan[1].op = op
      /\ chan' \in Seq(Messages) /\ Len(chan') = Len(chan) - 1
      /\ \A i \in 1..Len(chan') : i + 1 \in 1..Len(chan) /\ chan'[i] = chan[i + 1]
      /\ pc' = pc /\ call' = call /\ out' = out /\ cut' \in BOOLEAN /\ UNCHANGED <<cacheVars, unsure, alone, ran, alters>>
  BY <1>1, TakesDoes
<1> DEFINE r == chan[1]
<1>3. CASE got' = got
  <2>1. TypeOK'
    BY <1>1, <1>2, <1>3 DEF TypeOK, cacheVars
  <2>2. \A u \in Tasks : Shape(u)'
    BY <1>2, <1>3, TaskFrame DEF Wire
  <2>3. ASSUME NEW i \in 1..Len(chan'), Awaited(i)'
        PROVE  LET q == chan[i + 1] IN
               /\ i + 1 \in 1..Len(chan) /\ chan'[i] = q
               /\ pc'[q.t] \in {"send", "wait"} /\ call'[q.t] = call[q.t] /\ out'[q.t] = out[q.t]
               /\ \A k \in q.i..Size(call[q.t]) : got'[q.t][k] = got[q.t][k]
    <3>1. i + 1 \in 1..Len(chan) /\ chan'[i] = chan[i + 1]
      BY <1>2
    <3>2. Awaited(i + 1)
      BY <2>3, <3>1 DEF Awaited
    <3>3. pc[chan[i + 1].t] \in {"send", "wait"}
      BY <1>1, <3>1, <3>2 DEF Matched
    <3> QED
      BY <1>2, <1>3, <3>1, <3>3
  <2>4. Matched' /\ Ordered'
    BY <1>1, <2>1, <2>3, KeepsMatched
  <2> QED
    BY <2>1, <2>2, <2>4 DEF Wire
<1>4. CASE got' # got
  <2>1. Awaited(1) /\ got' = [got EXCEPT ![r.t][r.i] = res]
    BY <1>4 DEF Answers
  <2>2. /\ r.t \in Tasks /\ pc[r.t] \in {"send", "wait"} /\ r.i \in 1..Sent(call[r.t], out[r.t])
        /\ r = Request(r.t, call[r.t], r.i)
    BY <1>1, <1>2, <2>1, Message DEF Matched
  <2>t. PICK t \in Tasks : t = r.t
    BY <2>2
  <2>3. /\ Shape(t) /\ t \in Tasks /\ pc[t] \in {"send", "wait"} /\ r.i \in 1..Sent(call[t], out[t])
        /\ r = Request(t, call[t], r.i)
    BY <2>2, <2>t DEF Wire
  <2>4. /\ Size(call[t]) \in 1..3 /\ Sent(call[t], out[t]) \in 0..Size(call[t])
        /\ got[t] \in [1..Size(call[t]) -> Results \cup {None}]
        /\ \A u \in Tasks : got[u] \in UNION {[1..n -> Results \cup {None}] : n \in Nat}
        /\ got \in [Tasks -> UNION {[1..n -> Results \cup {None}] : n \in Nat}]
    BY <1>1, <2>3, Sizes DEF Shape, TypeOK
  <2>5. r.i \in 1..Size(call[t])
    BY <2>3, <2>4
  <2>6. /\ got' = [got EXCEPT ![t] = [got[t] EXCEPT ![r.i] = res]]
        /\ got'[t] = [got[t] EXCEPT ![r.i] = res] /\ \A u \in Tasks \ {t} : got'[u] = got[u]
    BY <2>1, <2>t, <2>4
  <2>7. /\ got'[t] \in [1..Size(call[t]) -> Results \cup {None}] /\ got'[t][r.i] = res
        /\ \A k \in 1..Size(call[t]) : k # r.i => got'[t][k] = got[t][k]
    BY <2>4, <2>5, <2>6
  <2>8. TypeOK'
    <3>1. [got[t] EXCEPT ![r.i] = res] \in UNION {[1..n -> Results \cup {None}] : n \in Nat}
      <4>1. Size(call[t]) \in Nat
        BY <2>4
      <4>2. [got[t] EXCEPT ![r.i] = res] \in [1..Size(call[t]) -> Results \cup {None}]
        BY <2>6, <2>7
      <4> QED
        BY <4>1, <4>2, Zenon
    <3>2. got' \in [Tasks -> UNION {[1..n -> Results \cup {None}] : n \in Nat}]
      BY <2>3, <2>4, <2>6, <3>1
    <3> QED
      BY <1>1, <1>2, <3>2 DEF TypeOK, cacheVars
  <2>9. Shape(t)'
    <3>1. call[t].does.sends = "tx" => got'[t][1] \in {"ok", None} /\ got'[t][3] \in {"ok", None}
      <4> SUFFICES ASSUME call[t].does.sends = "tx" PROVE got'[t][1] \in {"ok", None} /\ got'[t][3] \in {"ok", None}
        OBVIOUS
      <4>1. got[t][1] \in {"ok", None} /\ got[t][3] \in {"ok", None} /\ Size(call[t]) = 3
        BY <2>3 DEF Shape, Size
      <4>2. r.i = 2 \/ res = "ok"
        <5>1. r.op = "exec" <=> r.i = 2
          BY <1>1, <2>3, <2>5, RequestFields
        <5> QED
          BY <1>2, <5>1
      <4> QED
        BY <2>7, <4>1, <4>2
    <3>2. pc[t] = "send" => \A j \in (Sent(call[t], out[t]) + 1)..Size(call[t]) : got'[t][j] = None
      <4> SUFFICES ASSUME pc[t] = "send", NEW j \in (Sent(call[t], out[t]) + 1)..Size(call[t]) PROVE got'[t][j] = None
        OBVIOUS
      <4>1. got[t][j] = None
        BY <2>3 DEF Shape
      <4>2. j \in 1..Size(call[t]) /\ j # r.i
        BY <2>3, <2>4
      <4> QED
        BY <2>7, <4>1, <4>2
    <3>3. /\ call[t].does \in Policies
          /\ Len(call[t].sqls) = IF call[t].does.sends = "batch" THEN 2 ELSE 1
          /\ Len(call[t].execs) <= Len(call[t].sqls)
          /\ \A j \in 1..Len(call[t].execs) : call[t].execs[j].sql = call[t].sqls[j]
          /\ call[t].again => call[t].does.again # "never"
          /\ Len(call[t].execs) = Len(call[t].sqls)
          /\ call[t].done < Len(call[t].execs)
          /\ pc[t] # "send" => out[t] = <<>>
          /\ pc[t] = "send" => /\ Len(out[t]) \in 1..Size(call[t])
                               /\ \A j \in 1..Len(out[t]) : out[t][j] = Request(t, call[t], Sent(call[t], out[t]) + j)
      BY <2>3 DEF Shape
    <3>4. pc[t] # "idle" /\ pc[t] \notin {"idle", "look"} /\ pc[t] # "look" /\ pc'[t] = pc[t] /\ call'[t] = call[t] /\ out'[t] = out[t]
      BY <1>2, <2>3
    <3>5. /\ call'[t].does \in Policies
          /\ Len(call'[t].sqls) = IF call'[t].does.sends = "batch" THEN 2 ELSE 1
          /\ Len(call'[t].execs) <= Len(call'[t].sqls)
          /\ \A j \in 1..Len(call'[t].execs) : call'[t].execs[j].sql = call'[t].sqls[j]
          /\ call'[t].again => call'[t].does.again # "never"
          /\ Len(call'[t].execs) = Len(call'[t].sqls)
          /\ call'[t].done < Len(call'[t].execs)
      BY <3>3, <3>4
    <3>6. /\ got'[t] \in [1..Size(call'[t]) -> Results \cup {None}]
          /\ call'[t].does.sends = "tx" => got'[t][1] \in {"ok", None} /\ got'[t][3] \in {"ok", None}
          /\ pc'[t] # "send" => out'[t] = <<>>
      BY <2>7, <3>1, <3>3, <3>4
    <3>7. pc'[t] = "send" =>
            /\ Len(out'[t]) \in 1..Size(call'[t])
            /\ \A j \in 1..Len(out'[t]) : out'[t][j] = Request(t, call'[t], Sent(call'[t], out'[t]) + j)
            /\ \A j \in (Sent(call'[t], out'[t]) + 1)..Size(call'[t]) : got'[t][j] = None
      BY <3>2, <3>3, <3>4
    <3>8. pc'[t] # "idle" /\ pc'[t] \notin {"idle", "look"} /\ pc'[t] # "look"
      BY <3>4
    <3> QED
      BY <3>5, <3>6, <3>7, <3>8, Zenon DEF Shape
  <2>10. ASSUME NEW u \in Tasks PROVE Shape(u)'
    <3>1. CASE u = t
      BY <2>9, <3>1
    <3>2. CASE u # t
      <4>1. Shape(u) /\ pc'[u] = pc[u] /\ call'[u] = call[u] /\ out'[u] = out[u] /\ got'[u] = got[u]
        BY <1>2, <2>6, <3>2 DEF Wire
      <4> QED
        BY <4>1, TaskFrame
    <3> QED
      BY <3>1, <3>2
  <2>11. ASSUME NEW i \in 1..Len(chan'), Awaited(i)'
         PROVE  LET q == chan[i + 1] IN
                /\ i + 1 \in 1..Len(chan) /\ chan'[i] = q
                /\ pc'[q.t] \in {"send", "wait"} /\ call'[q.t] = call[q.t] /\ out'[q.t] = out[q.t]
                /\ \A k \in q.i..Size(call[q.t]) : got'[q.t][k] = got[q.t][k]
    <3> DEFINE q == chan[i + 1]
    <3>1. i + 1 \in 1..Len(chan) /\ chan'[i] = chan[i + 1] /\ 1 < i + 1
      BY <1>2
    <3>2. Awaited(i + 1)
      BY <2>11, <3>1 DEF Awaited
    <3>3. pc[q.t] \in {"send", "wait"} /\ q.i \in 1..Sent(call[q.t], out[q.t]) /\ q.t \in Tasks
      BY <1>1, <3>1, <3>2, Message DEF Matched
    <3>4. q.t = t => r.i < q.i
      BY <1>1, <1>2, <2>1, <2>t, <3>1, <3>2 DEF Ordered
    <3>5. \A k \in q.i..Size(call[q.t]) : got'[q.t][k] = got[q.t][k]
      <4>1. CASE q.t = t
        <5>1. \A k \in q.i..Size(call[t]) : k \in 1..Size(call[t]) /\ k # r.i
          BY <2>4, <2>5, <3>3, <3>4, <4>1
        <5> QED
          BY <2>7, <4>1, <5>1
      <4>2. CASE q.t # t
        BY <2>6, <3>3, <4>2
      <4> QED
        BY <4>1, <4>2
    <3> QED
      BY <1>2, <3>1, <3>3, <3>5
  <2>12. Matched' /\ Ordered'
    BY <1>1, <2>8, <2>11, KeepsMatched
  <2> QED
    BY <2>8, <2>10, <2>12 DEF Wire
<1> QED
  BY <1>3, <1>4

LEMMA ReplyAnswers ==
  ASSUME TypeOK, NEW op \in {"setup", "commit", "exec"}, Takes(op), NEW res, Reply(Head(chan), res)
  PROVE  Answers(res)
<1>1. 1 \in 1..Len(chan) /\ chan[1] = Head(chan) /\ chan[1].op = op
  BY TakesDoes
<1>2. Awaited(1) <=> chan[1].t # None
  BY <1>1 DEF Awaited
<1> QED
  BY <1>1, <1>2 DEF Reply, Answers

\* The outcomes of an execution.
LEMMA ExecuteDoes ==
  ASSUME TypeOK, Execute
  PROVE  LET x == chan[1].x IN
         /\ Takes("exec") /\ x \in Lookups /\ 1 \in 1..Len(chan) /\ chan[1].op = "exec" /\ tx'.open = tx.open
         /\ prepared' \subseteq [name : Nat, sql : Sqls, stale : BOOLEAN] /\ tx' \in [open : BOOLEAN, failed : BOOLEAN]
         /\ \E res \in Results :
              /\ Answers(res)
              /\ \/ res = "failed" /\ prepared' = prepared
                 \/ res = "exists" /\ x.parse /\ Named(x.name) # {} /\ prepared' = prepared
                 \/ /\ x.parse /\ Named(x.name) = {} /\ res \in {"ok", "failed"}
                    /\ prepared' = prepared \cup {[name |-> x.name, sql |-> x.sql, stale |-> FALSE]}
                 \/ ~x.parse /\ res # "exists" /\ prepared' = prepared
<1>1. Takes("exec")
  BY DEF Execute
<1>2. 1 \in 1..Len(chan) /\ chan[1] = Head(chan) /\ chan[1].op = "exec"
  BY <1>1, TakesDoes
<1> DEFINE x == chan[1].x
           q == [name |-> x.name, sql |-> x.sql, stale |-> FALSE]
           known == IF x.parse THEN {q} ELSE Named(x.name)
           Ends0(res) == Reply(chan[1], res) /\ tx' = [tx EXCEPT !.failed = @ \/ (tx.open /\ res # "ok")]
<1>3. x \in Lookups
  BY <1>2, Message
<1>4. q \in [name : Nat, sql : Sqls, stale : BOOLEAN]
  BY <1>3 DEF Lookups
<1>5. prepared \subseteq [name : Nat, sql : Sqls, stale : BOOLEAN] /\ tx \in [open : BOOLEAN, failed : BOOLEAN]
  BY DEF TypeOK
<1>6. ASSUME NEW res, Ends0(res)
      PROVE  /\ Answers(res)
             /\ tx'.open = tx.open /\ tx' \in [open : BOOLEAN, failed : BOOLEAN]
  <2>1. Answers(res)
    BY <1>1, <1>2, <1>6, ReplyAnswers
  <2>2. (tx.failed \/ (tx.open /\ res # "ok")) \in BOOLEAN
    BY <1>5
  <2>3. tx'.open = tx.open /\ tx' \in [open : BOOLEAN, failed : BOOLEAN]
    BY <1>5, <1>6, <2>2
  <2> QED
    BY <2>1, <2>3
<1>7. \/ Ends0("failed") /\ prepared' = prepared
      \/ Ends0("exists") /\ x.parse /\ Named(x.name) # {} /\ prepared' = prepared
      \/ /\ ~(x.parse /\ Named(x.name) # {}) /\ prepared' = prepared \cup known
         /\ IF known = {} THEN Ends0("missing")
            ELSE IF \E p \in known : p.stale THEN Ends0("stale")
            ELSE \E res \in {"ok", "failed"} : Ends0(res)
  BY <1>2 DEF Execute
<1> HIDE DEF Ends0
<1>8. CASE Ends0("failed") /\ prepared' = prepared
  BY <1>1, <1>2, <1>3, <1>5, <1>6, <1>8 DEF Results
<1>9. CASE Ends0("exists") /\ x.parse /\ Named(x.name) # {} /\ prepared' = prepared
  BY <1>1, <1>2, <1>3, <1>5, <1>6, <1>9 DEF Results
<1>10. CASE /\ ~(x.parse /\ Named(x.name) # {}) /\ prepared' = prepared \cup known
            /\ IF known = {} THEN Ends0("missing")
               ELSE IF \E p \in known : p.stale THEN Ends0("stale")
               ELSE \E res \in {"ok", "failed"} : Ends0(res)
  <2>1. CASE x.parse
    <3>1. known = {q} /\ Named(x.name) = {}
      BY <1>10, <2>1
    <3>2. ~ \E p \in known : p.stale
      BY <3>1
    <3>3. PICK res \in {"ok", "failed"} : Ends0(res)
      BY <1>10, <3>1, <3>2
    <3>4. prepared' = prepared \cup {q}
      BY <1>10, <3>1
    <3>5. prepared' \subseteq [name : Nat, sql : Sqls, stale : BOOLEAN]
      BY <1>4, <1>5, <3>4
    <3> HIDE DEF known
    <3> QED
      BY <1>1, <1>2, <1>3, <1>6, <2>1, <3>1, <3>3, <3>4, <3>5 DEF Results
  <2>2. CASE ~x.parse
    <3>1. known \subseteq prepared
      BY <2>2 DEF Named
    <3>2. prepared' = prepared
      BY <1>10, <3>1
    <3>3. \E res \in {"missing", "stale", "ok", "failed"} : Ends0(res)
      BY <1>10
    <3>4. PICK res \in {"missing", "stale", "ok", "failed"} : Ends0(res)
      BY <3>3
    <3> QED
      BY <1>1, <1>2, <1>3, <1>5, <1>6, <2>2, <3>2, <3>4 DEF Results
  <2> QED
    BY <2>1, <2>2
<1> QED
  BY <1>7, <1>8, <1>9, <1>10

LEMMA ServerWire ==
  ASSUME Wire, Setup \/ Commit \/ Close \/ Execute \/ Alter
  PROVE  Wire'
<1>1. TypeOK
  BY DEF Wire
<1>2. ASSUME Setup PROVE Wire'
  <2>1. Takes("setup") /\ Reply(Head(chan), "ok") /\ prepared' = prepared
    BY <1>2 DEF Setup
  <2>2. tx' \in [open : BOOLEAN, failed : BOOLEAN]
    BY <1>1, <1>2 DEF Setup, TypeOK
  <2>3. got' = got \/ Answers("ok")
    BY <1>1, <2>1, ReplyAnswers
  <2> QED
    BY <1>1, <2>1, <2>2, <2>3, AnswerWire DEF Results, TypeOK
<1>3. ASSUME Commit PROVE Wire'
  <2>1. Takes("commit") /\ Reply(Head(chan), "ok") /\ prepared' = prepared /\ tx' \in [open : BOOLEAN, failed : BOOLEAN]
    BY <1>3 DEF Commit
  <2>2. got' = got \/ Answers("ok")
    BY <1>1, <2>1, ReplyAnswers
  <2> QED
    BY <1>1, <2>1, <2>2, AnswerWire DEF Results, TypeOK
<1>4. ASSUME Close PROVE Wire'
  <2>1. Takes("close") /\ got' = got /\ tx' = tx /\ prepared' \subseteq prepared
    BY <1>4 DEF Close
  <2> QED
    BY <1>1, <2>1, AnswerWire DEF Results, TypeOK
<1>5. ASSUME Execute PROVE Wire'
  BY <1>1, <1>5, ExecuteDoes, AnswerWire
<1>6. ASSUME Alter PROVE Wire'
  <2>1. chan' = chan /\ got' = got /\ pc' = pc /\ call' = call /\ out' = out
    BY <1>6 DEF Alter, taskVars
  <2>2. prepared' \subseteq [name : Nat, sql : Sqls, stale : BOOLEAN]
    <3>1. \A p \in [name : Nat, sql : Sqls, stale : BOOLEAN] : [p EXCEPT !.stale = TRUE] \in [name : Nat, sql : Sqls, stale : BOOLEAN]
      OBVIOUS
    <3>2. prepared \subseteq [name : Nat, sql : Sqls, stale : BOOLEAN]
      BY <1>1 DEF TypeOK
    <3> QED
      BY <1>6, <3>1, <3>2 DEF Alter
  <2>3. TypeOK'
    BY <1>1, <1>6, <2>1, <2>2 DEF TypeOK, Alter, cacheVars
  <2>4. \A u \in Tasks : Shape(u)'
    BY <2>1, TaskFrame DEF Wire
  <2>5. Matched' /\ Ordered'
    BY <2>1 DEF Wire, Matched, Ordered, Awaited
  <2> QED
    BY <2>3, <2>4, <2>5 DEF Wire
<1> QED
  BY <1>2, <1>3, <1>4, <1>5, <1>6

LEMMA WireInit ==
  ASSUME Init
  PROVE  Wire
<1>1. NoCall \in Records
  BY DEF NoCall, Records
<1>2. <<>> \in UNION {[1..n -> Results \cup {None}] : n \in Nat}
  <2>1. <<>> \in [1..0 -> Results \cup {None}]
    OBVIOUS
  <2> QED
    BY <2>1
<1>3. TypeOK
  <2>1. /\ cache \in [Sqls -> Nat \cup {None}] /\ counter \in Nat
        /\ pc \in [Tasks -> {"idle", "look", "send", "wait"}] /\ call \in [Tasks -> Records]
    BY <1>1 DEF Init
  <2>2. out \in [Tasks -> Seq(Messages)]
    BY DEF Init
  <2>3. got \in [Tasks -> UNION {[1..n -> Results \cup {None}] : n \in Nat}]
    BY <1>2 DEF Init
  <2>4. chan \in Seq(Messages) /\ prepared \subseteq [name : Nat, sql : Sqls, stale : BOOLEAN]
    BY DEF Init
  <2>5. tx \in [open : BOOLEAN, failed : BOOLEAN] /\ cut \in BOOLEAN
    BY DEF Init
  <2>6. alone \in Tasks \cup {None} /\ unsure \subseteq Nat
    BY DEF Init
  <2>7. ran \in Nat /\ alters \in Nat
    BY DEF Init
  <2> QED
    BY <2>1, <2>2, <2>3, <2>4, <2>5, <2>6, <2>7 DEF TypeOK
<1>4. ASSUME NEW t \in Tasks PROVE Shape(t)
  BY DEF Init, Shape
<1>5. Len(chan) = 0
  BY DEF Init
<1>6. Matched /\ Ordered
  BY <1>5 DEF Matched, Ordered
<1> QED
  BY <1>3, <1>4, <1>6 DEF Wire

\* Requests and responses stay in place.
LEMMA WireStep ==
  ASSUME Wire, [Next]_vars
  PROVE  Wire'
<1>1. CASE UNCHANGED vars
  <2>1. /\ cache' = cache /\ counter' = counter /\ pc' = pc /\ call' = call /\ out' = out /\ got' = got /\ chan' = chan
        /\ prepared' = prepared /\ tx' = tx /\ cut' = cut /\ unsure' = unsure /\ alone' = alone /\ ran' = ran /\ alters' = alters
    BY <1>1 DEF vars, cacheVars, taskVars, serverVars
  <2>2. TypeOK'
    BY <2>1 DEF Wire, TypeOK
  <2>3. \A u \in Tasks : Shape(u)'
    BY <2>1, TaskFrame DEF Wire
  <2>4. Matched' /\ Ordered'
    BY <2>1 DEF Wire, Matched, Ordered, Awaited
  <2> QED
    BY <2>2, <2>3, <2>4 DEF Wire
<1>2. ASSUME NEW t \in Tasks, Call(t) \/ Look(t) \/ Send(t) \/ Succeeds(t) \/ Fails(t) \/ Invalidate(t) \/ GiveUp(t)
      PROVE  Wire'
  BY <1>2, CallWire, LookWire, SendWire, SucceedsWire, FailsWire, InvalidateWire, GiveUpWire
<1> QED
  BY <1>1, <1>2, ServerWire DEF Next

LEMMA LookUpAsks ==
  ASSUME TypeOK, NEW t \in Tasks, NEW c \in Records, c.does \in Policies,
         Len(c.sqls) = (IF c.does.sends = "batch" THEN 2 ELSE 1), Len(c.execs) < Len(c.sqls), LookUp(t, c)
  PROVE  /\ pc'[t] \in {"look", "send"}
         /\ pc'[t] = "send" => \A k \in 1..Size(call'[t]) : got'[t][k] = None
         /\ \A u \in Tasks \ {t} : call'[u] = call[u] /\ pc'[u] = pc[u] /\ out'[u] = out[u] /\ got'[u] = got[u]
<1> DEFINE x == LookedUp(c.sqls[Len(c.execs) + 1], c.again /\ c.does.force)
           d == [c EXCEPT !.execs = Append(c.execs, x)]
           reqs == Requests(t, c.does.sends, d.execs)
<1>1. /\ x \in Lookups /\ call' = [call EXCEPT ![t] = d]
      /\ \/ pc' = [pc EXCEPT ![t] = "look"] /\ out' = out /\ got' = got
         \/ /\ pc' = [pc EXCEPT ![t] = "send"] /\ out' = [out EXCEPT ![t] = reqs]
            /\ got' = [got EXCEPT ![t] = [i \in DOMAIN reqs |-> None]]
  BY LookUpDoes
<1>2. d.does = c.does /\ d.execs \in Seq(Lookups) /\ Len(d.execs) = Len(c.execs) + 1 /\ Len(c.execs) \in Nat
  BY <1>1, CallAfterLookUp DEF Records
<1> HIDE DEF d, x
<1>3. Len(reqs) = Size(d) /\ DOMAIN reqs = 1..Len(reqs)
  <2>1. Len(d.execs) > 0
    BY <1>2
  <2>2. /\ reqs \in Seq(Messages)
        /\ Len(reqs) = IF c.does.sends = "tx" THEN 3 ELSE Len(d.execs)
        /\ DOMAIN reqs = 1..Len(reqs)
        /\ c.does.sends # "tx" => \A j \in 1..Len(reqs) : reqs[j] = Exec(t, j, d.execs[j])
        /\ c.does.sends = "tx" => /\ reqs[1] = [t |-> t, i |-> 1, op |-> "setup"]
                                  /\ reqs[2] = Exec(t, 2, d.execs[1])
                                  /\ reqs[3] = [t |-> t, i |-> 3, op |-> "commit"]
    BY <1>2, <2>1, RequestsAre
  <2> QED
    BY <1>2, <2>2 DEF Size
<1> HIDE DEF reqs
<1>4. /\ call \in [Tasks -> Records] /\ pc \in [Tasks -> {"idle", "look", "send", "wait"}]
      /\ out \in [Tasks -> Seq(Messages)] /\ got \in [Tasks -> UNION {[1..n -> Results \cup {None}] : n \in Nat}]
  BY DEF TypeOK
<1>5. call'[t] = d /\ \A u \in Tasks \ {t} : call'[u] = call[u] /\ pc'[u] = pc[u] /\ out'[u] = out[u] /\ got'[u] = got[u]
  BY <1>1, <1>4
<1>6. CASE pc' = [pc EXCEPT ![t] = "look"]
  BY <1>4, <1>5, <1>6
<1>7. CASE pc' = [pc EXCEPT ![t] = "send"] /\ got' = [got EXCEPT ![t] = [i \in DOMAIN reqs |-> None]]
  <2>1. got'[t] = [i \in DOMAIN reqs |-> None] /\ pc'[t] = "send"
    BY <1>4, <1>7
  <2>2. \A k \in 1..Size(call'[t]) : got'[t][k] = None
    BY <1>3, <1>5, <2>1
  <2> QED
    BY <1>5, <2>1, <2>2
<1> QED
  BY <1>1, <1>6, <1>7

LEMMA AskDoes ==
  ASSUME Wire, NEW t \in Tasks, Call(t) \/ Look(t)
  PROVE  /\ pc[t] \in {"idle", "look"} /\ pc'[t] \in {"look", "send"}
         /\ pc'[t] = "send" => \A k \in 1..Size(call'[t]) : got'[t][k] = None
         /\ \A u \in Tasks \ {t} : call'[u] = call[u] /\ pc'[u] = pc[u] /\ out'[u] = out[u] /\ got'[u] = got[u]
         /\ UNCHANGED <<cache, chan, prepared, unsure>>
<1>1. TypeOK /\ Shape(t)
  BY DEF Wire
<1>2. CASE Call(t)
  <2>0. PICK does \in Policies : \E sqls \in [1..(IF does.sends = "batch" THEN 2 ELSE 1) -> Sqls] :
          LookUp(t, [NoCall EXCEPT !.does = does, !.sqls = sqls])
    BY <1>2 DEF Call, Policies
  <2>1. PICK sqls \in [1..(IF does.sends = "batch" THEN 2 ELSE 1) -> Sqls] :
          LookUp(t, [NoCall EXCEPT !.does = does, !.sqls = sqls])
    BY <2>0
  <2> DEFINE c == [NoCall EXCEPT !.does = does, !.sqls = sqls]
  <2>2. sqls \in Seq(Sqls) /\ Len(sqls) = IF does.sends = "batch" THEN 2 ELSE 1
    OBVIOUS
  <2>3. c.does = does /\ c.sqls = sqls /\ c.execs = <<>> /\ c \in Records
    <3>1. NoCall \in Records /\ NoCall.execs = <<>>
      BY DEF NoCall, Records
    <3> QED
      BY <2>2, <3>1 DEF Records
  <2>4. Len(c.execs) < Len(c.sqls)
    BY <2>2, <2>3
  <2>5. pc[t] = "idle" /\ UNCHANGED <<cache, chan, prepared, unsure>>
    BY <1>2 DEF Call, serverVars
  <2>6. LookUp(t, c)
    BY <2>1
  <2> HIDE DEF c
  <2> QED
    BY <1>1, <2>2, <2>3, <2>4, <2>5, <2>6, LookUpAsks
<1>3. CASE Look(t)
  <2>1. pc[t] = "look" /\ LookUp(t, call[t]) /\ call[t] \in Records /\ UNCHANGED <<cache, chan, prepared, unsure>>
    BY <1>1, <1>3 DEF Look, TypeOK, serverVars
  <2>2. /\ call[t].does \in Policies
        /\ Len(call[t].sqls) = IF call[t].does.sends = "batch" THEN 2 ELSE 1
        /\ Len(call[t].execs) < Len(call[t].sqls)
    BY <1>1, <2>1 DEF Shape
  <2> QED
    BY <1>1, <2>1, <2>2, LookUpAsks
<1> QED
  BY <1>2, <1>3

-----------------------------------------------------------------------------
(* Transactions.                                                           *)

Midway(t) == pc[t] = "send" /\ Halfway(t)
Behind(i) == \E j \in 1..Len(chan) : i < j /\ chan[j].op = "commit"

\* A BEGIN in the channel has a COMMIT behind it, or its call is about to send one, or was
\* dropped too early; so has a transaction that is open.
Ends ==
  /\ \A i \in 1..Len(chan) : chan[i].op = "setup" =>
       Behind(i) \/ (IF chan[i].t = None THEN cut ELSE pc[chan[i].t] = "send")
  /\ tx.open => cut \/ Behind(0) \/ \E t \in Tasks : Midway(t)

\* Whoever has sent BEGIN and still sends has a COMMIT to send.
LEMMA SetupSent ==
  ASSUME Wire, NEW i \in 1..Len(chan), chan[i].op = "setup", chan[i].t # None, pc[chan[i].t] = "send"
  PROVE  chan[i].t \in Tasks /\ Midway(chan[i].t)
<1>1. TypeOK /\ Awaited(i) /\ chan[i].t \in Tasks
  <2>1. TypeOK /\ Awaited(i)
    BY DEF Wire, Awaited
  <2> QED
    BY <2>1, Message
<1>2. PICK t \in Tasks : t = chan[i].t
  BY <1>1
<1>3. /\ Shape(t) /\ pc[t] = "send" /\ chan[i].i \in 1..Sent(call[t], out[t])
      /\ chan[i] = Request(t, call[t], chan[i].i)
  BY <1>1, <1>2 DEF Wire, Matched
<1>4. /\ Size(call[t]) \in 1..3 /\ Sent(call[t], out[t]) \in 0..Size(call[t]) /\ Len(out[t]) \in Nat
      /\ call[t].does.sends = "tx" => Size(call[t]) = 3
  BY <1>1, <1>3, Sizes
<1>5. Len(out[t]) \in 1..Size(call[t])
  BY <1>3 DEF Shape
<1>6. chan[i].i \in 1..Size(call[t])
  BY <1>3, <1>4
<1>7. call[t].does.sends = "tx"
  BY <1>1, <1>3, <1>6, RequestFields
<1>8. Len(out[t]) \in {1, 2}
  <2>1. Sent(call[t], out[t]) = 3 - Len(out[t])
    BY <1>4, <1>7 DEF Sent
  <2>2. 1 <= Sent(call[t], out[t])
    BY <1>3, <1>4
  <2>3. PICK n \in 1..3 : n = Len(out[t])
    BY <1>4, <1>5, <1>7
  <2>4. 1 <= 3 - n
    BY <2>1, <2>2, <2>3
  <2>5. n \in {1, 2}
    BY ONLY <2>4, n \in 1..3
  <2> QED
    BY <2>3, <2>5
<1> QED
  BY <1>1, <1>2, <1>3, <1>7, <1>8 DEF Midway, Halfway

\* The last request of such a call is its COMMIT.
LEMMA LastIsCommit ==
  ASSUME TypeOK, NEW t \in Tasks, Shape(t), Midway(t), Len(out[t]) = 1
  PROVE  out[t][1].op = "commit"
<1>1. pc[t] = "send" /\ call[t].does.sends = "tx"
  BY DEF Midway, Halfway
<1>2. Size(call[t]) = 3 /\ Sent(call[t], out[t]) + 1 = 3
  BY <1>1 DEF Size, Sent
<1>3. out[t][1] = Request(t, call[t], 3)
  <2>1. \A j \in 1..Len(out[t]) : out[t][j] = Request(t, call[t], Sent(call[t], out[t]) + j)
    BY <1>1 DEF Shape
  <2>2. 1 \in 1..Len(out[t])
    OBVIOUS
  <2> QED
    BY <1>2, <2>1, <2>2
<1>4. 3 \in 1..Size(call[t])
  BY <1>2
<1> QED
  BY <1>1, <1>3, <1>4, RequestFields

\* What is behind a request stays there while the channel grows.
LEMMA BehindKept ==
  ASSUME TypeOK, TypeOK', Len(chan) <= Len(chan'), \A i \in 1..Len(chan) : chan'[i].op = chan[i].op,
         NEW i \in Nat, Behind(i)
  PROVE  Behind(i)'
<1>1. Len(chan) \in Nat /\ Len(chan') \in Nat
  <2>1. chan \in Seq(Messages) /\ chan' \in Seq(Messages)
    BY DEF TypeOK
  <2> QED
    BY <2>1
<1>2. PICK j \in 1..Len(chan) : i < j /\ chan[j].op = "commit"
  BY DEF Behind
<1>3. j \in 1..Len(chan') /\ chan'[j].op = "commit"
  BY <1>1, <1>2
<1> QED
  BY <1>2, <1>3 DEF Behind

\* Whoever does not send leaves what the others owe as it is, and a COMMIT where it is.
LEMMA EndsKept ==
  ASSUME TypeOK, TypeOK', Ends, NEW t \in Tasks, tx'.open = tx.open, Len(chan) <= Len(chan'),
         \A u \in Tasks \ {t} : pc'[u] = pc[u] /\ call'[u] = call[u] /\ out'[u] = out[u],
         \A i \in 1..Len(chan) : chan'[i].op = chan[i].op,
         \A i \in 1..Len(chan) : chan[i].op = "setup" => chan'[i].t = chan[i].t \/ (chan[i].t = t /\ chan'[i].t = None),
         \A i \in 1..Len(chan') : i \notin 1..Len(chan) => chan'[i].op # "setup",
         cut => cut',
         \A i \in 1..Len(chan) : chan[i].op = "setup" /\ chan[i].t = t /\ pc[t] = "send" => cut' /\ chan'[i].t = None,
         Midway(t) => cut'
  PROVE  Ends'
<1>1. Len(chan) \in Nat /\ Len(chan') \in Nat
  <2>1. chan \in Seq(Messages) /\ chan' \in Seq(Messages)
    BY DEF TypeOK
  <2> QED
    BY <2>1
<1>2. ASSUME NEW i \in 1..Len(chan'), chan'[i].op = "setup"
      PROVE  Behind(i)' \/ (IF chan'[i].t = None THEN cut' ELSE pc'[chan'[i].t] = "send")
  <2>1. i \in 1..Len(chan) /\ chan[i].op = "setup" /\ i \in Nat
    BY <1>1, <1>2
  <2>2. CASE Behind(i)
    BY <2>1, <2>2, BehindKept
  <2>3. CASE chan[i].t = None /\ cut
    <3>1. chan'[i].t = None
      BY <2>1, <2>3
    <3> QED
      BY <2>3, <3>1
  <2>4. CASE chan[i].t # None /\ pc[chan[i].t] = "send"
    <3>1. chan[i].t \in Tasks
      BY <2>1, <2>4, Message DEF Awaited
    <3>2. CASE chan[i].t = t
      BY <2>1, <2>4, <3>2
    <3>3. CASE chan[i].t # t
      BY <2>1, <2>4, <3>1, <3>3
    <3> QED
      BY <3>2, <3>3
  <2> QED
    BY <2>1, <2>2, <2>3, <2>4 DEF Ends
<1>3. ASSUME tx'.open PROVE cut' \/ Behind(0)' \/ \E u \in Tasks : Midway(u)'
  <2>1. CASE Behind(0)
    BY <2>1, BehindKept
  <2>2. ASSUME NEW u \in Tasks, Midway(u) PROVE cut' \/ Midway(u)'
    <3>1. CASE u = t
      BY <2>2, <3>1
    <3>2. CASE u # t
      BY <2>2, <3>2 DEF Midway, Halfway
    <3> QED
      BY <3>1, <3>2
  <2> QED
    BY <1>3, <2>1, <2>2 DEF Ends
<1> QED
  BY <1>2, <1>3 DEF Ends

\* The end of an attempt leaves a COMMIT where it is.
LEMMA EndsOfTask ==
  ASSUME Wire, Wire', Ends, NEW t \in Tasks, Call(t) \/ Look(t) \/ Succeeds(t) \/ Fails(t) \/ Invalidate(t)
  PROVE  Ends'
<1>1. TypeOK /\ TypeOK'
  BY DEF Wire
<1>2. pc[t] # "send" /\ tx' = tx /\ cut' = cut
  BY DEF Call, Look, Succeeds, Fails, Invalidate, Answered, Returns, serverVars
<1>3. \A u \in Tasks \ {t} : pc'[u] = pc[u] /\ call'[u] = call[u] /\ out'[u] = out[u]
  <2>1. CASE Call(t) \/ Look(t)
    BY <2>1, AskDoes
  <2>2. CASE Succeeds(t) \/ Fails(t) \/ Invalidate(t)
    <3>1. pc' = pc \/ \E p : pc' = [pc EXCEPT ![t] = p]
      BY <2>2 DEF Succeeds, Fails, Invalidate, Returns
    <3>2. \E c : call' = [call EXCEPT ![t] = c]
      BY <2>2 DEF Succeeds, Fails, Invalidate, Returns
    <3>3. out' = out
      BY <2>2 DEF Succeeds, Fails, Invalidate, Returns
    <3> QED
      BY <1>1, <3>1, <3>2, <3>3 DEF TypeOK
  <2> QED
    BY <2>1, <2>2
<1>4. ~Midway(t)
  BY <1>2 DEF Midway
<1>5. Len(chan) \in Nat /\ chan \in Seq(Messages)
  BY <1>1 DEF TypeOK
<1>6. CASE chan' = chan
  BY <1>1, <1>2, <1>3, <1>4, <1>5, <1>6, EndsKept
<1>7. CASE \E n : chan' = Append(chan, CloseOf(n))
  <2>1. PICK n : chan' = Append(chan, CloseOf(n))
    BY <1>7
  <2>2. /\ Len(chan') = Len(chan) + 1 /\ \A i \in 1..Len(chan) : chan'[i] = chan[i]
        /\ chan'[Len(chan) + 1] = CloseOf(n)
    BY <1>5, <2>1
  <2>3. \A i \in 1..Len(chan') : i \notin 1..Len(chan) => i = Len(chan) + 1
    BY <1>5, <2>2
  <2>4. CloseOf(n).op # "setup" /\ Len(chan) <= Len(chan')
    BY <1>5, <2>2 DEF CloseOf
  <2>5. \A i \in 1..Len(chan') : i \notin 1..Len(chan) => chan'[i].op # "setup"
    BY <2>2, <2>3, <2>4
  <2> QED
    BY <1>1, <1>2, <1>3, <1>4, <2>2, <2>4, <2>5, EndsKept
<1>8. CASE chan' = Forget(t, chan)
  <2>1. /\ Len(chan') = Len(chan)
        /\ \A i \in 1..Len(chan) :
             /\ chan'[i].op = chan[i].op
             /\ IF chan[i].op # "close" /\ chan[i].t = t THEN chan'[i].t = None ELSE chan'[i] = chan[i]
    BY <1>1, <1>8, ForgetDoes
  <2>2. \A i \in 1..Len(chan) : chan[i].op = "setup" => chan'[i].t = chan[i].t \/ (chan[i].t = t /\ chan'[i].t = None)
    BY <2>1
  <2> QED
    BY <1>1, <1>2, <1>3, <1>4, <1>5, <2>1, <2>2, EndsKept
<1>9. chan' = chan \/ (\E n : chan' = Append(chan, CloseOf(n))) \/ chan' = Forget(t, chan)
  <2>1. CASE Succeeds(t)
    <3>1. \E x \in Lookups : Publish(x)
      BY <2>1, SucceedsIs
    <3> QED
      BY <1>1, <3>1, PublishDoes
  <2>2. CASE ~Succeeds(t)
    BY <2>2 DEF Call, Look, Fails, Invalidate
  <2> QED
    BY <2>1, <2>2
<1> QED
  BY <1>6, <1>7, <1>8, <1>9

\* A call that is dropped leaves its COMMIT in the channel, or cuts its transaction off.
LEMMA EndsOfGiveUp ==
  ASSUME Wire, Wire', Ends, NEW t \in Tasks, GiveUp(t)
  PROVE  Ends'
<1>1. /\ TypeOK /\ TypeOK' /\ chan' = Forget(t, chan) /\ cut' = (cut \/ Halfway(t)) /\ tx' = tx
      /\ \A u \in Tasks \ {t} : pc'[u] = pc[u] /\ call'[u] = call[u] /\ out'[u] = out[u]
  <2>1. TypeOK /\ TypeOK'
    BY DEF Wire
  <2> QED
    BY <2>1, GiveUpDoes
<1>2. /\ Len(chan') = Len(chan) /\ Len(chan) \in Nat
      /\ \A i \in 1..Len(chan) :
           /\ chan'[i].op = chan[i].op
           /\ IF chan[i].op # "close" /\ chan[i].t = t THEN chan'[i].t = None ELSE chan'[i] = chan[i]
  <2>1. chan \in Seq(Messages)
    BY <1>1 DEF TypeOK
  <2> QED
    BY <1>1, <2>1, ForgetDoes
<1>3. \A i \in 1..Len(chan) : chan[i].op = "setup" => chan'[i].t = chan[i].t \/ (chan[i].t = t /\ chan'[i].t = None)
  BY <1>2
<1>4. Midway(t) => cut'
  BY <1>1 DEF Midway
<1>5. ASSUME NEW i \in 1..Len(chan), chan[i].op = "setup", chan[i].t = t, pc[t] = "send"
      PROVE  cut' /\ chan'[i].t = None
  <2>1. t # None
    BY Constants
  <2>2. Midway(t)
    BY <1>5, <2>1, SetupSent
  <2> QED
    BY <1>2, <1>4, <1>5, <2>2
<1>6. cut => cut'
  BY <1>1
<1> QED
  BY <1>1, <1>2, <1>3, <1>4, <1>5, <1>6, EndsKept

LEMMA EndsOfSend ==
  ASSUME Wire, Wire', Ends, NEW t \in Tasks, Send(t)
  PROVE  Ends'
<1>1. TypeOK /\ TypeOK' /\ Shape(t) /\ pc[t] = "send"
  BY DEF Wire, Send
<1>2. /\ out[t] \in Seq(Messages) /\ chan \in Seq(Messages) /\ Len(chan) \in Nat /\ Len(out[t]) \in Nat \ {0}
      /\ Len(out[t]) \in 1..Size(call[t]) /\ Size(call[t]) \in 1..3
      /\ \A j \in 1..Len(out[t]) : out[t][j] = Request(t, call[t], Sent(call[t], out[t]) + j)
  <2>1. out[t] \in Seq(Messages) /\ chan \in Seq(Messages)
    BY <1>1 DEF TypeOK
  <2> QED
    BY <1>1, <2>1, Sizes DEF Shape
<1> DEFINE r == out[t][1]
<1>3. /\ chan' = Append(chan, r) /\ Len(chan') = Len(chan) + 1 /\ chan'[Len(chan) + 1] = r
      /\ \A i \in 1..Len(chan) : chan'[i] = chan[i]
  BY <1>2 DEF Send
<1>4. /\ pc'[t] = (IF Len(out[t]) = 1 THEN "wait" ELSE "send") /\ out'[t] = Tail(out[t])
      /\ \A u \in Tasks \ {t} : pc'[u] = pc[u] /\ out'[u] = out[u]
  BY <1>1 DEF Send, TypeOK
<1>5. call' = call /\ tx' = tx /\ cut' = cut
  BY DEF Send, serverVars
<1>6. Len(chan) <= Len(chan') /\ \A i \in 1..Len(chan) : chan'[i].op = chan[i].op
  BY <1>2, <1>3
<1>7. ASSUME Midway(t), Len(out[t]) = 1, NEW i \in 0..Len(chan) PROVE Behind(i)'
  <2>1. r.op = "commit"
    BY <1>1, <1>7, LastIsCommit
  <2>2. Len(chan) + 1 \in 1..Len(chan') /\ i < Len(chan) + 1
    BY <1>2, <1>3
  <2> QED
    BY <1>3, <2>1, <2>2 DEF Behind
<1>8. ASSUME NEW i \in 1..Len(chan'), chan'[i].op = "setup"
      PROVE  Behind(i)' \/ (IF chan'[i].t = None THEN cut' ELSE pc'[chan'[i].t] = "send")
  <2>1. CASE i \in 1..Len(chan)
    <3>1. chan'[i] = chan[i] /\ chan[i].op = "setup" /\ i \in Nat /\ i \in 0..Len(chan)
      BY <1>2, <1>3, <1>8, <2>1
    <3>2. CASE Behind(i)
      BY <1>1, <1>6, <3>1, <3>2, BehindKept
    <3>3. CASE chan[i].t = None /\ cut
      BY <1>5, <3>1, <3>3
    <3>4. CASE chan[i].t # None /\ pc[chan[i].t] = "send"
      <4>1. chan[i].t \in Tasks /\ Midway(chan[i].t)
        BY <2>1, <3>1, <3>4, SetupSent
      <4>2. CASE chan[i].t = t /\ Len(out[t]) = 1
        BY <1>7, <3>1, <4>1, <4>2
      <4>3. CASE ~(chan[i].t = t /\ Len(out[t]) = 1)
        BY <1>4, <3>1, <3>4, <4>1, <4>3
      <4> QED
        BY <4>2, <4>3
    <3> QED
      BY <2>1, <3>1, <3>2, <3>3, <3>4 DEF Ends
  <2>2. CASE i \notin 1..Len(chan)
    <3>1. i = Len(chan) + 1 /\ chan'[i] = r
      BY <1>2, <1>3, <2>2
    <3> DEFINE k == Sent(call[t], out[t]) + 1
    <3>2. k \in 1..Size(call[t]) /\ k = 1 + (Size(call[t]) - Len(out[t]))
      BY <1>2 DEF Sent
    <3>3. r = Request(t, call[t], k)
      BY <1>2
    <3> HIDE DEF k
    <3>4. call[t].does.sends = "tx" /\ k = 1 /\ r.t = t
      BY <1>1, <1>8, <3>1, <3>2, <3>3, RequestFields
    <3>5. Size(call[t]) = 3
      BY <3>4 DEF Size
    <3>6. Len(out[t]) = 3
      BY <1>2, <3>2, <3>4, <3>5
    <3>7. pc'[t] = "send" /\ t # None
      BY <1>4, <3>6, Constants
    <3> QED
      BY <3>1, <3>4, <3>7
  <2> QED
    BY <2>1, <2>2
<1>9. ASSUME tx'.open PROVE cut' \/ Behind(0)' \/ \E u \in Tasks : Midway(u)'
  <2>1. CASE cut
    BY <1>5, <2>1
  <2>2. CASE Behind(0)
    BY <1>1, <1>6, <2>2, BehindKept
  <2>3. ASSUME NEW u \in Tasks, Midway(u) PROVE Behind(0)' \/ Midway(u)'
    <3>1. CASE u # t
      BY <1>4, <1>5, <2>3, <3>1 DEF Midway, Halfway
    <3>2. CASE u = t /\ Len(out[t]) = 1
      BY <1>2, <1>7, <2>3, <3>2
    <3>3. CASE u = t /\ Len(out[t]) # 1
      <4>1. Len(out[t]) = 2 /\ call[t].does.sends = "tx"
        BY <2>3, <3>3 DEF Midway, Halfway
      <4>2. Len(out'[t]) = 1 /\ pc'[t] = "send"
        BY <1>2, <1>4, <4>1
      <4> QED
        BY <1>5, <3>3, <4>1, <4>2 DEF Midway, Halfway
    <3> QED
      BY <3>1, <3>2, <3>3
  <2> QED
    BY <1>5, <1>9, <2>1, <2>2, <2>3 DEF Ends
<1> QED
  BY <1>8, <1>9 DEF Ends

\* The server takes a COMMIT only when it ends what is open.
LEMMA EndsOfServer ==
  ASSUME Wire, Wire', Ends, Setup \/ Commit \/ Close \/ Execute \/ Alter
  PROVE  Ends'
<1>1. TypeOK /\ TypeOK'
  BY DEF Wire
<1>2. CASE Alter
  <2>1. chan' = chan /\ pc' = pc /\ call' = call /\ out' = out /\ tx' = tx /\ cut' = cut
    BY <1>2 DEF Alter, taskVars
  <2> QED
    BY <2>1 DEF Ends, Behind, Midway, Halfway
<1>3. ASSUME NEW op, Takes(op), op = "commit" => ~tx'.open, op # "setup" /\ op # "commit" => tx'.open = tx.open
      PROVE  Ends'
  <2>1. /\ Len(chan) \in Nat \ {0} /\ 1 \in 1..Len(chan) /\ chan[1].op = op
        /\ Len(chan') = Len(chan) - 1
        /\ \A i \in 1..Len(chan') : i + 1 \in 1..Len(chan) /\ chan'[i] = chan[i + 1]
        /\ pc' = pc /\ call' = call /\ out' = out
        /\ cut' = (cut /\ (op = "commit" => \E i \in 1..Len(chan') : chan'[i].op = "setup" /\ chan'[i].t = None))
    BY <1>1, <1>3, TakesDoes
  <2>2. ASSUME NEW i \in 1..Len(chan), Behind(i) PROVE Behind(i - 1)'
    <3>1. PICK j \in 1..Len(chan) : i < j /\ chan[j].op = "commit"
      BY <2>2 DEF Behind
    <3>2. j - 1 \in 1..Len(chan') /\ i - 1 < j - 1 /\ (j - 1) + 1 = j
      BY <2>1, <3>1
    <3>3. chan'[j - 1].op = "commit"
      BY <2>1, <3>1, <3>2
    <3> QED
      BY <3>2, <3>3 DEF Behind
  <2>3. ASSUME NEW u \in Tasks, Midway(u) PROVE Midway(u)'
    BY <2>1, <2>3 DEF Midway, Halfway
  <2>4. ASSUME NEW i \in 1..Len(chan'), chan'[i].op = "setup"
        PROVE  Behind(i)' \/ (IF chan'[i].t = None THEN cut' ELSE pc'[chan'[i].t] = "send")
    <3>1. i + 1 \in 1..Len(chan) /\ chan'[i] = chan[i + 1] /\ (i + 1) - 1 = i
      BY <2>1
    <3>2. CASE Behind(i + 1)
      <4>1. Behind((i + 1) - 1)'
        BY <2>2, <3>1, <3>2
      <4> QED
        BY <3>1, <4>1
    <3>3. CASE chan[i + 1].t = None /\ cut
      BY <2>1, <2>4, <3>1, <3>3
    <3>4. CASE chan[i + 1].t # None /\ pc[chan[i + 1].t] = "send"
      BY <2>1, <3>1, <3>4
    <3> QED
      BY <2>4, <3>1, <3>2, <3>3, <3>4 DEF Ends
  <2>5. ASSUME tx'.open PROVE cut' \/ Behind(0)' \/ \E u \in Tasks : Midway(u)'
    <3>1. op # "commit" /\ cut' = cut
      <4>1. op # "commit" /\ cut \in BOOLEAN
        BY <1>1, <1>3, <2>5 DEF TypeOK
      <4> QED
        BY <2>1, <4>1
    <3>2. Behind(1) => Behind(0)'
      <4>1. Behind(1) => Behind(1 - 1)'
        BY <2>1, <2>2
      <4> QED
        BY <4>1
    <3>3. CASE op = "setup"
      <4>1. CASE Behind(1) \/ cut
        BY <3>1, <3>2, <4>1
      <4>2. CASE chan[1].t # None /\ pc[chan[1].t] = "send"
        BY <2>1, <2>3, <3>3, <4>2, SetupSent
      <4> QED
        BY <2>1, <3>3, <4>1, <4>2 DEF Ends
    <3>4. CASE op # "setup"
      <4>1. cut \/ Behind(0) \/ \E u \in Tasks : Midway(u)
        BY <1>3, <2>5, <3>1, <3>4 DEF Ends
      <4>2. Behind(0) => Behind(1)
        <5> SUFFICES ASSUME NEW j \in 1..Len(chan), chan[j].op = "commit" PROVE Behind(1)
          BY DEF Behind
        <5>1. j # 1 /\ 1 < j
          BY <2>1, <3>1
        <5> QED
          BY <5>1 DEF Behind
      <4> QED
        BY <2>3, <3>1, <3>2, <4>1, <4>2
    <3> QED
      BY <3>3, <3>4
  <2> QED
    BY <2>4, <2>5 DEF Ends
<1>4. CASE Setup
  BY <1>3, <1>4 DEF Setup
<1>5. CASE Commit
  <2>1. ~tx'.open
    BY <1>5 DEF Commit
  <2> QED
    BY <1>3, <1>5, <2>1 DEF Commit
<1>6. CASE Close
  BY <1>3, <1>6 DEF Close
<1>7. CASE Execute
  BY <1>1, <1>3, <1>7, ExecuteDoes
<1> QED
  BY <1>2, <1>4, <1>5, <1>6, <1>7

LEMMA EndsStep ==
  ASSUME Wire, Wire', Ends, [Next]_vars
  PROVE  Ends'
<1>1. CASE UNCHANGED vars
  BY <1>1 DEF vars, taskVars, serverVars, Ends, Behind, Midway, Halfway
<1>2. ASSUME NEW t \in Tasks, Call(t) \/ Look(t) \/ Send(t) \/ Succeeds(t) \/ Fails(t) \/ Invalidate(t) \/ GiveUp(t)
      PROVE  Ends'
  BY <1>2, EndsOfTask, EndsOfSend, EndsOfGiveUp
<1> QED
  BY <1>1, <1>2, EndsOfServer DEF Next

\* pipeline_transaction (async_conn.rs:870-912) sends its COMMIT whatever becomes of the
\* statement, and nothing takes it back: a session with an open transaction has one on its
\* way, or the call that began it was dropped between its sends.
THEOREM SessionsAreLeftClean == Spec => []TransactionEnds
<1>1. Init => Wire /\ Ends
  <2> SUFFICES ASSUME Init PROVE Wire /\ Ends
    OBVIOUS
  <2>1. Len(chan) = 0 /\ ~tx.open
    BY DEF Init
  <2> QED
    BY <2>1, WireInit DEF Ends
<1>2. Wire /\ Ends /\ [Next]_vars => (Wire /\ Ends)'
  BY WireStep, EndsStep
<1>3. Wire /\ Ends => TransactionEnds
  <2> SUFFICES ASSUME Wire, Ends, tx.open
               PROVE  cut \/ (\E i \in DOMAIN chan : chan[i].op = "commit") \/ \E t \in Tasks : Midway(t)
    BY DEF TransactionEnds, Midway
  <2>1. DOMAIN chan = 1..Len(chan)
    BY DEF Wire, TypeOK
  <2> QED
    BY <2>1 DEF Ends, Behind
<1> QED
  BY <1>1, <1>2, <1>3, PTL DEF Spec

-----------------------------------------------------------------------------
(* Names.                                                                  *)

\* A name that something uses for a statement: the server, the cache, a call, or a request,
\* whose call may be gone.
Use(n, s) ==
  \/ \E p \in prepared : p.name = n /\ p.sql = s
  \/ s \in Cached /\ cache[s] = n
  \/ \E t \in Tasks : \E j \in 1..Len(call[t].execs) : call[t].execs[j].name = n /\ call[t].execs[j].sql = s
  \/ \E i \in 1..Len(chan) : chan[i].op = "exec" /\ chan[i].x.name = n /\ chan[i].x.sql = s

Meaning ==
  /\ \A n \in Nat, s \in Sqls : Use(n, s) => n < counter
  /\ \A n \in Nat, r, s \in Sqls : Use(n, r) /\ Use(n, s) => r = s
  /\ \A p, q \in prepared : p.name = q.name => p = q

LEMMA MeaningKept ==
  ASSUME TypeOK, TypeOK', Meaning, counter' = counter, \A n \in Nat, s \in Sqls : Use(n, s)' => Use(n, s),
         \A p, q \in prepared' : p.name = q.name => p = q
  PROVE  Meaning'
BY DEF Meaning

LEMMA MeaningOfNew ==
  ASSUME TypeOK, TypeOK', Meaning, NEW z \in Sqls, counter' = counter + 1, prepared' = prepared,
         \A n \in Nat, s \in Sqls : Use(n, s)' => Use(n, s) \/ (n = counter /\ s = z)
  PROVE  Meaning'
<1>1. counter \in Nat
  BY DEF TypeOK
<1>2. ASSUME NEW n \in Nat, NEW s \in Sqls, Use(n, s)' PROVE n < counter'
  <2>1. CASE Use(n, s)
    BY <1>1, <2>1 DEF Meaning
  <2>2. CASE n = counter
    BY <1>1, <2>2
  <2> QED
    BY <1>2, <2>1, <2>2
<1>3. ASSUME NEW n \in Nat, NEW r \in Sqls, NEW s \in Sqls, Use(n, r)', Use(n, s)' PROVE r = s
  <2>1. \A u \in Sqls : ~ Use(counter, u)
    BY <1>1 DEF Meaning
  <2> QED
    BY <1>1, <1>3, <2>1 DEF Meaning
<1> QED
  BY <1>2, <1>3 DEF Meaning

\* What is used is of the right kind.
LEMMA ExecUse ==
  ASSUME TypeOK, NEW t \in Tasks, NEW j \in 1..Len(call[t].execs)
  PROVE  /\ call[t].execs[j] \in Lookups /\ call[t].execs[j].name \in Nat /\ call[t].execs[j].sql \in Sqls
         /\ Use(call[t].execs[j].name, call[t].execs[j].sql)
<1>1. call[t].execs \in Seq(Lookups)
  BY DEF TypeOK, Records
<1>2. call[t].execs[j] \in Lookups
  BY <1>1
<1> QED
  BY <1>2 DEF Use, Lookups

LEMMA SentUse ==
  ASSUME TypeOK, NEW i \in 1..Len(chan), chan[i].op = "exec"
  PROVE  /\ chan[i].x \in Lookups /\ chan[i].x.name \in Nat /\ chan[i].x.sql \in Sqls
         /\ Use(chan[i].x.name, chan[i].x.sql)
<1>1. chan[i].x \in Lookups
  BY Message
<1> QED
  BY <1>1 DEF Use, Lookups

\* A task sends the next request of its attempt.
LEMMA SendAppends ==
  ASSUME Wire, NEW t \in Tasks, Send(t)
  PROVE  /\ Len(chan) \in Nat /\ Len(chan') = Len(chan) + 1
         /\ \A i \in 1..Len(chan) : chan'[i] = chan[i]
         /\ \E k \in 1..Size(call[t]) : chan'[Len(chan) + 1] = Request(t, call[t], k)
         /\ chan'[Len(chan) + 1].t = t /\ chan'[Len(chan) + 1].op # "close"
         /\ chan'[Len(chan) + 1].op = "exec" =>
              \E j \in 1..Len(call[t].execs) : chan'[Len(chan) + 1].x = call[t].execs[j]
<1>1. TypeOK /\ Shape(t) /\ pc[t] = "send"
  BY DEF Wire, Send
<1>2. /\ out[t] \in Seq(Messages) /\ chan \in Seq(Messages) /\ Len(chan) \in Nat
      /\ Len(out[t]) \in 1..Size(call[t]) /\ Size(call[t]) \in 1..3 /\ Len(call[t].execs) \in 1..2
      /\ \A j \in 1..Len(out[t]) : out[t][j] = Request(t, call[t], Sent(call[t], out[t]) + j)
  <2>1. out[t] \in Seq(Messages) /\ chan \in Seq(Messages)
    BY <1>1 DEF TypeOK
  <2>2. Size(call[t]) \in 1..3 /\ Len(call[t].execs) \in 1..2
    BY <1>1, Sizes
  <2>3. /\ Len(out[t]) \in 1..Size(call[t])
        /\ \A j \in 1..Len(out[t]) : out[t][j] = Request(t, call[t], Sent(call[t], out[t]) + j)
    BY <1>1 DEF Shape
  <2> QED
    BY <2>1, <2>2, <2>3
<1> DEFINE k == Sent(call[t], out[t]) + 1
<1>3. k \in 1..Size(call[t]) /\ out[t][1] = Request(t, call[t], k)
  <2>1. Sent(call[t], out[t]) = Size(call[t]) - Len(out[t])
    BY DEF Sent
  <2>2. Sent(call[t], out[t]) + 1 \in 1..Size(call[t]) /\ 1 \in 1..Len(out[t])
    BY <1>2, <2>1
  <2>3. out[t][1] = Request(t, call[t], Sent(call[t], out[t]) + 1)
    BY <1>2, <2>2
  <2> QED
    BY <2>2, <2>3
<1> DEFINE q == Request(t, call[t], k)
<1> HIDE DEF k
<1>4. chan' = Append(chan, q) /\ q \in Messages
  <2>1. Len(out[t]) > 0 /\ 1 \in 1..Len(out[t])
    BY <1>2
  <2>2. Head(out[t]) = out[t][1] /\ out[t][1] \in Messages
    BY <1>2, <2>1
  <2> QED
    BY <1>3, <2>2 DEF Send
<1> HIDE DEF q
<1>5. Len(chan') = Len(chan) + 1 /\ (\A i \in 1..Len(chan) : chan'[i] = chan[i]) /\ chan'[Len(chan) + 1] = q
  BY <1>2, <1>4
<1>6. /\ q.t = t /\ q.op # "close"
      /\ q.op = "exec" => q.x = call[t].execs[IF call[t].does.sends = "tx" THEN 1 ELSE k]
  BY <1>1, <1>3, RequestFields DEF q
<1>7. (IF call[t].does.sends = "tx" THEN 1 ELSE k) \in 1..Len(call[t].execs)
  <2>1. CASE call[t].does.sends = "tx"
    <3>1. PICK n \in 1..2 : n = Len(call[t].execs)
      BY <1>2
    <3>2. 1 \in 1..n
      OBVIOUS
    <3> QED
      BY <2>1, <3>1, <3>2
  <2>2. CASE call[t].does.sends # "tx"
    <3>1. Size(call[t]) = Len(call[t].execs)
      BY <2>2 DEF Size
    <3>2. k \in 1..Len(call[t].execs)
      BY <1>3, <3>1
    <3> QED
      BY <2>2, <3>2
  <2> QED
    BY <2>1, <2>2
<1>8. q.op = "exec" => \E j \in 1..Len(call[t].execs) : q.x = call[t].execs[j]
  BY <1>6, <1>7
<1>9. \E n \in 1..Size(call[t]) : q = Request(t, call[t], n)
  BY <1>3 DEF q
<1> QED
  BY <1>2, <1>5, <1>6, <1>8, <1>9

\* An awaited request that the server executes is the one of the task that waits for it.
LEMMA ExecutedIs ==
  ASSUME Wire, NEW i \in 1..Len(chan), chan[i].op = "exec", Awaited(i)
  PROVE  \E t \in Tasks : \E j \in 1..Len(call[t].execs) :
           /\ chan[i].t = t /\ Awaited(i) /\ pc[t] \in {"send", "wait"} /\ chan[i].x = call[t].execs[j]
           /\ chan[i].i = (IF call[t].does.sends = "tx" THEN j + 1 ELSE j) /\ chan[i].i \in 1..Size(call[t])
           /\ Response(call[t], got[t], j) = None
<1>1. TypeOK /\ Awaited(i) /\ chan[i].t \in Tasks
  BY Message DEF Wire
<1>2. PICK t \in Tasks : t = chan[i].t
  BY <1>1
<1>3. /\ pc[t] \in {"send", "wait"} /\ chan[i].i \in 1..Sent(call[t], out[t])
      /\ chan[i] = Request(t, call[t], chan[i].i) /\ \A k \in chan[i].i..Size(call[t]) : got[t][k] = None
      /\ Shape(t)
  BY <1>1, <1>2 DEF Wire, Matched
<1>4. /\ Size(call[t]) \in 1..3 /\ Sent(call[t], out[t]) \in 0..Size(call[t])
      /\ Len(call[t].execs) \in 1..2 /\ call[t].does.sends \in {"one", "tx", "batch"}
  BY <1>1, <1>3, Sizes
<1>5. chan[i].i \in 1..Size(call[t]) /\ got[t][chan[i].i] = None
  BY <1>3, <1>4
<1>6. /\ chan[i].x = call[t].execs[IF call[t].does.sends = "tx" THEN 1 ELSE chan[i].i]
      /\ ~(call[t].does.sends = "tx" /\ chan[i].i # 2)
  BY <1>1, <1>3, <1>5, RequestFields
<1>7. CASE call[t].does.sends = "tx"
  <2>1. chan[i].i = 2 /\ chan[i].x = call[t].execs[1] /\ 1 \in 1..Len(call[t].execs) /\ 1 + 1 = 2
    BY <1>4, <1>6, <1>7
  <2> QED
    BY <1>1, <1>2, <1>3, <1>5, <1>7, <2>1 DEF Response
<1>8. CASE call[t].does.sends # "tx"
  <2>1. Size(call[t]) = Len(call[t].execs) /\ chan[i].x = call[t].execs[chan[i].i]
    BY <1>6, <1>8 DEF Size
  <2> QED
    BY <1>1, <1>2, <1>3, <1>5, <1>8, <2>1 DEF Response
<1> QED
  BY <1>7, <1>8

\* A lookup uses a name that the SQL has, or a new one.
LEMMA MeaningOfLookUp ==
  ASSUME TypeOK, TypeOK', Meaning, NEW t \in Tasks, NEW c \in Records, c.does \in Policies,
         Len(c.sqls) = (IF c.does.sends = "batch" THEN 2 ELSE 1), Len(c.execs) < Len(c.sqls), LookUp(t, c),
         c.execs = <<>> \/ c = call[t], cache' = cache, prepared' = prepared, chan' = chan
  PROVE  Meaning'
<1> DEFINE z == c.sqls[Len(c.execs) + 1]
           x == LookedUp(z, c.again /\ c.does.force)
           d == [c EXCEPT !.execs = Append(c.execs, x)]
<1>1. /\ z \in Sqls /\ (c.again /\ c.does.force) \in BOOLEAN /\ x \in Lookups /\ x.sql = z
      /\ call' = [call EXCEPT ![t] = d]
      /\ counter' = IF cache[z] = None THEN counter + 1 ELSE counter
  BY LookUpDoes
<1>2. /\ cache[z] = None => x.name = counter
      /\ cache[z] # None => x.name = cache[z]
  BY <1>1, LookedUpIs
<1>3. /\ Len(d.execs) = Len(c.execs) + 1 /\ d.execs[Len(c.execs) + 1] = x
      /\ \A j \in 1..Len(c.execs) : d.execs[j] = c.execs[j]
  BY <1>1, CallAfterLookUp
<1>4. Len(c.execs) \in Nat
  BY DEF Records
<1> HIDE DEF d, x, z
<1>5. call'[t] = d /\ \A u \in Tasks \ {t} : call'[u] = call[u]
  BY <1>1 DEF TypeOK
<1>6. ASSUME NEW n \in Nat, NEW s \in Sqls, Use(n, s)'
      PROVE  Use(n, s) \/ (n = x.name /\ s = z)
  <2>1. CASE \/ \E p \in prepared' : p.name = n /\ p.sql = s
             \/ s \in Cached' /\ cache'[s] = n
             \/ \E i \in 1..Len(chan') : chan'[i].op = "exec" /\ chan'[i].x.name = n /\ chan'[i].x.sql = s
    BY <2>1 DEF Use, Cached
  <2>2. CASE \E u \in Tasks : \E j \in 1..Len(call'[u].execs) : call'[u].execs[j].name = n /\ call'[u].execs[j].sql = s
    <3>1. PICK u \in Tasks : \E j \in 1..Len(call'[u].execs) : call'[u].execs[j].name = n /\ call'[u].execs[j].sql = s
      BY <2>2
    <3>2. PICK j \in 1..Len(call'[u].execs) : call'[u].execs[j].name = n /\ call'[u].execs[j].sql = s
      BY <3>1
    <3>3. CASE u # t
      BY <1>5, <3>2, <3>3 DEF Use
    <3>4. CASE u = t /\ j = Len(c.execs) + 1
      BY <1>1, <1>3, <1>5, <3>2, <3>4
    <3>5. CASE u = t /\ j # Len(c.execs) + 1
      <4>1. j \in 1..Len(c.execs)
        BY <1>3, <1>4, <1>5, <3>2, <3>5
      <4>2. c = call[t]
        <5>1. Len(<<>>) = 0
          OBVIOUS
        <5> QED
          BY <4>1, <5>1
      <4> QED
        BY <1>3, <1>5, <3>2, <3>5, <4>1, <4>2 DEF Use
    <3> QED
      BY <3>3, <3>4, <3>5
  <2> QED
    BY <1>6, <2>1, <2>2 DEF Use
<1>7. CASE cache[z] = None
  <2>1. \A n \in Nat, s \in Sqls : Use(n, s)' => Use(n, s) \/ (n = counter /\ s = z)
    BY <1>2, <1>6, <1>7
  <2>2. counter' = counter + 1
    BY <1>1, <1>7
  <2>3. PICK y \in Sqls : y = z
    BY <1>1
  <2> QED
    BY <2>1, <2>2, <2>3, MeaningOfNew
<1>8. CASE cache[z] # None
  <2>1. Use(cache[z], z)
    BY <1>1, <1>8 DEF Use, Cached
  <2>2. \A n \in Nat, s \in Sqls : Use(n, s)' => Use(n, s)
    BY <1>2, <1>6, <1>8, <2>1
  <2>3. counter' = counter
    BY <1>1, <1>8
  <2> QED
    BY <2>2, <2>3, MeaningKept DEF Meaning
<1> QED
  BY <1>7, <1>8

\* Nothing new is used.
LEMMA UseKept ==
  ASSUME TypeOK, TypeOK', Meaning, counter' = counter,
         \A u \in Tasks : call'[u].execs = call[u].execs \/ call'[u].execs = <<>>,
         \A p \in prepared' : Use(p.name, p.sql),
         \A s \in Cached' : Use(cache'[s], s),
         \A i \in 1..Len(chan') : chan'[i].op = "exec" => Use(chan'[i].x.name, chan'[i].x.sql),
         \A p, q \in prepared' : p.name = q.name => p = q
  PROVE  Meaning'
<1>1. ASSUME NEW n \in Nat, NEW s \in Sqls, Use(n, s)'
      PROVE  Use(n, s)
  <2>1. CASE \/ \E p \in prepared' : p.name = n /\ p.sql = s
             \/ s \in Cached' /\ cache'[s] = n
             \/ \E i \in 1..Len(chan') : chan'[i].op = "exec" /\ chan'[i].x.name = n /\ chan'[i].x.sql = s
    BY <2>1
  <2>2. CASE \E u \in Tasks : \E j \in 1..Len(call'[u].execs) : call'[u].execs[j].name = n /\ call'[u].execs[j].sql = s
    <3>1. PICK u \in Tasks : \E j \in 1..Len(call'[u].execs) : call'[u].execs[j].name = n /\ call'[u].execs[j].sql = s
      BY <2>2
    <3>2. call'[u].execs = call[u].execs
      <4>1. Len(<<>>) = 0
        OBVIOUS
      <4> QED
        BY <3>1, <4>1
    <3> QED
      BY <3>1, <3>2 DEF Use
  <2> QED
    BY <1>1, <2>1, <2>2 DEF Use
<1> QED
  BY <1>1, MeaningKept

LEMMA PreparedUse ==
  ASSUME TypeOK, NEW p \in prepared
  PROVE  Use(p.name, p.sql) /\ p.name \in Nat /\ p.sql \in Sqls
<1>1. prepared \subseteq [name : Nat, sql : Sqls, stale : BOOLEAN]
  BY DEF TypeOK
<1> QED
  BY <1>1 DEF Use

LEMMA MeaningOfTask ==
  ASSUME Wire, Wire', Meaning, NEW t \in Tasks,
         Call(t) \/ Look(t) \/ Send(t) \/ Succeeds(t) \/ Fails(t) \/ Invalidate(t) \/ GiveUp(t)
  PROVE  Meaning'
<1>1. TypeOK /\ TypeOK' /\ Shape(t)
  BY DEF Wire
<1>2. CASE Call(t)
  <2>0. PICK does \in Policies : \E sqls \in [1..(IF does.sends = "batch" THEN 2 ELSE 1) -> Sqls] :
          LookUp(t, [NoCall EXCEPT !.does = does, !.sqls = sqls])
    BY <1>2 DEF Call, Policies
  <2>1. PICK sqls \in [1..(IF does.sends = "batch" THEN 2 ELSE 1) -> Sqls] :
          LookUp(t, [NoCall EXCEPT !.does = does, !.sqls = sqls])
    BY <2>0
  <2> DEFINE c == [NoCall EXCEPT !.does = does, !.sqls = sqls]
  <2>2. sqls \in Seq(Sqls) /\ Len(sqls) = IF does.sends = "batch" THEN 2 ELSE 1
    OBVIOUS
  <2>3. c.does = does /\ c.sqls = sqls /\ c.execs = <<>> /\ c \in Records
    <3>1. NoCall \in Records /\ NoCall.execs = <<>>
      BY DEF NoCall, Records
    <3> QED
      BY <2>2, <3>1 DEF Records
  <2>4. Len(c.execs) < Len(c.sqls)
    BY <2>2, <2>3
  <2>5. cache' = cache /\ prepared' = prepared /\ chan' = chan
    BY <1>2 DEF Call, serverVars
  <2>6. LookUp(t, c)
    BY <2>1
  <2> HIDE DEF c
  <2> QED
    BY <1>1, <2>2, <2>3, <2>4, <2>5, <2>6, MeaningOfLookUp
<1>3. CASE Look(t)
  <2>1. pc[t] = "look" /\ LookUp(t, call[t]) /\ call[t] \in Records /\ cache' = cache /\ prepared' = prepared /\ chan' = chan
    BY <1>1, <1>3 DEF Look, TypeOK, serverVars
  <2>2. /\ call[t].does \in Policies
        /\ Len(call[t].sqls) = IF call[t].does.sends = "batch" THEN 2 ELSE 1
        /\ Len(call[t].execs) < Len(call[t].sqls)
    BY <1>1, <2>1 DEF Shape
  <2> QED
    BY <1>1, <2>1, <2>2, MeaningOfLookUp
<1>4. /\ \A p \in prepared : Use(p.name, p.sql)
      /\ \A i \in 1..Len(chan) : chan[i].op = "exec" => Use(chan[i].x.name, chan[i].x.sql)
  BY <1>1, PreparedUse, SentUse
<1>0. ASSUME chan' = Forget(t, chan), NEW i \in 1..Len(chan'), chan'[i].op = "exec"
      PROVE  Use(chan'[i].x.name, chan'[i].x.sql)
  <2>1. i \in 1..Len(chan) /\ chan[i].op = "exec" /\ chan'[i].x = chan[i].x
    BY <1>1, <1>0, ForgetDoes
  <2> QED
    BY <1>4, <2>1
<1>5. CASE Send(t)
  <2>1. call' = call /\ cache' = cache /\ counter' = counter /\ prepared' = prepared
    BY <1>5 DEF Send, cacheVars, serverVars
  <2>2. \A s \in Cached' : Use(cache'[s], s)
    BY <2>1 DEF Cached, Use
  <2>3. ASSUME NEW i \in 1..Len(chan'), chan'[i].op = "exec" PROVE Use(chan'[i].x.name, chan'[i].x.sql)
    <3>1. /\ Len(chan) \in Nat /\ Len(chan') = Len(chan) + 1
          /\ \A k \in 1..Len(chan) : chan'[k] = chan[k]
          /\ chan'[Len(chan) + 1].op = "exec" =>
               \E j \in 1..Len(call[t].execs) : chan'[Len(chan) + 1].x = call[t].execs[j]
      BY <1>5, SendAppends
    <3>2. CASE i \in 1..Len(chan)
      BY <1>4, <2>3, <3>1, <3>2
    <3>3. CASE i \notin 1..Len(chan)
      <4>1. i = Len(chan) + 1
        BY <3>1, <3>3
      <4>2. PICK j \in 1..Len(call[t].execs) : chan'[i].x = call[t].execs[j]
        BY <2>3, <3>1, <4>1
      <4> QED
        BY <1>1, <4>2, ExecUse
    <3> QED
      BY <3>2, <3>3
  <2> QED
    BY <1>1, <1>4, <2>1, <2>2, <2>3, UseKept DEF Meaning
<1>6. CASE Fails(t)
  <2>1. call' = [call EXCEPT ![t] = NoCall] /\ cache' = cache /\ counter' = counter /\ prepared' = prepared
    BY <1>6 DEF Fails, Returns, serverVars
  <2>2. \A s \in Cached' : Use(cache'[s], s)
    BY <2>1 DEF Cached, Use
  <2>3. \A u \in Tasks : call'[u].execs = call[u].execs \/ call'[u].execs = <<>>
    BY <1>1, <2>1 DEF TypeOK, NoCall
  <2>4. chan' = Forget(t, chan)
    BY <1>6 DEF Fails
  <2> QED
    BY <1>0, <1>1, <1>4, <2>1, <2>2, <2>3, <2>4, UseKept DEF Meaning
<1>9. CASE GiveUp(t)
  <2>1. /\ call' = [call EXCEPT ![t] = NoCall] /\ cache' = cache /\ counter' = counter /\ prepared' = prepared
        /\ chan' = Forget(t, chan)
    BY <1>9, GiveUpDoes
  <2>2. \A s \in Cached' : Use(cache'[s], s)
    BY <2>1 DEF Cached, Use
  <2>3. \A u \in Tasks : call'[u].execs = call[u].execs \/ call'[u].execs = <<>>
    BY <1>1, <2>1 DEF TypeOK, NoCall
  <2> QED
    BY <1>0, <1>1, <1>4, <2>1, <2>2, <2>3, UseKept DEF Meaning
<1>7. CASE Invalidate(t)
  <2>1. /\ call' = [call EXCEPT ![t] = [call[t] EXCEPT !.execs = <<>>, !.again = TRUE]] /\ call'[t].execs = <<>>
        /\ cache' = [cache EXCEPT ![call[t].sqls[1]] = None] /\ chan' = Forget(t, chan)
    BY <1>7, InvalidateDoes
  <2>2. counter' = counter /\ prepared' = prepared
    BY <1>7 DEF Invalidate, serverVars
  <2>3. \A s \in Cached' : s \in Cached /\ cache'[s] = cache[s]
    BY <1>1, <2>1 DEF Cached, TypeOK
  <2>4. \A s \in Cached' : Use(cache'[s], s)
    BY <2>3 DEF Use
  <2>5. \A u \in Tasks : call'[u].execs = call[u].execs \/ call'[u].execs = <<>>
    BY <1>1, <2>1 DEF TypeOK
  <2> QED
    BY <1>0, <1>1, <1>4, <2>1, <2>2, <2>4, <2>5, UseKept DEF Meaning
<1>8. CASE Succeeds(t)
  <2> DEFINE i == call[t].done + 1
             x == call[t].execs[i]
  <2>1. i \in 1..Len(call[t].execs) /\ x \in Lookups /\ Publish(x) /\ (i = Len(call[t].execs) \/ i < Len(call[t].execs))
    BY <1>8, SucceedsIs
  <2>2. Use(x.name, x.sql)
    BY <1>1, <2>1, ExecUse
  <2>3. counter' = counter /\ prepared' = prepared
    BY <1>8 DEF Succeeds, Returns, serverVars
  <2>4. \A u \in Tasks : call'[u].execs = call[u].execs \/ call'[u].execs = <<>>
    <3>1. CASE i = Len(call[t].execs)
      <4>1. call' = [call EXCEPT ![t] = NoCall]
        BY <1>8, <3>1 DEF Succeeds, Returns
      <4> QED
        BY <1>1, <4>1 DEF TypeOK, NoCall
    <3>2. CASE i # Len(call[t].execs)
      <4>1. call' = [call EXCEPT ![t].done = i]
        BY <1>8, <3>2 DEF Succeeds
      <4>2. call[t] \in Records
        BY <1>1 DEF TypeOK
      <4> QED
        BY <1>1, <4>1, <4>2 DEF TypeOK, Records
    <3> QED
      BY <3>1, <3>2
  <2> HIDE DEF x
  <2>5. \A s \in Cached' : (s \in Cached /\ cache'[s] = cache[s]) \/ (s = x.sql /\ cache'[s] = x.name)
    <3>1. x.sql \in Sqls
      BY <2>1 DEF Lookups
    <3>2. \/ cache' = cache
          \/ cache' = [cache EXCEPT ![x.sql] = x.name]
          \/ \E o \in Cached : cache' = [cache EXCEPT ![o] = None, ![x.sql] = x.name]
      BY <1>1, <2>1, PublishDoes
    <3> QED
      BY <1>1, <3>1, <3>2 DEF Cached, TypeOK
  <2>6. \A s \in Cached' : Use(cache'[s], s)
    BY <2>2, <2>5 DEF Use
  <2>7. ASSUME NEW k \in 1..Len(chan'), chan'[k].op = "exec" PROVE Use(chan'[k].x.name, chan'[k].x.sql)
    <3>1. chan' = chan \/ \E o \in Cached : chan' = Append(chan, CloseOf(cache[o]))
      BY <1>1, <2>1, PublishDoes
    <3>2. CASE chan' = chan
      BY <1>4, <2>7, <3>2
    <3>3. CASE \E o \in Cached : chan' = Append(chan, CloseOf(cache[o]))
      <4>1. PICK o \in Cached : chan' = Append(chan, CloseOf(cache[o]))
        BY <3>3
      <4>2. chan \in Seq(Messages) /\ Len(chan) \in Nat
        BY <1>1 DEF TypeOK
      <4>3. /\ Len(chan') = Len(chan) + 1 /\ \A j \in 1..Len(chan) : chan'[j] = chan[j]
            /\ chan'[Len(chan) + 1] = CloseOf(cache[o])
        BY <4>1, <4>2
      <4>4. chan'[Len(chan) + 1].op # "exec"
        BY <4>3 DEF CloseOf
      <4>5. k \in 1..Len(chan)
        BY <2>7, <4>2, <4>3, <4>4
      <4> QED
        BY <1>4, <2>7, <4>3, <4>5
    <3> QED
      BY <3>1, <3>2, <3>3
  <2> QED
    BY <1>1, <1>4, <2>3, <2>4, <2>6, <2>7, UseKept DEF Meaning
<1> QED
  BY <1>2, <1>3, <1>5, <1>6, <1>7, <1>8, <1>9

LEMMA MeaningOfServer ==
  ASSUME Wire, Wire', Meaning, Setup \/ Commit \/ Close \/ Execute \/ Alter
  PROVE  Meaning'
<1>1. TypeOK /\ TypeOK'
  BY DEF Wire
<1>2. /\ \A p \in prepared : Use(p.name, p.sql)
      /\ \A i \in 1..Len(chan) : chan[i].op = "exec" => Use(chan[i].x.name, chan[i].x.sql)
  BY <1>1, PreparedUse, SentUse
<1>3. call' = call /\ cache' = cache /\ counter' = counter
  BY DEF Setup, Commit, Close, Execute, Takes, Alter, cacheVars, taskVars
<1>4. \A s \in Cached' : Use(cache'[s], s)
  BY <1>3 DEF Cached, Use
<1>9. ASSUME NEW i \in 1..Len(chan'), chan'[i].op = "exec" PROVE Use(chan'[i].x.name, chan'[i].x.sql)
  <2>1. CASE Alter
    BY <1>2, <1>9, <2>1 DEF Alter
  <2>2. ASSUME NEW op, Takes(op) PROVE Use(chan'[i].x.name, chan'[i].x.sql)
    <3>1. i + 1 \in 1..Len(chan) /\ chan'[i] = chan[i + 1]
      BY <1>1, <2>2, TakesDoes
    <3> QED
      BY <1>2, <1>9, <3>1
  <2> QED
    BY <2>1, <2>2 DEF Setup, Commit, Close, Execute
<1>5. CASE prepared' \subseteq prepared
  BY <1>1, <1>2, <1>3, <1>4, <1>5, <1>9, UseKept DEF Meaning
<1>6. CASE Setup \/ Commit \/ Close
  BY <1>5, <1>6 DEF Setup, Commit, Close
<1>7. CASE Execute
  <2> DEFINE x == chan[1].x
             q == [name |-> x.name, sql |-> x.sql, stale |-> FALSE]
  <2>1. /\ x \in Lookups /\ 1 \in 1..Len(chan) /\ chan[1].op = "exec"
        /\ \/ prepared' = prepared
           \/ Named(x.name) = {} /\ prepared' = prepared \cup {q}
    BY <1>1, <1>7, ExecuteDoes
  <2>2. Use(x.name, x.sql)
    BY <1>1, <2>1, SentUse
  <2>3. CASE Named(x.name) = {} /\ prepared' = prepared \cup {q}
    <3>1. q.name = x.name /\ q.sql = x.sql
      OBVIOUS
    <3> HIDE DEF x, q
    <3>2. \A p \in prepared' : Use(p.name, p.sql)
      BY <1>2, <2>2, <2>3, <3>1
    <3>3. \A p \in prepared : p.name # q.name
      BY <2>3, <3>1 DEF Named
    <3>4. \A p, r \in prepared' : p.name = r.name => p = r
      BY <2>3, <3>3 DEF Meaning
    <3> QED
      BY <1>1, <1>3, <1>4, <1>9, <3>2, <3>4, UseKept
  <2> QED
    BY <1>5, <2>1, <2>3
<1>8. CASE Alter
  <2>1. prepared' = {[p EXCEPT !.stale = TRUE] : p \in prepared} /\ prepared \subseteq [name : Nat, sql : Sqls, stale : BOOLEAN]
    BY <1>1, <1>8 DEF Alter, TypeOK
  <2>2. \A p \in prepared : [p EXCEPT !.stale = TRUE].name = p.name /\ [p EXCEPT !.stale = TRUE].sql = p.sql
    BY <2>1
  <2>3. \A p \in prepared' : Use(p.name, p.sql)
    BY <1>2, <2>1, <2>2
  <2>4. ASSUME NEW p \in prepared', NEW q \in prepared', p.name = q.name
        PROVE  p = q
    <3>1. PICK a \in prepared : p = [a EXCEPT !.stale = TRUE]
      BY <2>1
    <3>2. PICK b \in prepared : q = [b EXCEPT !.stale = TRUE]
      BY <2>1
    <3>3. a = b
      BY <2>2, <2>4, <3>1, <3>2 DEF Meaning
    <3> QED
      BY <3>1, <3>2, <3>3
  <2> QED
    BY <1>1, <1>3, <1>4, <1>9, <2>3, <2>4, UseKept
<1> QED
  BY <1>6, <1>7, <1>8

LEMMA MeaningStep ==
  ASSUME Wire, Wire', Meaning, [Next]_vars
  PROVE  Meaning'
<1>1. CASE UNCHANGED vars
  <2>1. call' = call /\ cache' = cache /\ counter' = counter /\ prepared' = prepared /\ chan' = chan
    BY <1>1 DEF vars, cacheVars, taskVars, serverVars
  <2>2. TypeOK /\ TypeOK'
    BY DEF Wire
  <2>3. /\ \A p \in prepared' : Use(p.name, p.sql)
        /\ \A i \in 1..Len(chan') : chan'[i].op = "exec" => Use(chan'[i].x.name, chan'[i].x.sql)
    BY <2>1, <2>2, PreparedUse, SentUse
  <2>4. \A s \in Cached' : Use(cache'[s], s)
    BY <2>1 DEF Cached, Use
  <2> QED
    BY <2>1, <2>2, <2>3, <2>4, UseKept DEF Meaning
<1> QED
  BY <1>1, MeaningOfTask, MeaningOfServer DEF Next

LEMMA MeaningInit ==
  ASSUME Init
  PROVE  Meaning
<1>1. \A n, s : ~Use(n, s)
  <2>1. Len(<<>>) = 0
    OBVIOUS
  <2>2. prepared = {} /\ Cached = {} /\ Len(chan) = 0 /\ \A t \in Tasks : Len(call[t].execs) = 0
    BY <2>1 DEF Init, Cached, NoCall
  <2> QED
    BY <2>2 DEF Use
<1> QED
  BY <1>1 DEF Meaning, Init
-----------------------------------------------------------------------------
(* Entries of the cache.                                                   *)

\* A statement that was parsed for an attempt that has yet to publish it.
Parsed(t, j) ==
  /\ pc[t] \in {"send", "wait"} /\ call[t].done < j /\ j <= Len(call[t].execs)
  /\ call[t].execs[j].parse /\ Response(call[t], got[t], j) = "ok"
Known(n) == \E p \in prepared : p.name = n
Closing(n) == \E i \in 1..Len(chan) : chan[i].op = "close" /\ chan[i].name = n

\* What is cached, or about to be, is prepared and nobody closes it; the same statement is
\* not published twice, and a name is closed once.
Held ==
  /\ \A s \in Cached : cache[s] \notin unsure => Known(cache[s]) /\ ~Closing(cache[s])
  /\ \A t \in Tasks, j \in 1..2 : Parsed(t, j) /\ call[t].execs[j].name \notin unsure =>
       /\ Known(call[t].execs[j].name) /\ ~Closing(call[t].execs[j].name)
       /\ \A s \in Cached : cache[s] # call[t].execs[j].name
  /\ \A t, u \in Tasks, j, k \in 1..2 :
       Parsed(t, j) /\ Parsed(u, k) /\ call[t].execs[j].name = call[u].execs[k].name /\ call[t].execs[j].name \notin unsure
         => t = u /\ j = k
  /\ \A i \in 1..Len(chan) : chan[i].op = "close" /\ chan[i].name \notin unsure => Known(chan[i].name)
  /\ \A i, j \in 1..Len(chan) :
       chan[i].op = "close" /\ chan[j].op = "close" /\ chan[i].name = chan[j].name /\ chan[i].name \notin unsure => i = j

\* Nothing is published, and what is parsed had a name that the server did not know.
LEMMA HeldKept ==
  ASSUME TypeOK, TypeOK', Held, unsure' = unsure, NEW h \in {0, 1},
         \A s \in Cached' : s \in Cached /\ cache'[s] = cache[s],
         \A t \in Tasks, j \in 1..2 : Parsed(t, j)' =>
           /\ call'[t].execs[j] = call[t].execs[j]
           /\ Parsed(t, j) \/ \A n : call[t].execs[j].name = n => ~Known(n) /\ Known(n)',
         \A t, u \in Tasks, j, k \in 1..2 :
           Parsed(t, j)' /\ Parsed(u, k)' /\ ~Parsed(t, j) /\ ~Parsed(u, k) => t = u /\ j = k,
         \A n : Known(n) /\ ~Closing(n) => Known(n)',
         \A i \in 1..Len(chan') : chan'[i].op = "close" => i + h \in 1..Len(chan) /\ chan'[i] = chan[i + h],
         \A n : \A i \in 1..Len(chan') : chan'[i].op = "close" /\ chan'[i].name = n /\ n \notin unsure /\ Known(n) => Known(n)'
  PROVE  Held'
<1>1. \A n : Closing(n)' => Closing(n)
  BY DEF Closing
<1>2. ASSUME NEW s \in Cached', cache'[s] \notin unsure, NEW n, n = cache'[s]
      PROVE  Known(n)' /\ ~Closing(n)'
  BY <1>1, <1>2 DEF Held
<1>3. ASSUME NEW t \in Tasks, NEW j \in 1..2, Parsed(t, j)', NEW n, n = call'[t].execs[j].name, n \notin unsure
      PROVE  /\ Known(n)' /\ ~Closing(n)'
             /\ \A s \in Cached' : cache'[s] # n
  <2>1. n = call[t].execs[j].name
    BY <1>3
  <2>2. CASE Parsed(t, j)
    BY <1>1, <1>3, <2>1, <2>2 DEF Held
  <2>3. CASE ~Parsed(t, j)
    <3>1. ~Known(n) /\ Known(n)'
      BY <1>3, <2>1, <2>3
    <3>2. \A i \in 1..Len(chan) : chan[i].op = "close" => chan[i].name # n
      BY <1>3, <3>1 DEF Held
    <3>3. \A s \in Cached : cache[s] # n
      BY <1>3, <3>1 DEF Held
    <3> QED
      BY <1>1, <3>1, <3>2, <3>3 DEF Closing
  <2> QED
    BY <2>2, <2>3
<1>4. ASSUME NEW t \in Tasks, NEW u \in Tasks, NEW j \in 1..2, NEW k \in 1..2, Parsed(t, j)', Parsed(u, k)',
             call'[t].execs[j].name = call'[u].execs[k].name, call'[t].execs[j].name \notin unsure
      PROVE  t = u /\ j = k
  <2>1. call[t].execs[j].name = call[u].execs[k].name /\ call[t].execs[j].name \notin unsure
    BY <1>4
  <2>2. CASE Parsed(t, j) /\ Parsed(u, k)
    BY <2>1, <2>2 DEF Held
  <2>3. CASE Parsed(t, j) /\ ~Parsed(u, k)
    <3>1. ~Known(call[u].execs[k].name)
      BY <1>4, <2>3
    <3> QED
      BY <2>1, <2>3, <3>1 DEF Held
  <2>4. CASE ~Parsed(t, j) /\ Parsed(u, k)
    <3>1. ~Known(call[t].execs[j].name)
      BY <1>4, <2>4
    <3> QED
      BY <2>1, <2>4, <3>1 DEF Held
  <2>5. CASE ~Parsed(t, j) /\ ~Parsed(u, k)
    BY <1>4, <2>5
  <2> QED
    BY <2>2, <2>3, <2>4, <2>5
<1>5. ASSUME NEW i \in 1..Len(chan'), chan'[i].op = "close", NEW n, n = chan'[i].name, n \notin unsure
      PROVE  Known(n)'
  BY <1>5 DEF Held
<1>6. ASSUME NEW i \in 1..Len(chan'), NEW j \in 1..Len(chan'), chan'[i].op = "close", chan'[j].op = "close",
             chan'[i].name = chan'[j].name, chan'[i].name \notin unsure
      PROVE  i = j
  <2>1. /\ i + h \in 1..Len(chan) /\ chan'[i] = chan[i + h]
        /\ j + h \in 1..Len(chan) /\ chan'[j] = chan[j + h]
    BY <1>6
  <2>2. i + h = j + h
    BY <1>6, <2>1 DEF Held
  <2> QED
    BY <2>2
<1> QED
  BY <1>2, <1>3, <1>4, <1>5, <1>6 DEF Held

\* A statement is published, and may evict another.
LEMMA HeldOfPublish ==
  ASSUME TypeOK, TypeOK', Meaning, Held, NEW x \in Lookups, Use(x.name, x.sql), prepared' = prepared,
         NEW t \in Tasks, NEW i \in 1..2,
         unsure' = unsure \cup {x.name} \/ (unsure' = unsure /\ Parsed(t, i) /\ x = call[t].execs[i]),
         \A u \in Tasks, j \in 1..2 : Parsed(u, j)' =>
           Parsed(u, j) /\ call'[u].execs[j] = call[u].execs[j] /\ ~(u = t /\ j = i),
         \A s \in Cached' : (s = x.sql /\ cache'[s] = x.name) \/ (s \in Cached /\ cache'[s] = cache[s]),
         \A j \in 1..Len(chan') : chan'[j].op = "close" =>
           \/ j \in 1..Len(chan) /\ chan'[j] = chan[j]
           \/ j = Len(chan) + 1 /\ \E o \in Cached \ Cached' : chan'[j].name = cache[o]
  PROVE  Held'
<1>1. \A n : Known(n)' <=> Known(n)
  BY DEF Known
<1>2. \A n : Closing(n)' => Closing(n) \/ \E o \in Cached \ Cached' : n = cache[o]
  BY DEF Closing
<1>3. unsure \subseteq unsure'
  OBVIOUS
<1>4. \A s \in Cached', o \in Cached \ Cached' : cache'[s] # cache[o]
  <2> SUFFICES ASSUME NEW s \in Cached', NEW o \in Cached \ Cached', cache'[s] = cache[o]
               PROVE  FALSE
    OBVIOUS
  <2>1. s \in Sqls /\ o \in Sqls /\ cache[o] \in Nat
    BY DEF Cached, TypeOK
  <2>2. Use(cache[o], o)
    BY DEF Use
  <2>3. Use(cache[o], s)
    <3>1. CASE s = x.sql /\ cache'[s] = x.name
      BY <3>1
    <3>2. CASE s \in Cached /\ cache'[s] = cache[s]
      BY <3>2 DEF Use
    <3> QED
      BY <3>1, <3>2
  <2>4. s = o
    BY <2>1, <2>2, <2>3 DEF Meaning
  <2> QED
    BY <2>4
<1>5. ASSUME NEW s \in Cached', NEW n, n = cache'[s], n \notin unsure'
      PROVE  Known(n)' /\ ~Closing(n)'
  <2>1. ~ \E o \in Cached \ Cached' : n = cache[o]
    BY <1>4, <1>5
  <2>2. Known(n) /\ ~Closing(n)
    <3>1. CASE s = x.sql /\ cache'[s] = x.name
      <4>1. unsure' = unsure /\ Parsed(t, i) /\ n = call[t].execs[i].name
        BY <1>5, <3>1
      <4> QED
        BY <1>5, <4>1 DEF Held
    <3>2. CASE s \in Cached /\ cache'[s] = cache[s]
      BY <1>3, <1>5, <3>2 DEF Held
    <3> QED
      BY <3>1, <3>2
  <2> QED
    BY <1>1, <1>2, <2>1, <2>2
<1>6. ASSUME NEW u \in Tasks, NEW j \in 1..2, Parsed(u, j)', NEW n, n = call'[u].execs[j].name, n \notin unsure'
      PROVE  /\ Known(n)' /\ ~Closing(n)'
             /\ \A s \in Cached' : cache'[s] # n
  <2>1. Parsed(u, j) /\ n = call[u].execs[j].name /\ ~(u = t /\ j = i) /\ n \notin unsure
    BY <1>3, <1>6
  <2>2. Known(n) /\ ~Closing(n) /\ \A s \in Cached : cache[s] # n
    BY <2>1 DEF Held
  <2>3. Known(n)' /\ ~Closing(n)'
    BY <1>1, <1>2, <2>2
  <2>4. x.name # n
    <3> SUFFICES ASSUME x.name = n PROVE FALSE
      OBVIOUS
    <3>1. unsure' = unsure /\ Parsed(t, i) /\ call[t].execs[i].name = n
      BY <1>6
    <3> QED
      BY <2>1, <3>1 DEF Held
  <2> QED
    BY <2>2, <2>3, <2>4
<1>7. ASSUME NEW u \in Tasks, NEW v \in Tasks, NEW j \in 1..2, NEW k \in 1..2, Parsed(u, j)', Parsed(v, k)',
             call'[u].execs[j].name = call'[v].execs[k].name, call'[u].execs[j].name \notin unsure'
      PROVE  u = v /\ j = k
  <2>1. /\ Parsed(u, j) /\ Parsed(v, k) /\ call[u].execs[j].name = call[v].execs[k].name
        /\ call[u].execs[j].name \notin unsure
    BY <1>3, <1>7
  <2> QED
    BY <2>1 DEF Held
<1>8. ASSUME NEW j \in 1..Len(chan'), chan'[j].op = "close", NEW n, n = chan'[j].name, n \notin unsure'
      PROVE  Known(n)'
  <2>1. n \notin unsure
    BY <1>3, <1>8
  <2>2. CASE j \in 1..Len(chan) /\ chan'[j] = chan[j]
    BY <1>1, <1>8, <2>1, <2>2 DEF Held
  <2>3. CASE \E o \in Cached \ Cached' : chan'[j].name = cache[o]
    BY <1>1, <1>8, <2>1, <2>3 DEF Held
  <2> QED
    BY <1>8, <2>2, <2>3
<1>9. ASSUME NEW j \in 1..Len(chan'), NEW k \in 1..Len(chan'), chan'[j].op = "close", chan'[k].op = "close",
             chan'[j].name = chan'[k].name, chan'[j].name \notin unsure', j # k
      PROVE  FALSE
  <2>1. chan'[j].name \notin unsure /\ chan'[k].name \notin unsure
    BY <1>3, <1>9
  <2>2. \A a \in 1..Len(chan), o \in Cached : chan[a].op = "close" /\ chan[a].name \notin unsure => chan[a].name # cache[o]
    BY DEF Held, Closing
  <2>3. CASE j \in 1..Len(chan) /\ chan'[j] = chan[j] /\ k \in 1..Len(chan) /\ chan'[k] = chan[k]
    BY <1>9, <2>1, <2>3 DEF Held
  <2>4. CASE j \in 1..Len(chan) /\ chan'[j] = chan[j] /\ \E o \in Cached \ Cached' : chan'[k].name = cache[o]
    <3>1. PICK o \in Cached : chan'[k].name = cache[o]
      BY <2>4
    <3>2. j \in 1..Len(chan) /\ chan'[j] = chan[j]
      BY <2>4
    <3>3. chan'[j].name = cache[o]
      BY <1>9, <3>1
    <3>4. chan[j].op = "close" /\ chan[j].name \notin unsure /\ chan[j].name = cache[o]
      BY <1>9, <2>1, <3>2, <3>3
    <3> QED
      BY <2>2, <3>2, <3>4
  <2>5. CASE k \in 1..Len(chan) /\ chan'[k] = chan[k] /\ \E o \in Cached \ Cached' : chan'[j].name = cache[o]
    <3>1. PICK o \in Cached : chan'[j].name = cache[o]
      BY <2>5
    <3>2. k \in 1..Len(chan) /\ chan'[k] = chan[k]
      BY <2>5
    <3>3. chan'[k].name = cache[o]
      BY <1>9, <3>1
    <3>4. chan[k].op = "close" /\ chan[k].name \notin unsure /\ chan[k].name = cache[o]
      BY <1>9, <2>1, <3>2, <3>3
    <3> QED
      BY <2>2, <3>2, <3>4
  <2> QED
    BY <1>9, <2>3, <2>4, <2>5
<1> QED
  BY <1>5, <1>6, <1>7, <1>8, <1>9 DEF Held

\* Nothing is answered when an attempt begins to send.
\* The response to a statement is one of the attempt's.
LEMMA ResponseIs ==
  ASSUME NEW c, NEW g, Len(c.sqls) = (IF c.does.sends = "batch" THEN 2 ELSE 1), Len(c.execs) = Len(c.sqls),
         NEW j \in 1..2, j <= Len(c.execs)
  PROVE  /\ Response(c, g, j) = g[IF c.does.sends = "tx" THEN j + 1 ELSE j]
         /\ (IF c.does.sends = "tx" THEN j + 1 ELSE j) \in 1..Size(c)
         /\ c.does.sends = "tx" => j = 1
<1>1. CASE c.does.sends = "tx"
  BY <1>1 DEF Response, Size
<1>2. CASE c.does.sends # "tx"
  BY <1>2 DEF Response, Size
<1> QED
  BY <1>1, <1>2

\* A call that has just looked up, or is about to, has parsed nothing.
LEMMA NotParsed ==
  ASSUME TypeOK', NEW t \in Tasks, Shape(t)', NEW j \in 1..2,
         pc'[t] = "send" => \A k \in 1..Size(call'[t]) : got'[t][k] = None, pc'[t] # "wait"
  PROVE  ~Parsed(t, j)'
<1> SUFFICES ASSUME Parsed(t, j)' PROVE FALSE
  OBVIOUS
<1>1. pc'[t] = "send" /\ pc'[t] # "idle" /\ j <= Len(call'[t].execs) /\ Response(call'[t], got'[t], j) = "ok"
  BY DEF Parsed
<1>2. /\ Len(call'[t].sqls) = (IF call'[t].does.sends = "batch" THEN 2 ELSE 1)
      /\ Len(call'[t].execs) = Len(call'[t].sqls)
  BY <1>1 DEF Shape
<1>3. PICK c, g : c = call'[t] /\ g = got'[t]
  OBVIOUS
<1>4. /\ Response(c, g, j) = g[IF c.does.sends = "tx" THEN j + 1 ELSE j]
      /\ (IF c.does.sends = "tx" THEN j + 1 ELSE j) \in 1..Size(c)
  BY <1>1, <1>2, <1>3, ResponseIs
<1>5. Response(c, g, j) = None /\ Response(c, g, j) = "ok"
  BY <1>1, <1>3, <1>4
<1> QED
  BY <1>5, Constants DEF Results

LEMMA HeldOfTask ==
  ASSUME Wire, Wire', Held, NEW t \in Tasks,
         Call(t) \/ Look(t) \/ Send(t) \/ Fails(t) \/ Invalidate(t) \/ GiveUp(t)
  PROVE  Held'
<1>1. TypeOK /\ TypeOK' /\ Shape(t)'
  BY DEF Wire
<1>2. SUFFICES /\ unsure' = unsure /\ prepared' = prepared
               /\ \A s \in Cached' : s \in Cached /\ cache'[s] = cache[s]
               /\ \A u \in Tasks, j \in 1..2 : Parsed(u, j)' => Parsed(u, j) /\ call'[u].execs[j] = call[u].execs[j]
               /\ \A i \in 1..Len(chan') : chan'[i].op = "close" => i \in 1..Len(chan) /\ chan'[i] = chan[i]
  <2>1. \A n : Known(n)' <=> Known(n)
    BY <1>2 DEF Known
  <2>2. \A i \in 1..Len(chan') : i + 0 = i
    OBVIOUS
  <2>3. \A i \in 1..Len(chan') : chan'[i].op = "close" => i + 0 \in 1..Len(chan) /\ chan'[i] = chan[i + 0]
    BY <1>2, <2>2
  <2> HIDE DEF Parsed, Known
  <2> QED
    BY <1>1, <1>2, <2>1, <2>3, HeldKept
<1>3. ASSUME pc'[t] = "send" => \A k \in 1..Size(call'[t]) : got'[t][k] = None, pc'[t] # "wait",
             \A u \in Tasks \ {t} : call'[u] = call[u] /\ pc'[u] = pc[u] /\ got'[u] = got[u],
             NEW u \in Tasks, NEW j \in 1..2, Parsed(u, j)'
      PROVE  Parsed(u, j) /\ call'[u].execs[j] = call[u].execs[j]
  <2>1. u # t
    BY <1>1, <1>3, NotParsed
  <2> QED
    BY <1>3, <2>1 DEF Parsed
<1>4. CASE Call(t) \/ Look(t)
  <2>1. /\ pc'[t] \in {"look", "send"}
        /\ pc'[t] = "send" => \A k \in 1..Size(call'[t]) : got'[t][k] = None
        /\ \A u \in Tasks \ {t} : call'[u] = call[u] /\ pc'[u] = pc[u] /\ got'[u] = got[u]
        /\ UNCHANGED <<cache, chan, prepared, unsure>>
    BY <1>4, AskDoes
  <2>2. \A u \in Tasks, j \in 1..2 : Parsed(u, j)' => Parsed(u, j) /\ call'[u].execs[j] = call[u].execs[j]
    BY <1>3, <2>1
  <2> QED
    BY <2>1, <2>2 DEF Cached
<1>5. CASE Send(t)
  <2>1. /\ pc[t] = "send" /\ call' = call /\ got' = got /\ UNCHANGED <<cache, prepared, unsure>>
        /\ pc' = [pc EXCEPT ![t] = IF Len(out[t]) = 1 THEN "wait" ELSE "send"]
    BY <1>5 DEF Send, cacheVars, serverVars
  <2>2. \A u \in Tasks : pc'[u] \in {"send", "wait"} => pc[u] \in {"send", "wait"}
    BY <1>1, <2>1 DEF TypeOK
  <2>3. \A u \in Tasks, j \in 1..2 : Parsed(u, j)' => Parsed(u, j) /\ call'[u].execs[j] = call[u].execs[j]
    BY <2>1, <2>2 DEF Parsed
  <2>4. ASSUME NEW i \in 1..Len(chan'), chan'[i].op = "close"
        PROVE  i \in 1..Len(chan) /\ chan'[i] = chan[i]
    <3>1. /\ Len(chan) \in Nat /\ Len(chan') = Len(chan) + 1 /\ \A k \in 1..Len(chan) : chan'[k] = chan[k]
          /\ chan'[Len(chan) + 1].op # "close"
      BY <1>5, SendAppends
    <3>2. i = Len(chan) + 1 \/ i \in 1..Len(chan)
      BY <3>1
    <3> QED
      BY <2>4, <3>1, <3>2
  <2> QED
    BY <2>1, <2>3, <2>4 DEF Cached
<1>6. CASE Fails(t)
  <2>1. Returns(t) /\ chan' = Forget(t, chan) /\ cache' = cache /\ unsure' = unsure
    BY <1>6 DEF Fails
  <2>2. pc'[t] = "idle" /\ \A u \in Tasks \ {t} : call'[u] = call[u] /\ pc'[u] = pc[u] /\ got'[u] = got[u]
    BY <1>1, <2>1 DEF Returns, TypeOK
  <2>3. prepared' = prepared
    BY <2>1 DEF Returns, serverVars
  <2>4. \A u \in Tasks, j \in 1..2 : Parsed(u, j)' => Parsed(u, j) /\ call'[u].execs[j] = call[u].execs[j]
    BY <1>3, <2>2
  <2>5. \A i \in 1..Len(chan') : chan'[i].op = "close" => i \in 1..Len(chan) /\ chan'[i] = chan[i]
    BY <1>1, <2>1, ForgetDoes
  <2> QED
    BY <2>1, <2>3, <2>4, <2>5 DEF Cached
<1>7. CASE Invalidate(t)
  <2>1. /\ cache' = [cache EXCEPT ![call[t].sqls[1]] = None] /\ chan' = Forget(t, chan)
        /\ pc' = [pc EXCEPT ![t] = "look"] /\ got' = [got EXCEPT ![t] = <<>>]
        /\ call' = [call EXCEPT ![t] = [call[t] EXCEPT !.execs = <<>>, !.again = TRUE]]
    BY <1>7, InvalidateDoes
  <2>2. pc'[t] = "look" /\ \A u \in Tasks \ {t} : call'[u] = call[u] /\ pc'[u] = pc[u] /\ got'[u] = got[u]
    BY <1>1, <2>1 DEF TypeOK
  <2>3. prepared' = prepared /\ unsure' = unsure
    BY <1>7 DEF Invalidate, serverVars
  <2>4. \A u \in Tasks, j \in 1..2 : Parsed(u, j)' => Parsed(u, j) /\ call'[u].execs[j] = call[u].execs[j]
    BY <1>3, <2>2
  <2>5. \A i \in 1..Len(chan') : chan'[i].op = "close" => i \in 1..Len(chan) /\ chan'[i] = chan[i]
    BY <1>1, <2>1, ForgetDoes
  <2>6. \A s \in Cached' : s \in Cached /\ cache'[s] = cache[s]
    BY <1>1, <2>1 DEF Cached, TypeOK
  <2> QED
    BY <2>3, <2>4, <2>5, <2>6
<1>8. CASE GiveUp(t)
  <2>1. /\ pc'[t] = "idle" /\ \A u \in Tasks \ {t} : call'[u] = call[u] /\ pc'[u] = pc[u] /\ got'[u] = got[u]
        /\ chan' = Forget(t, chan) /\ UNCHANGED <<cache, prepared, unsure>>
    BY <1>8, GiveUpDoes
  <2>2. \A u \in Tasks, j \in 1..2 : Parsed(u, j)' => Parsed(u, j) /\ call'[u].execs[j] = call[u].execs[j]
    BY <1>3, <2>1
  <2>3. \A i \in 1..Len(chan') : chan'[i].op = "close" => i \in 1..Len(chan) /\ chan'[i] = chan[i]
    BY <1>1, <2>1, ForgetDoes
  <2> QED
    BY <2>1, <2>2, <2>3 DEF Cached
<1> QED
  BY <1>4, <1>5, <1>6, <1>7, <1>8

\* What was parsed is published, or the names are unsure.
LEMMA HeldOfSucceeds ==
  ASSUME Wire, Wire', Meaning, Held, NEW t \in Tasks, Succeeds(t)
  PROVE  Held'
<1> DEFINE i == call[t].done + 1
           x == call[t].execs[i]
<1>1. /\ TypeOK /\ Shape(t) /\ pc[t] = "wait"
      /\ i \in 1..Len(call[t].execs) /\ x \in Lookups /\ Publish(x)
      /\ \A k \in 1..Size(call[t]) : got[t][k] # None
      /\ call[t].does.sends # "batch" => Response(call[t], got[t], i) = "ok" /\ i = 1
      /\ i = Len(call[t].execs) \/ i < Len(call[t].execs)
  BY SucceedsIs
<1>2. Len(call[t].execs) \in 1..2 /\ call[t].done \in Nat /\ i \in 1..2 /\ call[t].execs \in Seq(Lookups)
  BY <1>1, Sizes
<1>3. TypeOK'
  BY DEF Wire
<1>4. prepared' = prepared
  BY DEF Succeeds, Returns, serverVars
<1>5. unsure' = IF cache' # cache /\ call[t].does.sends = "batch" /\ got[t][i] # "ok" THEN unsure \cup {x.name} ELSE unsure
  BY DEF Succeeds
<1>6. \A u \in Tasks, j \in 1..2 : Parsed(u, j)' =>
        Parsed(u, j) /\ call'[u].execs[j] = call[u].execs[j] /\ ~(u = t /\ j = i)
  <2>1. CASE i = Len(call[t].execs)
    <3>1. Returns(t)
      BY <2>1 DEF Succeeds
    <3>2. pc'[t] = "idle" /\ \A u \in Tasks \ {t} : call'[u] = call[u] /\ pc'[u] = pc[u] /\ got'[u] = got[u]
      BY <1>1, <3>1 DEF Returns, TypeOK
    <3> QED
      BY <3>2 DEF Parsed
  <2>2. CASE i < Len(call[t].execs)
    <3>1. call' = [call EXCEPT ![t].done = i] /\ pc' = pc /\ got' = got
      BY <2>2 DEF Succeeds
    <3>2. call[t] \in Records
      BY <1>1 DEF TypeOK
    <3>3. /\ [call[t] EXCEPT !.done = i].does = call[t].does /\ [call[t] EXCEPT !.done = i].execs = call[t].execs
          /\ [call[t] EXCEPT !.done = i].done = i
      BY <3>2 DEF Records
    <3>4. call'[t] = [call[t] EXCEPT !.done = i] /\ \A u \in Tasks \ {t} : call'[u] = call[u]
      BY <1>1, <3>1 DEF TypeOK
    <3>5. call'[t].does = call[t].does /\ call'[t].execs = call[t].execs /\ call'[t].done = i
      BY <3>3, <3>4
    <3>6. ASSUME NEW u \in Tasks, NEW j \in 1..2, Parsed(u, j)'
          PROVE  Parsed(u, j) /\ call'[u].execs[j] = call[u].execs[j] /\ ~(u = t /\ j = i)
      <4>1. CASE u # t
        BY <3>1, <3>4, <3>6, <4>1 DEF Parsed
      <4>2. CASE u = t
        <5>1. /\ pc[t] \in {"send", "wait"} /\ i < j /\ j <= Len(call[t].execs) /\ call[t].execs[j].parse
              /\ Response(call'[t], got'[t], j) = "ok"
          BY <3>1, <3>5, <3>6, <4>2 DEF Parsed
        <5>2. Response(call'[t], got'[t], j) = Response(call[t], got[t], j)
          BY <3>1, <3>5 DEF Response
        <5>3. call[t].done < j /\ j # i
          BY <1>2, <5>1
        <5> QED
          BY <3>5, <4>2, <5>1, <5>2, <5>3 DEF Parsed
      <4> QED
        BY <4>1, <4>2
    <3> QED
      BY <3>6
  <2> QED
    BY <1>1, <2>1, <2>2
<1>7. Use(x.name, x.sql)
  BY <1>1, ExecUse
<1>8. x.parse /\ got[t][i] = "ok" /\ call[t].does.sends = "batch" => Parsed(t, i)
  BY <1>1, <1>2 DEF Parsed, Response
<1>9. x.parse /\ call[t].does.sends # "batch" => Parsed(t, i)
  BY <1>1, <1>2 DEF Parsed
<1>10. \/ cache' = cache /\ chan' = chan
       \/ /\ x.parse /\ x.sql \notin Cached /\ cache' = [cache EXCEPT ![x.sql] = x.name] /\ chan' = chan
       \/ /\ x.parse /\ x.sql \notin Cached
          /\ \E o \in Cached : /\ cache' = [cache EXCEPT ![o] = None, ![x.sql] = x.name]
                               /\ chan' = chan \/ chan' = Append(chan, CloseOf(cache[o]))
  BY <1>1, PublishDoes
<1>11. x.name \in Nat /\ x.sql \in Sqls /\ cache \in [Sqls -> Nat \cup {None}] /\ chan \in Seq(Messages)
  BY <1>1 DEF TypeOK, Lookups
<1>12. PICK y \in Lookups : y = x
  BY <1>1
<1> HIDE DEF x, i
<1>13. CASE cache' = cache /\ chan' = chan
  <2>1. unsure' = unsure
    BY <1>5, <1>13
  <2>2. \A j \in 1..Len(chan') : j + 0 \in 1..Len(chan) /\ chan'[j] = chan[j + 0]
    <3>1. \A j \in 1..Len(chan') : j + 0 = j
      OBVIOUS
    <3> QED
      BY <1>13, <3>1
  <2>3. \A s \in Cached' : s \in Cached /\ cache'[s] = cache[s]
    BY <1>13 DEF Cached
  <2>4. \A n : Known(n)' <=> Known(n)
    BY <1>4 DEF Known
  <2> QED
    BY <1>1, <1>3, <1>6, <2>1, <2>2, <2>3, <2>4, HeldKept
<1>14. CASE cache' # cache \/ chan' # chan
  <2>1. x.parse /\ x.sql \notin Cached
    BY <1>10, <1>14
  <2>2. cache'[x.sql] = x.name
    BY <1>10, <1>11, <1>14
  <2>3. cache' # cache
    BY <1>11, <2>1, <2>2, Constants DEF Cached
  <2>4. unsure' = unsure \cup {y.name} \/ (unsure' = unsure /\ Parsed(t, i) /\ y = call[t].execs[i])
    BY <1>5, <1>8, <1>9, <1>12, <2>1, <2>3 DEF x
  <2>5. \A s \in Cached' : (s = y.sql /\ cache'[s] = y.name) \/ (s \in Cached /\ cache'[s] = cache[s])
    BY <1>10, <1>11, <1>12, <1>14 DEF Cached
  <2>6. \A j \in 1..Len(chan') : chan'[j].op = "close" =>
          \/ j \in 1..Len(chan) /\ chan'[j] = chan[j]
          \/ j = Len(chan) + 1 /\ \E o \in Cached \ Cached' : chan'[j].name = cache[o]
    <3>1. CASE chan' = chan
      BY <3>1
    <3>2. CASE chan' # chan
      <4>1. PICK o \in Cached : /\ cache' = [cache EXCEPT ![o] = None, ![x.sql] = x.name]
                                /\ chan' = Append(chan, CloseOf(cache[o]))
        BY <1>10, <3>2
      <4>2. o \in Cached \ Cached'
        BY <1>11, <2>1, <4>1 DEF Cached
      <4>3. chan'[Len(chan) + 1].name = cache[o]
        <5>1. chan'[Len(chan) + 1] = CloseOf(cache[o])
          BY <1>11, <4>1
        <5> QED
          BY <5>1 DEF CloseOf
      <4>4. \A j \in 1..Len(chan') : (j \in 1..Len(chan) /\ chan'[j] = chan[j]) \/ j = Len(chan) + 1
        BY <1>11, <4>1
      <4> QED
        BY <4>2, <4>3, <4>4
    <3> QED
      BY <3>1, <3>2
  <2>7. Use(y.name, y.sql)
    BY <1>7, <1>12
  <2> QED
    BY <1>1, <1>2, <1>3, <1>4, <1>6, <2>4, <2>5, <2>6, <2>7, HeldOfPublish
<1> QED
  BY <1>13, <1>14
\* A response is new only for the statement of the request.
LEMMA NewResponse ==
  ASSUME Wire, NEW op, Takes(op), NEW res, got' = got \/ Answers(res),
         NEW u \in Tasks, NEW j \in 1..2, pc[u] \in {"send", "wait"}, j <= Len(call[u].execs),
         Response(call[u], got'[u], j) # Response(call[u], got[u], j)
  PROVE  /\ op = "exec" /\ Response(call[u], got'[u], j) = res
         /\ Awaited(1) /\ chan[1].t = u /\ chan[1].x = call[u].execs[j]
         /\ chan[1].i = (IF call[u].does.sends = "tx" THEN j + 1 ELSE j)
<1>1. TypeOK /\ Matched /\ Shape(u)
  BY DEF Wire
<1>2. 1 \in 1..Len(chan) /\ chan[1].op = op
  BY <1>1, TakesDoes
<1>3. /\ Len(call[u].sqls) = (IF call[u].does.sends = "batch" THEN 2 ELSE 1)
      /\ Len(call[u].execs) = Len(call[u].sqls)
  BY <1>1 DEF Shape
<1> DEFINE k == IF call[u].does.sends = "tx" THEN j + 1 ELSE j
<1>4. PICK c : c = call[u]
  OBVIOUS
<1>5. \A g : Response(c, g, j) = g[IF c.does.sends = "tx" THEN j + 1 ELSE j]
  BY <1>3, <1>4, ResponseIs
<1>6. k \in 1..Size(call[u]) /\ (call[u].does.sends = "tx" => j = 1)
  <2>1. \A g : (IF c.does.sends = "tx" THEN j + 1 ELSE j) \in 1..Size(c) /\ (c.does.sends = "tx" => j = 1)
    BY <1>3, <1>4, ResponseIs
  <2> QED
    BY <1>4, <2>1
<1>7. got'[u][k] # got[u][k] /\ Response(call[u], got'[u], j) = got'[u][k]
  BY <1>4, <1>5
<1>8. Awaited(1) /\ got' = [got EXCEPT ![chan[1].t][chan[1].i] = res]
  BY <1>7 DEF Answers
<1>9. /\ chan[1].t \in Tasks /\ chan[1].i \in 1..Sent(call[chan[1].t], out[chan[1].t])
      /\ chan[1] = Request(chan[1].t, call[chan[1].t], chan[1].i)
  BY <1>1, <1>2, <1>8, Message DEF Matched
<1>10. got \in [Tasks -> UNION {[1..n -> Results \cup {None}] : n \in Nat}]
  BY <1>1 DEF TypeOK
<1>11. chan[1].t = u
  <2>1. \A v \in Tasks : v # chan[1].t => got'[v] = got[v]
    BY <1>8, <1>10
  <2> QED
    BY <1>7, <2>1
<1>12. got'[u] = [got[u] EXCEPT ![chan[1].i] = res]
  BY <1>8, <1>10, <1>11
<1>13. got[u] \in [1..Size(call[u]) -> Results \cup {None}]
  BY <1>1 DEF Shape
<1> HIDE DEF k
<1>14. k = chan[1].i /\ got'[u][k] = res
  BY <1>6, <1>7, <1>12, <1>13
<1>15. chan[1] = Request(u, call[u], k)
  BY <1>9, <1>11, <1>14
<1>16. /\ chan[1].op = "exec" <=> ~(call[u].does.sends = "tx" /\ k # 2)
       /\ chan[1].op = "exec" => chan[1].x = call[u].execs[IF call[u].does.sends = "tx" THEN 1 ELSE k]
  BY <1>1, <1>6, <1>15, RequestFields
<1>17. ~(call[u].does.sends = "tx" /\ k # 2) /\ (IF call[u].does.sends = "tx" THEN 1 ELSE k) = j
  BY <1>6 DEF k
<1>18. k = IF call[u].does.sends = "tx" THEN j + 1 ELSE j
  BY DEF k
<1> QED
  BY <1>2, <1>7, <1>8, <1>11, <1>14, <1>16, <1>17, <1>18

\* The server takes a request and what it parses had a name that it did not know.
LEMMA HeldOfTakes ==
  ASSUME Wire, Wire', Held, NEW op, Takes(op), NEW res, got' = got \/ Answers(res),
         \A n : Known(n) /\ ~Closing(n) => Known(n)',
         \A n : Known(n) /\ (n # chan[1].name \/ op # "close") => Known(n)',
         op = "exec" /\ res = "ok" /\ chan[1].x.parse =>
           \A n : chan[1].x.name = n => ~Known(n) /\ Known(n)'
  PROVE  Held'
<1>1. TypeOK /\ TypeOK' /\ Matched
  BY DEF Wire
<1>2. /\ Len(chan) \in Nat \ {0} /\ 1 \in 1..Len(chan) /\ chan[1].op = op /\ Len(chan') = Len(chan) - 1
      /\ \A i \in 1..Len(chan') : i + 1 \in 1..Len(chan) /\ chan'[i] = chan[i + 1]
      /\ pc' = pc /\ call' = call /\ cache' = cache /\ unsure' = unsure
  BY <1>1, TakesDoes DEF cacheVars
<1>3. ASSUME NEW u \in Tasks, NEW j \in 1..2, Parsed(u, j)', ~Parsed(u, j)
      PROVE  /\ op = "exec" /\ res = "ok" /\ chan[1].t = u /\ chan[1].x = call[u].execs[j]
             /\ chan[1].i = (IF call[u].does.sends = "tx" THEN j + 1 ELSE j) /\ call[u].execs[j].parse
  <2>1. /\ pc[u] \in {"send", "wait"} /\ call[u].done < j /\ j <= Len(call[u].execs) /\ call[u].execs[j].parse
        /\ Response(call[u], got'[u], j) = "ok" /\ Response(call[u], got[u], j) # "ok"
    BY <1>2, <1>3 DEF Parsed
  <2> QED
    BY <2>1, NewResponse
<1>4. \A u \in Tasks, j \in 1..2 : Parsed(u, j)' =>
        /\ call'[u].execs[j] = call[u].execs[j]
        /\ Parsed(u, j) \/ \A n : call[u].execs[j].name = n => ~Known(n) /\ Known(n)'
  BY <1>2, <1>3
<1>5. \A u, v \in Tasks, j, k \in 1..2 :
        Parsed(u, j)' /\ Parsed(v, k)' /\ ~Parsed(u, j) /\ ~Parsed(v, k) => u = v /\ j = k
  <2> SUFFICES ASSUME NEW u \in Tasks, NEW v \in Tasks, NEW j \in 1..2, NEW k \in 1..2,
                      Parsed(u, j)', Parsed(v, k)', ~Parsed(u, j), ~Parsed(v, k)
               PROVE  u = v /\ j = k
    OBVIOUS
  <2>1. /\ chan[1].t = u /\ chan[1].i = (IF call[u].does.sends = "tx" THEN j + 1 ELSE j)
        /\ chan[1].t = v /\ chan[1].i = (IF call[v].does.sends = "tx" THEN k + 1 ELSE k)
    BY <1>3
  <2> QED
    BY <2>1
<1>6. \A s \in Cached' : s \in Cached /\ cache'[s] = cache[s]
  BY <1>2 DEF Cached
<1>7. \A n : \A i \in 1..Len(chan') : chan'[i].op = "close" /\ chan'[i].name = n /\ n \notin unsure /\ Known(n) => Known(n)'
  <2> SUFFICES ASSUME NEW n, NEW i \in 1..Len(chan'), chan'[i].op = "close", chan'[i].name = n, n \notin unsure, Known(n)
               PROVE  Known(n)'
    OBVIOUS
  <2>1. i + 1 \in 1..Len(chan) /\ chan[i + 1].op = "close" /\ chan[i + 1].name = n /\ i + 1 # 1
    BY <1>2
  <2>2. n # chan[1].name \/ op # "close"
    BY <1>2, <2>1 DEF Held
  <2> QED
    BY <2>2
<1>8. \A i \in 1..Len(chan') : chan'[i].op = "close" => i + 1 \in 1..Len(chan) /\ chan'[i] = chan[i + 1]
  BY <1>2
<1>9. PICK h \in {0, 1} : h = 1
  OBVIOUS
<1>10. \A i \in 1..Len(chan') : chan'[i].op = "close" => i + h \in 1..Len(chan) /\ chan'[i] = chan[i + h]
  BY <1>8, <1>9
<1> QED
  BY <1>1, <1>2, <1>4, <1>5, <1>6, <1>7, <1>10, HeldKept

LEMMA HeldOfServer ==
  ASSUME Wire, Wire', Held, Setup \/ Commit \/ Close \/ Execute \/ Alter
  PROVE  Held'
<1>1. TypeOK /\ TypeOK'
  BY DEF Wire
<1>2. CASE Setup
  <2>1. Takes("setup") /\ prepared' = prepared /\ Reply(Head(chan), "ok")
    BY <1>2 DEF Setup
  <2>2. got' = got \/ Answers("ok")
    BY <1>1, <2>1, ReplyAnswers
  <2>3. \A n : Known(n)' <=> Known(n)
    BY <2>1 DEF Known
  <2> QED
    BY <2>1, <2>2, <2>3, HeldOfTakes
<1>3. CASE Commit
  <2>1. Takes("commit") /\ prepared' = prepared /\ Reply(Head(chan), "ok")
    BY <1>3 DEF Commit
  <2>2. got' = got \/ Answers("ok")
    BY <1>1, <2>1, ReplyAnswers
  <2>3. \A n : Known(n)' <=> Known(n)
    BY <2>1 DEF Known
  <2> QED
    BY <2>1, <2>2, <2>3, HeldOfTakes
<1>4. CASE Close
  <2>1. Takes("close") /\ got' = got /\ prepared' = {p \in prepared : p.name # Head(chan).name}
    BY <1>4 DEF Close
  <2>2. chan[1] = Head(chan) /\ 1 \in 1..Len(chan) /\ chan[1].op = "close"
    BY <1>1, <2>1, TakesDoes
  <2>3. \A n : n # chan[1].name /\ Known(n) => Known(n)'
    BY <2>1, <2>2 DEF Known
  <2>4. Closing(chan[1].name)
    BY <2>2 DEF Closing
  <2>5. \A n : Known(n) /\ ~Closing(n) => Known(n)'
    BY <2>3, <2>4
  <2>6. PICK op : op = "close"
    OBVIOUS
  <2>7. Takes(op) /\ op # "exec" /\ \A n : Known(n) /\ (n # chan[1].name \/ op # "close") => Known(n)'
    BY <2>1, <2>3, <2>6
  <2> QED
    BY <2>1, <2>5, <2>7, HeldOfTakes
<1>5. CASE Execute
  <2> DEFINE x == chan[1].x
  <2>1. Takes("exec")
    BY <1>1, <1>5, ExecuteDoes
  <2>2. PICK res \in Results :
          /\ got' = got \/ Answers(res)
          /\ \/ res = "failed" /\ prepared' = prepared
             \/ res = "exists" /\ x.parse /\ Named(x.name) # {} /\ prepared' = prepared
             \/ /\ x.parse /\ Named(x.name) = {} /\ res \in {"ok", "failed"}
                /\ prepared' = prepared \cup {[name |-> x.name, sql |-> x.sql, stale |-> FALSE]}
             \/ ~x.parse /\ res # "exists" /\ prepared' = prepared
    BY <1>1, <1>5, ExecuteDoes
  <2>3. \A n : Known(n) => Known(n)'
    BY <2>2 DEF Known
  <2>4. res = "ok" /\ x.parse => \A n : x.name = n => ~Known(n) /\ Known(n)'
    <3> SUFFICES ASSUME res = "ok", x.parse PROVE \A n : x.name = n => ~Known(n) /\ Known(n)'
      OBVIOUS
    <3>1. Named(x.name) = {} /\ prepared' = prepared \cup {[name |-> x.name, sql |-> x.sql, stale |-> FALSE]}
      BY <2>2
    <3>2. ~Known(x.name)
      <4> SUFFICES ASSUME NEW p \in prepared, p.name = x.name PROVE FALSE
        BY DEF Known
      <4>1. p \in Named(x.name)
        BY DEF Named
      <4> QED
        BY <3>1, <4>1
    <3>3. PICK q \in prepared' : q.name = x.name
      <4>1. PICK p : p = [name |-> x.name, sql |-> x.sql, stale |-> FALSE]
        OBVIOUS
      <4> QED
        BY <3>1, <4>1
    <3> QED
      BY <3>2, <3>3 DEF Known
  <2> QED
    BY <2>1, <2>2, <2>3, <2>4, HeldOfTakes
<1>6. CASE Alter
  <2>1. /\ prepared' = {[p EXCEPT !.stale = TRUE] : p \in prepared} /\ pc' = pc /\ call' = call /\ got' = got
        /\ cache' = cache /\ chan' = chan /\ unsure' = unsure
    BY <1>6 DEF Alter, taskVars, cacheVars
  <2>2. \A p \in prepared : [p EXCEPT !.stale = TRUE].name = p.name
    BY <1>1 DEF TypeOK
  <2>3. \A n : Known(n) => Known(n)'
    BY <2>1, <2>2 DEF Known
  <2>4. \A u \in Tasks, j \in 1..2 : Parsed(u, j)' <=> Parsed(u, j)
    BY <2>1 DEF Parsed
  <2>5. \A s \in Cached' : s \in Cached /\ cache'[s] = cache[s]
    BY <2>1 DEF Cached
  <2>6. PICK h \in {0, 1} : h = 0
    OBVIOUS
  <2>7. \A i \in 1..Len(chan') : i + h \in 1..Len(chan) /\ chan'[i] = chan[i + h]
    <3>1. \A i \in 1..Len(chan') : i + h = i
      BY <2>6
    <3> QED
      BY <2>1, <3>1
  <2> QED
    BY <1>1, <2>1, <2>3, <2>4, <2>5, <2>7, HeldKept
<1> QED
  BY <1>2, <1>3, <1>4, <1>5, <1>6

LEMMA HeldStep ==
  ASSUME Wire, Wire', Meaning, Held, [Next]_vars
  PROVE  Held'
<1>1. CASE UNCHANGED vars
  BY <1>1 DEF vars, cacheVars, taskVars, serverVars, Held, Known, Closing, Parsed, Cached
<1>2. ASSUME NEW t \in Tasks, Call(t) \/ Look(t) \/ Send(t) \/ Succeeds(t) \/ Fails(t) \/ Invalidate(t) \/ GiveUp(t)
      PROVE  Held'
  BY <1>2, HeldOfTask, HeldOfSucceeds
<1> QED
  BY <1>1, <1>2, HeldOfServer DEF Next

LEMMA HeldInit ==
  ASSUME Init
  PROVE  Held
<1>1. Cached = {} /\ Len(chan) = 0 /\ \A t \in Tasks : pc[t] = "idle"
  BY DEF Init, Cached
<1>2. \A t \in Tasks, j \in 1..2 : ~Parsed(t, j)
  BY <1>1 DEF Parsed
<1>3. \A i : i \notin 1..Len(chan)
  BY <1>1
<1> QED
  BY <1>1, <1>2, <1>3 DEF Held

\* The cache of AsyncConn (async_conn.rs:381-399, 423-457) and the calls that use it keep
\* names apart: a name denotes one statement for the whole session, a request binds the
\* statement of its SQL, and an entry of the cache is prepared, or was published by
\* Pipeline::run though its statement had failed.
THEOREM NamesAreHonest == Spec => []NamesHonest
<1>1. Init => Wire /\ Meaning /\ Held
  BY WireInit, MeaningInit, HeldInit
<1>2. Wire /\ Meaning /\ Held /\ [Next]_vars => (Wire /\ Meaning /\ Held)'
  BY WireStep, MeaningStep, HeldStep
<1>3. Wire /\ Meaning /\ Held => NamesHonest
  <2> SUFFICES ASSUME Wire, Meaning, Held PROVE NamesHonest
    OBVIOUS
  <2>1. TypeOK
    BY DEF Wire
  <2>2. ASSUME NEW i \in DOMAIN chan, chan[i].op = "exec", NEW p \in Named(chan[i].x.name)
        PROVE  p.sql = chan[i].x.sql
    <3>1. i \in 1..Len(chan)
      BY <2>1 DEF TypeOK
    <3>2. chan[i].x.name \in Nat /\ chan[i].x.sql \in Sqls /\ Use(chan[i].x.name, chan[i].x.sql)
      BY <2>1, <2>2, <3>1, SentUse
    <3>3. p \in prepared /\ p.name = chan[i].x.name
      BY DEF Named
    <3>4. Use(p.name, p.sql) /\ p.sql \in Sqls
      BY <2>1, <3>3, PreparedUse
    <3> QED
      BY <3>2, <3>3, <3>4 DEF Meaning
  <2>3. ASSUME NEW s \in Sqls, cache[s] # None, cache[s] \notin unsure
        PROVE  \E p \in Named(cache[s]) : p.sql = s
    <3>1. s \in Cached /\ cache[s] \in Nat
      BY <2>1, <2>3 DEF Cached, TypeOK
    <3>2. PICK p \in prepared : p.name = cache[s]
      BY <2>3, <3>1 DEF Held, Known
    <3>3. Use(cache[s], s) /\ Use(cache[s], p.sql) /\ p.sql \in Sqls
      BY <2>1, <3>1, <3>2, PreparedUse DEF Use
    <3>4. p.sql = s
      BY <3>1, <3>3 DEF Meaning
    <3> QED
      BY <3>2, <3>4 DEF Named
  <2> QED
    BY <2>2, <2>3 DEF NamesHonest, Meaning
<1> QED
  BY <1>1, <1>2, <1>3, PTL DEF Spec
-----------------------------------------------------------------------------
(* A call that nobody disturbs.                                            *)

\* Only the task's own requests run a statement under the name.
Ours(t, n) == \A i \in 1..Len(chan) : chan[i].op = "exec" /\ chan[i].x.name = n => chan[i].t = t

\* While nobody else is on the connection, a second attempt finds no entry, parses under a
\* new name, and what was parsed is neither stale nor missing.  What dropped calls have left
\* in the channel goes by other names.
Fresh(t) ==
  LET x == call[t].execs[1]
      R == Response(call[t], got[t], 1)
  IN /\ call[t].again => x.parse
     /\ x.parse => R \notin Stale
     /\ R # "exists"
     /\ x.parse /\ R = None => ~Known(x.name) /\ Ours(t, x.name)
Unspoilt(t) ==
  /\ pc[t] # "idle" /\ \A u \in Tasks : u # t => pc[u] = "idle"
  /\ call[t].again /\ pc[t] = "look" => cache[call[t].sqls[1]] = None
  /\ call[t].does.again # "never" /\ pc[t] \in {"send", "wait"} => Fresh(t)
Undisturbed == \A t \in Tasks : alone = t => Unspoilt(t)

\* The lookup of a call that may be repeated.
LEMMA LookUpFinds ==
  ASSUME TypeOK, TypeOK', Meaning, NEW t \in Tasks, NEW c \in Records, c.does \in Policies, Shape(t)',
         Len(c.sqls) = (IF c.does.sends = "batch" THEN 2 ELSE 1), Len(c.execs) < Len(c.sqls), LookUp(t, c),
         c.again => cache[c.sqls[1]] = None, prepared' = prepared, chan' = chan
  PROVE  /\ call'[t].does = c.does /\ call'[t].again = c.again /\ call'[t].sqls = c.sqls
         /\ c.does.again # "never" => pc'[t] = "send" /\ Fresh(t)'
<1> DEFINE z == c.sqls[Len(c.execs) + 1]
           x == LookedUp(z, c.again /\ c.does.force)
           d == [c EXCEPT !.execs = Append(c.execs, x)]
<1>1. /\ z \in Sqls /\ (c.again /\ c.does.force) \in BOOLEAN /\ x \in Lookups
      /\ call' = [call EXCEPT ![t] = d]
      /\ \/ Len(d.execs) < Len(c.sqls) /\ pc' = [pc EXCEPT ![t] = "look"]
         \/ Len(d.execs) = Len(c.sqls) /\ pc' = [pc EXCEPT ![t] = "send"]
  BY LookUpDoes
<1>2. /\ cache[z] = None => x.name = counter /\ x.parse
      /\ cache[z] # None => (x.parse <=> c.again /\ c.does.force)
  BY <1>1, LookedUpIs
<1>3. /\ d.does = c.does /\ d.again = c.again /\ d.sqls = c.sqls /\ Len(d.execs) = Len(c.execs) + 1
      /\ d.execs[Len(c.execs) + 1] = x /\ Len(c.execs) \in Nat
  BY <1>1, CallAfterLookUp DEF Records
<1> HIDE DEF d, x
<1>4. call'[t] = d
  BY <1>1 DEF TypeOK
<1>5. ASSUME c.does.again # "never" PROVE pc'[t] = "send" /\ Fresh(t)'
  <2>1. Len(c.sqls) = 1
    BY <1>5, PolicyFacts
  <2>2. Len(c.execs) = 0 /\ Len(d.execs) = 1 /\ d.execs[1] = x /\ z = c.sqls[1]
    BY <1>3, <2>1
  <2>3. pc'[t] = "send"
    <3>0. Len(d.execs) = 1 /\ Len(c.sqls) = 1
      BY <2>1, <2>2
    <3>1. ~(Len(d.execs) < Len(c.sqls))
      <4>1. ~(1 < 1)
        OBVIOUS
      <4> QED
        BY <3>0, <4>1, Zenon
    <3>2. pc' = [pc EXCEPT ![t] = "send"]
      BY <1>1, <3>1
    <3> QED
      BY <3>2 DEF TypeOK
  <2>4. \A k \in 1..Size(call'[t]) : got'[t][k] = None
    BY <2>3, LookUpAsks
  <2>5. Response(call'[t], got'[t], 1) = None
    <3>1. PICK e, g : e = call'[t] /\ g = got'[t]
      OBVIOUS
    <3>2. e.does = c.does /\ e.sqls = c.sqls /\ Len(e.execs) = 1
      BY <1>3, <1>4, <2>2, <3>1
    <3>3. PICK j \in 1..2 : j = 1
      OBVIOUS
    <3>a. /\ Len(e.sqls) = (IF e.does.sends = "batch" THEN 2 ELSE 1) /\ Len(e.execs) = Len(e.sqls)
          /\ j <= Len(e.execs)
      BY <2>1, <3>2, <3>3
    <3>4. /\ Response(e, g, j) = g[IF e.does.sends = "tx" THEN j + 1 ELSE j]
          /\ (IF e.does.sends = "tx" THEN j + 1 ELSE j) \in 1..Size(e)
      BY <3>a, ResponseIs
    <3> QED
      BY <2>4, <3>1, <3>3, <3>4
  <2>6. c.again => x.parse
    BY <1>2, <2>2
  <2>7. x.parse => ~Known(x.name)
    <3> SUFFICES ASSUME x.parse, NEW p \in prepared, p.name = x.name PROVE FALSE
      BY DEF Known
    <3>1. cache[z] = None
      BY <1>2, <2>2
    <3>2. p.name = counter /\ counter \in Nat
      BY <1>2, <3>1 DEF TypeOK
    <3>3. Use(p.name, p.sql) /\ p.name \in Nat /\ p.sql \in Sqls
      BY PreparedUse
    <3>4. p.name < counter
      BY <3>3 DEF Meaning
    <3> QED
      BY <3>2, <3>4
  <2>10. x.parse => Ours(t, x.name)
    <3> SUFFICES ASSUME x.parse, NEW i \in 1..Len(chan), chan[i].op = "exec", chan[i].x.name = x.name PROVE FALSE
      BY DEF Ours
    <3>1. cache[z] = None
      BY <1>2, <2>2
    <3>2. chan[i].x.name = counter /\ counter \in Nat
      BY <1>2, <3>1 DEF TypeOK
    <3>3. Use(chan[i].x.name, chan[i].x.sql) /\ chan[i].x.name \in Nat /\ chan[i].x.sql \in Sqls
      BY SentUse
    <3>4. chan[i].x.name < counter
      BY <3>3 DEF Meaning
    <3> QED
      BY <3>2, <3>4
  <2>8. /\ call'[t].again => call'[t].execs[1].parse
        /\ call'[t].execs[1].parse => ~Known(call[t].execs[1].name)' /\ Ours(t, call[t].execs[1].name)'
    <3>1. call'[t].execs[1] = x /\ call'[t].again = c.again
      BY <1>3, <1>4, <2>2
    <3>2. Known(call[t].execs[1].name)' => Known(x.name)
      BY <3>1 DEF Known
    <3>3. Ours(t, x.name) => Ours(t, call[t].execs[1].name)'
      BY <3>1 DEF Ours
    <3> QED
      BY <2>6, <2>7, <2>10, <3>1, <3>2, <3>3
  <2>9. None \notin Stale /\ None # "exists"
    BY Constants DEF Results, Stale
  <2> QED
    BY <2>3, <2>5, <2>8, <2>9 DEF Fresh
<1> QED
  BY <1>3, <1>4, <1>5

LEMMA UndisturbedOfTask ==
  ASSUME Wire, Wire', Meaning, Undisturbed, NEW t \in Tasks,
         Call(t) \/ Look(t) \/ Send(t) \/ Succeeds(t) \/ Fails(t) \/ Invalidate(t) \/ GiveUp(t)
  PROVE  Undisturbed'
<1>1. TypeOK /\ TypeOK' /\ Shape(t) /\ Shape(t)'
  BY DEF Wire
<1>2. SUFFICES ASSUME NEW v \in Tasks, alone' = v PROVE Unspoilt(v)'
  BY DEF Undisturbed
<1>3. alone = v /\ pc[t] # "idle" => v = t /\ Unspoilt(t)
  BY DEF Undisturbed, Unspoilt
<1>4. v # None
  BY Constants
<1>5. CASE Call(t)
  <2>0. PICK does \in Policies : \E sqls \in [1..(IF does.sends = "batch" THEN 2 ELSE 1) -> Sqls] :
          LookUp(t, [NoCall EXCEPT !.does = does, !.sqls = sqls])
    BY <1>5 DEF Call, Policies
  <2>1. PICK sqls \in [1..(IF does.sends = "batch" THEN 2 ELSE 1) -> Sqls] :
          LookUp(t, [NoCall EXCEPT !.does = does, !.sqls = sqls])
    BY <2>0
  <2> DEFINE c == [NoCall EXCEPT !.does = does, !.sqls = sqls]
  <2>2. sqls \in Seq(Sqls) /\ Len(sqls) = IF does.sends = "batch" THEN 2 ELSE 1
    OBVIOUS
  <2>3. c.does = does /\ c.sqls = sqls /\ c.execs = <<>> /\ c.again = FALSE /\ c \in Records
    <3>1. NoCall \in Records /\ NoCall.execs = <<>> /\ NoCall.again = FALSE
      BY DEF NoCall, Records
    <3> QED
      BY <2>2, <3>1 DEF Records
  <2>4. Len(c.execs) < Len(c.sqls)
    BY <2>2, <2>3
  <2>5. LookUp(t, c)
    BY <2>1
  <2> HIDE DEF c
  <2>6. prepared' = prepared /\ chan' = chan /\ v = t /\ \A u \in Tasks : pc[u] = "idle"
    BY <1>2, <1>4, <1>5 DEF Call, serverVars
  <2>7. /\ call'[t].again = FALSE
        /\ call'[t].does.again # "never" => Fresh(t)'
    BY <1>1, <2>2, <2>3, <2>4, <2>5, <2>6, LookUpFinds
  <2>8. pc'[t] \in {"look", "send"} /\ \A u \in Tasks \ {t} : pc'[u] = pc[u]
    BY <1>5, AskDoes
  <2> QED
    BY <2>6, <2>7, <2>8 DEF Unspoilt
<1>6. CASE Look(t)
  <2>1. /\ pc[t] = "look" /\ LookUp(t, call[t]) /\ call[t] \in Records /\ cache' = cache /\ prepared' = prepared
        /\ alone' = alone /\ chan' = chan
    BY <1>1, <1>6 DEF Look, TypeOK, serverVars
  <2>2. /\ call[t].does \in Policies
        /\ Len(call[t].sqls) = IF call[t].does.sends = "batch" THEN 2 ELSE 1
        /\ Len(call[t].execs) < Len(call[t].sqls)
        /\ call[t].again => call[t].does.again # "never"
    BY <1>1, <2>1 DEF Shape
  <2>3. v = t /\ Unspoilt(t)
    BY <1>2, <1>3, <2>1
  <2>4. call[t].again => cache[call[t].sqls[1]] = None
    BY <2>1, <2>3 DEF Unspoilt
  <2>5. /\ call'[t].again = call[t].again /\ call'[t].sqls = call[t].sqls /\ call'[t].does = call[t].does
        /\ call[t].does.again # "never" => Fresh(t)'
    BY <1>1, <2>1, <2>2, <2>4, LookUpFinds
  <2>6. pc'[t] \in {"look", "send"} /\ \A u \in Tasks \ {t} : pc'[u] = pc[u]
    BY <1>6, AskDoes
  <2>7. \A u \in Tasks : u # t => pc'[u] = "idle"
    BY <2>3, <2>6 DEF Unspoilt
  <2> QED
    BY <2>1, <2>3, <2>4, <2>5, <2>6, <2>7 DEF Unspoilt
<1>7. CASE Send(t)
  <2>1. /\ pc[t] = "send" /\ call' = call /\ got' = got /\ alone' = alone /\ cache' = cache /\ prepared' = prepared
        /\ pc' = [pc EXCEPT ![t] = IF Len(out[t]) = 1 THEN "wait" ELSE "send"]
    BY <1>7 DEF Send, cacheVars, serverVars
  <2>2. v = t /\ Unspoilt(t)
    BY <1>2, <1>3, <2>1
  <2>3. pc'[t] \in {"send", "wait"} /\ \A u \in Tasks : u # t => pc'[u] = "idle"
    BY <1>1, <2>1, <2>2 DEF Unspoilt, TypeOK
  <2>4. Fresh(t) => Fresh(t)'
    <3>1. /\ Len(chan) \in Nat /\ Len(chan') = Len(chan) + 1 /\ \A i \in 1..Len(chan) : chan'[i] = chan[i]
          /\ chan'[Len(chan) + 1].t = t
      BY <1>7, SendAppends
    <3>2. \A i \in 1..Len(chan') : i \in 1..Len(chan) \/ i = Len(chan) + 1
      BY <3>1
    <3>3. PICK n : n = call[t].execs[1].name
      OBVIOUS
    <3>4. Ours(t, n) => Ours(t, n)'
      BY <3>1, <3>2 DEF Ours
    <3>5. Known(n)' <=> Known(n)
      BY <2>1 DEF Known
    <3>6. (Ours(t, n)' => Ours(t, call[t].execs[1].name)') /\ (Known(call[t].execs[1].name)' => Known(n)')
      BY <2>1, <3>3 DEF Ours, Known
    <3>7. PICK m : m = Response(call[t], got[t], 1)
      OBVIOUS
    <3>8. m = Response(call'[t], got'[t], 1)
      BY <2>1, <3>7
    <3> QED
      BY <2>1, <3>3, <3>4, <3>5, <3>6, <3>7, <3>8 DEF Fresh
  <2> QED
    BY <2>1, <2>2, <2>3, <2>4 DEF Unspoilt
<1>8. CASE Returns(t) /\ pc[t] # "idle"
  <2>1. alone' = IF alone = t THEN None ELSE alone
    BY <1>8 DEF Returns
  <2>2. alone = v /\ v # t
    BY <1>2, <1>4, <2>1
  <2> QED
    BY <1>3, <1>8, <2>2
<1>9. CASE Fails(t)
  <2>1. Returns(t) /\ pc[t] # "idle"
    BY <1>9 DEF Fails, Answered
  <2> QED
    BY <1>8, <2>1
<1>10. CASE Invalidate(t)
  <2>1. /\ pc[t] = "wait" /\ call[t].sqls[1] \in Sqls
        /\ cache' = [cache EXCEPT ![call[t].sqls[1]] = None] /\ pc' = [pc EXCEPT ![t] = "look"]
        /\ call'[t].sqls = call[t].sqls
    BY <1>10, InvalidateDoes
  <2>2. alone' = alone
    BY <1>10 DEF Invalidate
  <2>3. v = t /\ Unspoilt(t)
    BY <1>2, <1>3, <2>1, <2>2
  <2>4. pc'[t] = "look" /\ \A u \in Tasks : u # t => pc'[u] = "idle"
    BY <1>1, <2>1, <2>3 DEF Unspoilt, TypeOK
  <2>5. cache'[call'[t].sqls[1]] = None
    BY <1>1, <2>1 DEF TypeOK
  <2> QED
    BY <2>3, <2>4, <2>5 DEF Unspoilt
<1>11. CASE Succeeds(t)
  <2> DEFINE i == call[t].done + 1
  <2>1. /\ pc[t] = "wait" /\ (i = Len(call[t].execs) \/ i < Len(call[t].execs))
        /\ i < Len(call[t].execs) => call[t].does.sends = "batch"
        /\ i \in 1..Len(call[t].execs)
    BY <1>11, SucceedsIs
  <2>2. CASE i = Len(call[t].execs)
    BY <1>8, <1>11, <2>1, <2>2 DEF Succeeds, Answered
  <2>3. CASE i < Len(call[t].execs)
    <3>1. call' = [call EXCEPT ![t].done = i] /\ pc' = pc /\ alone' = alone
      BY <1>11, <2>3 DEF Succeeds
    <3>2. pc[t] = "wait"
      BY <1>11 DEF Succeeds, Answered
    <3>3. v = t /\ Unspoilt(t)
      BY <1>2, <1>3, <3>1, <3>2
    <3>4. call'[t].does = call[t].does
      <4>1. call \in [Tasks -> Records] /\ call[t] \in Records
        BY <1>1 DEF TypeOK
      <4> QED
        BY <3>1, <4>1 DEF Records
    <3>5. call[t].does.again = "never"
      <4>1. call[t].does \in Policies
        BY <1>1, <3>2 DEF Shape
      <4> QED
        BY <2>1, <2>3, <4>1, PolicyFacts
    <3> QED
      BY <3>1, <3>2, <3>3, <3>4, <3>5 DEF Unspoilt
  <2> QED
    BY <2>1, <2>2, <2>3
<1>12. CASE GiveUp(t)
  <2>1. pc[t] # "idle" /\ alone' = IF alone = t THEN None ELSE alone
    BY <1>12, GiveUpDoes
  <2>2. alone = v /\ v # t
    BY <1>2, <1>4, <2>1
  <2> QED
    BY <1>3, <2>1, <2>2
<1> QED
  BY <1>5, <1>6, <1>7, <1>9, <1>10, <1>11, <1>12

LEMMA UndisturbedOfServer ==
  ASSUME Wire, Wire', Undisturbed, Setup \/ Commit \/ Close \/ Execute \/ Alter
  PROVE  Undisturbed'
<1>1. TypeOK /\ TypeOK'
  BY DEF Wire
<1>2. CASE Alter
  BY <1>2, Constants DEF Alter, Undisturbed
<1>3. SUFFICES ASSUME NEW t \in Tasks, alone = t, Unspoilt(t), Setup \/ Commit \/ Close \/ Execute,
                      pc' = pc, call' = call, cache' = cache
               PROVE  Unspoilt(t)'
  <2>1. CASE Setup \/ Commit \/ Close \/ Execute
    <3>1. pc' = pc /\ call' = call /\ cache' = cache /\ alone' = alone
      BY <2>1 DEF Setup, Commit, Close, Execute, Takes, cacheVars
    <3> QED
      BY <1>3, <2>1, <3>1 DEF Undisturbed
  <2> QED
    BY <1>2, <2>1
<1>4. SUFFICES ASSUME call[t].does.again # "never", pc[t] \in {"send", "wait"}, Fresh(t)
               PROVE  Fresh(t)'
  BY <1>3, <1>4 DEF Unspoilt
<1>5. Shape(t) /\ call[t].does \in Policies /\ Len(call[t].execs) = 1
  <2>1. Shape(t)
    BY DEF Wire
  <2>2. call[t].does \in Policies /\ (call[t].does.sends # "batch" => Len(call[t].execs) = 1)
    BY <1>1, <1>4, <2>1, Sizes
  <2> QED
    BY <1>4, <2>1, <2>2, PolicyFacts
<1>11. ASSUME NEW op, Takes(op), NEW n, Ours(t, n) PROVE Ours(t, n)'
  <2>1. \A i \in 1..Len(chan') : i + 1 \in 1..Len(chan) /\ chan'[i] = chan[i + 1]
    BY <1>1, <1>11, TakesDoes
  <2> QED
    BY <1>11, <2>1 DEF Ours
<1>6. ASSUME NEW op, op # "exec", Takes(op), NEW res, got' = got \/ Answers(res), \A n : ~Known(n) => ~Known(n)'
      PROVE  Fresh(t)'
  <2>1. Response(call[t], got'[t], 1) = Response(call[t], got[t], 1)
    <3>1. PICK j \in 1..2 : j = 1
      OBVIOUS
    <3>2. j <= Len(call[t].execs)
      BY <1>5, <3>1
    <3>3. Response(call[t], got'[t], j) = Response(call[t], got[t], j)
      BY <1>4, <1>6, <3>2, NewResponse
    <3> QED
      BY <3>1, <3>3
  <2>2. PICK n : n = call[t].execs[1].name
    OBVIOUS
  <2>3. (~Known(n) => ~Known(n)') /\ (Ours(t, n) => Ours(t, n)')
    BY <1>6, <1>11
  <2>4. /\ Known(call[t].execs[1].name)' => Known(n)'
        /\ Ours(t, n)' => Ours(t, call[t].execs[1].name)'
    BY <1>3, <2>2 DEF Known, Ours
  <2> QED
    BY <1>3, <1>4, <2>1, <2>2, <2>3, <2>4 DEF Fresh
<1>7. CASE Setup
  <2>1. Takes("setup") /\ prepared' = prepared /\ Reply(Head(chan), "ok")
    BY <1>7 DEF Setup
  <2>2. Answers("ok")
    BY <1>1, <2>1, ReplyAnswers
  <2>3. \A n : ~Known(n) => ~Known(n)'
    BY <2>1 DEF Known
  <2> QED
    BY <1>6, <2>1, <2>2, <2>3
<1>8. CASE Commit
  <2>1. Takes("commit") /\ prepared' = prepared /\ Reply(Head(chan), "ok")
    BY <1>8 DEF Commit
  <2>2. Answers("ok")
    BY <1>1, <2>1, ReplyAnswers
  <2>3. \A n : ~Known(n) => ~Known(n)'
    BY <2>1 DEF Known
  <2> QED
    BY <1>6, <2>1, <2>2, <2>3
<1>9. CASE Close
  <2>1. Takes("close") /\ got' = got /\ prepared' \subseteq prepared
    BY <1>9 DEF Close
  <2>2. \A n : ~Known(n) => ~Known(n)'
    BY <2>1 DEF Known
  <2> QED
    BY <1>6, <2>1, <2>2
<1>10. CASE Execute
  <2> DEFINE x == chan[1].x
  <2>1. Takes("exec") /\ 1 \in 1..Len(chan) /\ chan[1].op = "exec"
    BY <1>1, <1>10, ExecuteDoes
  <2>2. PICK res \in Results :
          /\ Answers(res)
          /\ \/ res = "failed" /\ prepared' = prepared
             \/ res = "exists" /\ x.parse /\ Named(x.name) # {} /\ prepared' = prepared
             \/ /\ x.parse /\ Named(x.name) = {} /\ res \in {"ok", "failed"}
                /\ prepared' = prepared \cup {[name |-> x.name, sql |-> x.sql, stale |-> FALSE]}
             \/ ~x.parse /\ res # "exists" /\ prepared' = prepared
    BY <1>1, <1>10, ExecuteDoes
  <2>11. CASE ~Awaited(1)
    <3>1. chan[1].t # t /\ got' = got
      <4>1. chan[1].t = None
        BY <2>1, <2>11 DEF Awaited
      <4> QED
        BY <2>2, <2>11, <4>1, Constants DEF Answers
    <3>2. PICK n : n = call[t].execs[1].name
      OBVIOUS
    <3>3. Ours(t, n) => x.name # n
      BY <2>1, <3>1 DEF Ours
    <3>4. Ours(t, n) /\ ~Known(n) => ~Known(n)'
      BY <2>2, <3>3 DEF Known
    <3>5. Ours(t, n) => Ours(t, n)'
      BY <1>11, <2>1
    <3>6. /\ Known(call[t].execs[1].name)' => Known(n)'
          /\ Ours(t, n)' => Ours(t, call[t].execs[1].name)'
      BY <1>3, <3>2 DEF Known, Ours
    <3> HIDE DEF x
    <3>7. Response(call'[t], got'[t], 1) = Response(call[t], got[t], 1)
      BY <1>3, <3>1
    <3> QED
      BY <1>3, <1>4, <3>2, <3>4, <3>5, <3>6, <3>7 DEF Fresh
  <2>12. SUFFICES ASSUME Awaited(1) PROVE Fresh(t)'
    BY <2>11
  <2>3. PICK u \in Tasks : \E j \in 1..Len(call[u].execs) :
           /\ chan[1].t = u /\ Awaited(1) /\ pc[u] \in {"send", "wait"} /\ chan[1].x = call[u].execs[j]
           /\ chan[1].i = (IF call[u].does.sends = "tx" THEN j + 1 ELSE j) /\ chan[1].i \in 1..Size(call[u])
           /\ Response(call[u], got[u], j) = None
    BY <2>1, <2>12, ExecutedIs
  <2>4. u = t
    BY <1>3, <2>3 DEF Unspoilt
  <2>5. /\ chan[1].t = t /\ Awaited(1) /\ x = call[t].execs[1] /\ Response(call[t], got[t], 1) = None
        /\ chan[1].i = (IF call[t].does.sends = "tx" THEN 1 + 1 ELSE 1) /\ chan[1].i \in 1..Size(call[t])
    BY <1>5, <2>3, <2>4
  <2>6. Response(call[t], got'[t], 1) = res
    <3>1. got[t] \in [1..Size(call[t]) -> Results \cup {None}] /\ got \in [Tasks -> UNION {[1..n -> Results \cup {None}] : n \in Nat}]
      BY <1>1, <1>4, <1>5 DEF Shape, TypeOK
    <3>2. got'[t] = [got[t] EXCEPT ![chan[1].i] = res]
      BY <2>2, <2>5, <3>1 DEF Answers
    <3>3. got'[t][chan[1].i] = res
      BY <2>5, <3>1, <3>2
    <3> QED
      BY <2>5, <3>3 DEF Response
  <2>7. res # None
    BY Constants
  <2>8. x.parse => Named(x.name) = {}
    <3> SUFFICES ASSUME x.parse, NEW p \in Named(x.name) PROVE FALSE
      OBVIOUS
    <3>1. ~Known(call[t].execs[1].name)
      BY <1>4, <2>5 DEF Fresh
    <3> QED
      BY <2>5, <3>1 DEF Known, Named
  <2>9. res # "exists" /\ (x.parse => res \notin Stale)
    BY <2>2, <2>8 DEF Stale
  <2>10. call[t].again => x.parse
    BY <1>4, <2>5 DEF Fresh
  <2> HIDE DEF x
  <2> QED
    BY <1>3, <2>5, <2>6, <2>7, <2>9, <2>10 DEF Fresh
<1> QED
  BY <1>3, <1>7, <1>8, <1>9, <1>10

\* Whatever exec_query, exec_transaction and Client::query return to a caller that nobody
\* disturbs (async_conn.rs:585-667, query.rs:237-244), it is not that a statement
\* was stale, missing or there already.
THEOREM AloneIsRepaired == Spec => AloneRepaired
<1>1. Init => Wire /\ Meaning /\ Undisturbed
  <2> SUFFICES ASSUME Init PROVE Undisturbed
    BY WireInit, MeaningInit
  <2> QED
    BY Constants DEF Init, Undisturbed
<1>2. Wire /\ Meaning /\ Undisturbed /\ [Next]_vars => (Wire /\ Meaning /\ Undisturbed)'
  <2> SUFFICES ASSUME Wire, Meaning, Undisturbed, [Next]_vars PROVE Undisturbed'
    BY WireStep, MeaningStep
  <2>1. Wire'
    BY WireStep
  <2>2. CASE UNCHANGED vars
    BY <2>2 DEF vars, cacheVars, taskVars, serverVars, Undisturbed, Unspoilt, Fresh, Known, Ours
  <2>3. ASSUME NEW t \in Tasks, Call(t) \/ Look(t) \/ Send(t) \/ Succeeds(t) \/ Fails(t) \/ Invalidate(t) \/ GiveUp(t)
        PROVE  Undisturbed'
    BY <2>1, <2>3, UndisturbedOfTask
  <2> QED
    BY <2>1, <2>2, <2>3, UndisturbedOfServer DEF Next
<1>3. Wire /\ Undisturbed /\ [Next]_vars
        => [\A t \in Tasks : Fails(t) /\ alone = t /\ call[t].does.again # "never"
              => Outcome(t) \notin Stale \cup {"exists"}]_vars
  <2> SUFFICES ASSUME Wire, Undisturbed, NEW t \in Tasks, Fails(t), alone = t, call[t].does.again # "never",
                      Outcome(t) \in Stale \cup {"exists"}
               PROVE  FALSE
    OBVIOUS
  <2>1. TypeOK /\ Shape(t) /\ Unspoilt(t)
    BY DEF Wire, Undisturbed
  <2>3. pc[t] = "wait"
    BY DEF Fails, Answered
  <2>4. call[t].does \in Policies /\ call[t].does.sends # "batch"
    BY <2>1, <2>3, Sizes, PolicyFacts
  <2>6. Fresh(t)
    BY <2>1, <2>3 DEF Unspoilt
  <2>7. Outcome(t) # "ok" /\ Outcome(t) # None
    BY Constants DEF Stale, Results
  <2>8. PICK k \in 1..Size(call[t]) : Outcome(t) = got[t][k]
    BY <2>1, <2>3, <2>7, OutcomeIs
  <2>9. Outcome(t) = Response(call[t], got[t], 1)
    <3>1. CASE call[t].does.sends = "tx"
      <4>1. Size(call[t]) = 3 /\ got[t][1] \in {"ok", None} /\ got[t][3] \in {"ok", None}
        BY <2>1, <2>3, <3>1 DEF Shape, Size
      <4>2. k = 2
        BY <2>7, <2>8, <4>1
      <4> QED
        BY <2>8, <3>1, <4>2 DEF Response
    <3>2. CASE call[t].does.sends # "tx"
      <4>1. Size(call[t]) = 1
        BY <2>1, <2>3, <2>4, <3>2, Sizes
      <4> QED
        BY <2>8, <3>2, <4>1 DEF Response
    <3> QED
      BY <3>1, <3>2
  <2>10. Outcome(t) \in Stale /\ ~call[t].execs[1].parse /\ ~call[t].again
    BY <2>6, <2>9 DEF Fresh
  <2>11. call[t].does.again \in {"any", "hit"}
    BY <2>4, PolicyFacts
  <2>12. MayRetry(t)
    BY <2>10, <2>11 DEF MayRetry
  <2> QED
    BY <2>10, <2>12 DEF Fails
<1> QED
  BY <1>1, <1>2, <1>3, PTL DEF Spec, AloneRepaired
=============================================================================
