--------------------------- MODULE ReconnectProofs ---------------------------
(***************************************************************************)
(* Why a connection is replaced only when it is dead, and why a statement  *)
(* is executed again only after a loss: whoever dials has seen the         *)
(* connection of its slot dead, and nothing brings one back to life or     *)
(* takes the slot away from him; and a task that comes back to its query   *)
(* has met one loss more than the query has been executed.                 *)
(***************************************************************************)
EXTENDS ReconnectProperties, FiniteSetTheorems, TLAPS

Nets  == {"none", "up", "lost", "reset", "broken"}
Kinds == {None, "query", "atomic", "retried", "pooled"}
Asking == {"begin", "query", "commit", "rollback", "begun", "queried", "committed", "rolledback"}
Stages == Asking \cup {"idle", "scan", "no begin", "no query", "no commit", "no rollback",
                       "lock", "dial", "failed", "ok", "error"}

TypeOK ==
  /\ over \in {"client", "pool"}
  /\ net \in [1..ConnBound -> Nets] /\ alive \in [1..ConnBound -> BOOLEAN]
  /\ slot \in [Slots -> 1..ConnBound]
  /\ lock \in Tasks \cup {None} /\ mon \in [i : 0..Size, dials : BOOLEAN]
  /\ pc \in [Tasks -> Stages]
  /\ call \in [Tasks -> [kind : Kinds, guard : 1..ConnBound \cup {None}, conn : 1..ConnBound \cup {None},
                         second : BOOLEAN, tries : Nat, start : Nat, ran : Nat, met : Nat]]
  /\ counter \in Nat /\ closing \in Nat /\ calls \in Nat /\ losses \in Nat /\ refusals \in Nat

\* The connections were opened one after the other, and one that is dead stays so.
Conns ==
  /\ \E k \in 0..ConnBound : Opened = 1..k
  /\ \A i \in Slots : slot[i] \in Opened
  /\ \A c \in 1..ConnBound : alive[c] => c \in Opened
  /\ \A c \in Opened : alive[c] \/ net[c] = "broken"
  /\ \A t \in Tasks : pc[t] \in Asking => call[t].conn \in Opened
  /\ \A t \in Tasks : call[t].kind = "atomic" => call[t].guard \in Opened

\* Whoever dials has the lock, and the slot is dead.
Dialling ==
  /\ \A t \in Tasks : (pc[t] \in {"lock", "dial"} => over = "client") /\ (pc[t] = "scan" => over = "pool")
  /\ \A t \in Tasks : pc[t] = "dial" => lock = t /\ ~alive[slot[1]]
  /\ mon.dials => over = "pool" /\ mon.i \in Slots /\ ~alive[slot[mon.i]]

\* The statement has been executed as often as losses were met, but for once: when its
\* last execution is not lost.
Paid(t) ==
  /\ call[t].ran <= 1 + call[t].met
  /\ pc[t] \in {"scan", "begin", "begun", "query", "no query", "lock", "dial", "failed"} => call[t].ran <= call[t].met
  /\ pc[t] = "queried" /\ net[call[t].conn] # "up" => call[t].ran <= call[t].met

PooledOnce(t) ==
  call[t].kind = "pooled" =>
    /\ over = "pool"
    /\ pc[t] \in {"scan", "query", "queried", "no query", "ok", "error"}
    /\ call[t].ran <= IF pc[t] \in {"scan", "query"} THEN 0 ELSE 1

\* A transaction of atomic that has come to its statement has it on the connection it
\* began on, or has met a loss.
Bound(t) ==
  /\ pc[t] \in {"begin", "begun"} => call[t].kind = "atomic"
  /\ call[t].kind = "atomic" =>
     /\ pc[t] # "scan"
     /\ pc[t] \in {"begin", "begun"} =>
          /\ call[t].conn = call[t].guard
          /\ call[t].guard = slot[1] \/ ~alive[call[t].guard]
     /\ pc[t] \in {"query", "queried"} =>
          call[t].met > 0 \/ (call[t].conn = call[t].guard /\ net[call[t].conn] = "up")
     /\ pc[t] \in {"no query", "lock", "dial", "failed"} => call[t].met > 0

Inv == TypeOK /\ Conns /\ Dialling /\ \A t \in Tasks : Paid(t) /\ PooledOnce(t) /\ Bound(t)

-----------------------------------------------------------------------------
LEMMA SlotsAre ==
  ASSUME TypeOK
  PROVE  /\ 1 \in Slots /\ Slots \subseteq 1..Size /\ Slots \subseteq 1..ConnBound
         /\ over = "pool" => Slots = 1..Size
BY ReconnectAssumption DEF TypeOK, Slots

\* The next connection is one that nobody has had.
LEMMA FreshIsNew ==
  ASSUME TypeOK, Conns
  PROVE  /\ Fresh \in Nat \ {0} /\ Fresh \notin Opened /\ Opened \subseteq 1..ConnBound
         /\ Opened \cup {Fresh} = 1..Fresh
<1>1. PICK k \in 0..ConnBound : Opened = 1..k
  BY DEF Conns
<1>2. k \in Nat /\ ConnBound \in Nat
  BY <1>1, ReconnectAssumption
<1>3. Cardinality(1..k) = k
  <2>1. 1 \in Int /\ k \in Int
    BY <1>2
  <2>2. Cardinality(1..k) = IF 1 > k THEN 0 ELSE k - 1 + 1
    BY <2>1, FS_Interval
  <2> QED
    BY <1>2, <2>2
<1>4. Fresh = k + 1
  BY <1>1, <1>3 DEF Fresh
<1> QED
  BY <1>1, <1>2, <1>4 DEF Opened

\* A connection that is opened stays so, and one that is dead or down does.
LEMMA SocketStep ==
  ASSUME TypeOK, Conns, [Next]_vars
  PROVE  /\ over' = over /\ Slots' = Slots
         /\ \A c \in Opened : /\ c \in Opened' /\ (alive'[c] => alive[c])
                              /\ (net'[c] = "up" => net[c] = "up")
<1>1. over' = over
  BY ZenonT(40) DEF Next, TaskStep, vars, Execute, Closed, AnswerLost, Begun, QueryLost, Locked, Stored, Ended, AtomicEnds,
     Return, Scan, PooledLost, Call, Get, Refused, Writer, Loss, Reset, Look, Replaced, NotReplaced, Close, Rest
<1>2. Slots' = Slots
  BY <1>1 DEF Slots
<1>3. /\ Fresh \notin Opened /\ Opened \subseteq 1..ConnBound
      /\ Opened = {c \in 1..ConnBound : net[c] # "none"}
      /\ Opened' = {c \in 1..ConnBound : net'[c] # "none"}
  BY FreshIsNew DEF Opened
<1> SUFFICES ASSUME NEW c \in Opened
             PROVE  c \in Opened' /\ (alive'[c] => alive[c]) /\ (net'[c] = "up" => net[c] = "up")
  BY <1>1, <1>2
<1>4. /\ net \in [1..ConnBound -> Nets] /\ alive \in [1..ConnBound -> BOOLEAN]
      /\ c \in 1..ConnBound /\ net[c] # "none"
  BY <1>3 DEF TypeOK
<1>5. CASE UNCHANGED connVars
  BY <1>3, <1>4, <1>5 DEF connVars
<1>6. CASE Dialled
  BY <1>3, <1>4, <1>6 DEF Dialled
<1>7. CASE \E d \in Opened : WriterEnds(d)
  BY <1>3, <1>4, <1>7 DEF WriterEnds
<1>8. CASE \E d \in Opened : net[d] = "up" /\ Gone(d)
  BY <1>3, <1>4, <1>8 DEF Gone
<1>9. CASE Reset
  BY <1>3, <1>4, <1>9 DEF Reset, taskVars
<1>10. CASE \E t \in Tasks : Closed(t)
  BY <1>3, <1>4, <1>10 DEF Closed
<1> HIDE <1>3
<1>11. CASE Close
  <2>1. slot[closing + 1] \in Opened
    BY <1>11, SlotsAre, ReconnectAssumption DEF Close, TypeOK, Conns
  <2> QED
    BY <1>5, <1>8, <1>11, <2>1 DEF Close
<1> QED
  BY ZenonT(40), <1>5, <1>6, <1>7, <1>8, <1>9, <1>10, <1>11
     DEF Next, TaskStep, vars, connVars, Execute, AnswerLost, Begun, QueryLost, Locked, Stored, Ended, AtomicEnds,
     Return, Scan, PooledLost, Call, Get, Refused, Writer, Loss, Look, Replaced, NotReplaced, DialRefused

\* A slot is given another connection only when its own is dead.
LEMMA SlotStep ==
  ASSUME TypeOK, Dialling, [Next]_vars, slot' # slot
  PROVE  /\ Dialled
         /\ \E i \in Slots : ~alive[slot[i]] /\ slot' = [slot EXCEPT ![i] = Fresh]
<1>1. CASE \E t \in Tasks : Stored(t)
  BY <1>1, SlotsAre DEF Stored, Dialling
<1>2. CASE Replaced
  BY <1>2 DEF Replaced, Dialling
<1> QED
  BY ZenonT(40), <1>1, <1>2
     DEF Next, TaskStep, vars, Rest, Execute, Closed, AnswerLost, Begun, QueryLost, Locked, Ended, AtomicEnds,
     Return, Scan, PooledLost, Call, Get, Refused, Writer, Loss, Reset, Look, NotReplaced, Close

LEMMA OpenedStep ==
  ASSUME TypeOK, Conns, Dialling, [Next]_vars
  PROVE  Opened' = Opened \/ (Dialled /\ Opened' = 1..Fresh /\ Fresh \in 1..ConnBound)
<1>1. /\ Opened = {c \in 1..ConnBound : net[c] # "none"}
      /\ Opened' = {c \in 1..ConnBound : net'[c] # "none"}
      /\ net \in [1..ConnBound -> Nets]
  BY DEF Opened, TypeOK
<1>2. Fresh \in Nat \ {0} /\ Opened \cup {Fresh} = 1..Fresh
  BY FreshIsNew
<1>3. CASE Dialled
  <2>1. Fresh \in 1..ConnBound
    BY <1>2, <1>3, ReconnectAssumption DEF Dialled
  <2>2. Opened' = Opened \cup {Fresh}
    BY <1>1, <1>3, <2>1 DEF Dialled
  <2> QED
    BY <1>2, <1>3, <2>1, <2>2
<1>4. CASE UNCHANGED net
  BY <1>1, <1>4
<1>5. ASSUME NEW c \in Opened, NEW n \in Nets \ {"none"}, net' = [net EXCEPT ![c] = n]
      PROVE  Opened' = Opened
  BY <1>1, <1>5
<1>6. CASE \E t \in Tasks : Closed(t)
  BY <1>5, <1>6, <1>1 DEF Closed, Conns, Requests, Asking, Nets
<1>7. CASE Close
  <2>1. slot[closing + 1] \in Opened
    BY <1>7, SlotsAre, ReconnectAssumption DEF Close, TypeOK, Conns
  <2> QED
    BY <1>4, <1>5, <1>7, <2>1 DEF Close, Gone, Nets, connVars
<1>8. CASE Loss \/ Reset
  BY <1>5, <1>8 DEF Loss, Reset, Gone, Nets
<1> QED
  BY ZenonT(40), <1>3, <1>4, <1>6, <1>7, <1>8
     DEF Next, TaskStep, vars, connVars, Rest, Execute, AnswerLost, Begun, QueryLost, Locked, Stored, Ended, AtomicEnds,
     Return, Scan, PooledLost, Call, Get, Refused, Writer, WriterEnds, Look, Replaced, NotReplaced, DialRefused

LEMMA Tables ==
  \A q \in Requests :
    /\ Executed[q] \in {"begun", "queried", "committed", "rolledback"} /\ Executed[q] \in Stages
    /\ Lost[q] \in {"no begin", "no query", "no commit", "no rollback"} /\ Lost[q] \in Stages
    /\ Executed[q] = "queried" <=> q = "query"
    /\ Executed[q] = "begun" <=> q = "begin"
    /\ Lost[q] = "no query" <=> q = "query"
<1>1. /\ Executed["begin"] = "begun" /\ Executed["query"] = "queried"
      /\ Executed["commit"] = "committed" /\ Executed["rollback"] = "rolledback"
  BY DEF Executed
<1>2. /\ Lost["begin"] = "no begin" /\ Lost["query"] = "no query"
      /\ Lost["commit"] = "no commit" /\ Lost["rollback"] = "no rollback"
  BY DEF Lost
<1> QED
  BY <1>1, <1>2 DEF Requests, Stages, Asking

\* A request is executed or lost, and its answer arrives or is lost.
LEMMA AskStep ==
  ASSUME TypeOK, NEW t \in Tasks
  PROVE  /\ Execute(t) => pc[t] \in Requests /\ pc'[t] = Executed[pc[t]]
         /\ Closed(t) => pc[t] \in Requests /\ pc'[t] = Lost[pc[t]]
         /\ AnswerLost(t) => \E q \in Requests : pc[t] = Executed[q] /\ pc'[t] = Lost[q]
<1>1. \A p : At(t, p) => pc'[t] = p
  BY DEF At, TypeOK
<1> QED
  BY <1>1 DEF Execute, Closed, AnswerLost

LEMMA TypeStep ==
  ASSUME TypeOK, Conns, Dialling, [Next]_vars
  PROVE  TypeOK'
<1> DEFINE CallType == [kind : Kinds, guard : 1..ConnBound \cup {None}, conn : 1..ConnBound \cup {None},
                        second : BOOLEAN, tries : Nat, start : Nat, ran : Nat, met : Nat]
<1>1. over' = over /\ Slots' = Slots
  BY SocketStep
<1>2. Dialled => Fresh \in 1..ConnBound /\ net' \in [1..ConnBound -> Nets] /\ alive' \in [1..ConnBound -> BOOLEAN]
  BY SMTT(30), FreshIsNew, ReconnectAssumption DEF Dialled, TypeOK, Nets
<1>3. slot' \in [Slots -> 1..ConnBound]
  BY <1>2, SlotStep DEF TypeOK
<1>4. net' \in [1..ConnBound -> Nets] /\ alive' \in [1..ConnBound -> BOOLEAN]
  <2>1. UNCHANGED net => net' \in [1..ConnBound -> Nets]
    BY DEF TypeOK
  <2>2. UNCHANGED alive => alive' \in [1..ConnBound -> BOOLEAN]
    BY DEF TypeOK
  <2>a. ASSUME NEW c, NEW n \in Nets, net' = [net EXCEPT ![c] = n]
        PROVE  net' \in [1..ConnBound -> Nets]
    BY <2>a DEF TypeOK
  <2>3. ASSUME NEW t \in Tasks, Closed(t)
        PROVE  net' \in [1..ConnBound -> Nets] /\ alive' = alive
    <3>1. call[t].conn \in 1..ConnBound
      BY <2>3 DEF Closed, Conns, Requests, Asking, Opened
    <3>2. IF net[call[t].conn] = "reset" THEN "broken" \in Nets ELSE net[call[t].conn] \in Nets
      BY <3>1 DEF TypeOK, Nets
    <3> QED
      BY <2>a, <2>3, <3>2 DEF Closed
  <2>4. CASE Loss \/ Reset \/ Close
    <3>1. UNCHANGED alive
      BY <2>4 DEF Loss, Reset, Close, Gone, connVars
    <3>2. UNCHANGED net \/ \E c \in 1..ConnBound, n \in {"lost", "reset"} : net' = [net EXCEPT ![c] = n]
      <4>1. CASE Close
        <5>1. slot[closing + 1] \in 1..ConnBound
          BY <4>1, SlotsAre, ReconnectAssumption DEF Close, TypeOK
        <5> QED
          BY <4>1, <5>1 DEF Close, Gone, connVars
      <4> QED
        BY <2>4, <4>1 DEF Loss, Reset, Gone, Opened
    <3> QED
      BY <2>a, <2>1, <2>2, <3>1, <3>2 DEF Nets
  <2>5. CASE Writer
    BY <2>1, <2>5 DEF Writer, WriterEnds, TypeOK
  <2> QED
    BY ZenonT(40), <1>2, <2>1, <2>2, <2>3, <2>4, <2>5
       DEF Next, TaskStep, vars, connVars, Rest, Execute, AnswerLost, Begun, QueryLost, Locked, Stored, Ended,
       AtomicEnds, Return, Scan, PooledLost, Call, Get, Refused, Look, Replaced, NotReplaced, DialRefused
<1>5. lock' \in Tasks \cup {None} /\ mon' \in [i : 0..Size, dials : BOOLEAN]
  <2>1. CASE Look
    <3>1. (mon.i % Size) + 1 \in 1..Size
      BY ReconnectAssumption DEF TypeOK
    <3>2. (~alive[slot[(mon.i % Size) + 1]]) \in BOOLEAN
      OBVIOUS
    <3>3. mon' \in [i : 0..Size, dials : BOOLEAN]
      BY <2>1, <3>1, <3>2 DEF Look
    <3> QED
      BY <2>1, <3>3 DEF Look, TypeOK
  <2> QED
    BY ZenonT(40), <2>1
       DEF TypeOK, Next, TaskStep, vars, Rest, Execute, Closed, AnswerLost, Begun, QueryLost, Locked, Stored,
       Ended, AtomicEnds, Return, Scan, PooledLost, Call, Get, Refused, Writer, Loss, Reset, Replaced, NotReplaced,
       Close
<1>6. /\ counter' \in Nat /\ closing' \in Nat /\ calls' \in Nat /\ losses' \in Nat /\ refusals' \in Nat
  <2>1. /\ counter' \in {counter, counter + 1} /\ closing' \in {closing, closing + 1}
        /\ calls' \in {calls, calls + 1} /\ losses' \in {losses, losses + 1}
        /\ refusals' \in {refusals, refusals + 1}
    BY ZenonT(40) DEF Next, TaskStep, vars, Rest, Execute, Closed, AnswerLost, Begun, QueryLost, Locked, Stored, Ended, AtomicEnds,
       Return, Scan, PooledLost, Call, Get, Refused, Writer, Loss, Reset, Look, Replaced, NotReplaced, Close, Dialled,
       DialRefused
  <2> QED
    BY <2>1 DEF TypeOK
<1>7. pc' \in [Tasks -> Stages]
  <2>1. ASSUME NEW t \in Tasks, NEW p \in Stages, At(t, p)
        PROVE  pc' \in [Tasks -> Stages]
    BY <2>1 DEF At, TypeOK
  <2>2. ASSUME NEW t \in Tasks, Execute(t) \/ Closed(t) \/ AnswerLost(t)
        PROVE  \E p \in Stages : At(t, p)
    <3>1. CASE Execute(t) \/ Closed(t)
      BY <3>1, Tables DEF Execute, Closed
    <3>2. CASE AnswerLost(t)
      BY <3>2, Tables DEF AnswerLost
    <3> QED
      BY <2>2, <3>1, <3>2
  <2>3. ASSUME NEW t \in Tasks, Call(t) \/ Begun(t) \/ QueryLost(t) \/ Stored(t) \/ Refused(t) \/ Return(t)
        PROVE  \E p \in Stages : At(t, p)
    BY <2>3 DEF Call, Begun, QueryLost, Stored, Refused, Return, Sends, Stages, Asking
  <2>4. ASSUME NEW t \in Tasks, Locked(t) \/ Ended(t) \/ AtomicEnds(t) \/ Get(t) \/ Scan(t) \/ PooledLost(t)
        PROVE  UNCHANGED pc \/ \E p \in Stages : At(t, p)
    BY <2>4 DEF Locked, Ended, AtomicEnds, Get, Scan, PooledLost, Sends, Stages, Asking
  <2>5. UNCHANGED pc => pc' \in [Tasks -> Stages]
    BY DEF TypeOK
  <2>6. (\E t \in Tasks : TaskStep(t) \/ Call(t) \/ Get(t) \/ Refused(t)) => pc' \in [Tasks -> Stages]
    BY <2>1, <2>2, <2>3, <2>4, <2>5 DEF TaskStep
  <2> QED
    BY <2>5, <2>6 DEF Next, vars, taskVars, Writer, Loss, Reset, Look, Replaced, NotReplaced, Close
<1>8. call' \in [Tasks -> CallType]
  <2>1. call \in [Tasks -> CallType] /\ NoCall \in CallType
    BY DEF TypeOK, NoCall, Kinds
  <2>2. UNCHANGED call => call' \in [Tasks -> CallType]
    BY <2>1
  <2>3. call' = Hit => call' \in [Tasks -> CallType]
    BY <2>1 DEF Hit
  <2>4. ASSUME NEW t \in Tasks, NEW r \in CallType, call' = [call EXCEPT ![t] = r]
        PROVE  call' \in [Tasks -> CallType]
    BY <2>1, <2>4
  <2>5. slot[1] \in 1..ConnBound
    BY SlotsAre DEF TypeOK
  <2>6. ASSUME NEW t \in Tasks
        PROVE  TaskStep(t) \/ Call(t) \/ Get(t) \/ Refused(t) => call' \in [Tasks -> CallType]
    <3>1. CASE Get(t)
      <4>1. counter % Size \in Nat
        BY ReconnectAssumption DEF TypeOK
      <4> QED
        BY <2>1, <2>4, <3>1, <4>1 DEF Get, NoCall, Kinds
    <3>2. CASE Scan(t)
      <4>1. slot[((call[t].start + call[t].tries) % Size) + 1] \in 1..ConnBound
        <5>1. over = "pool"
          BY <3>2 DEF Scan, Dialling
        <5>2. call[t].start \in Nat /\ call[t].tries \in Nat
          BY <2>1
        <5>3. ((call[t].start + call[t].tries) % Size) + 1 \in 1..Size
          BY <5>2, ReconnectAssumption
        <5> QED
          BY <5>1, <5>3, SlotsAre DEF TypeOK
      <4> QED
        BY <2>1, <3>2, <4>1 DEF Scan, Sends
    <3>3. CASE Call(t)
      <4>1. PICK k \in {"query", "atomic", "retried"} :
              call' = [call EXCEPT ![t] = [NoCall EXCEPT !.kind = k, !.conn = slot[1], !.guard = slot[1]]]
        BY <3>3 DEF Call
      <4>2. [NoCall EXCEPT !.kind = k, !.conn = slot[1], !.guard = slot[1]] \in CallType
        BY <2>1, <2>5 DEF Kinds
      <4> QED
        BY <2>4, <4>1, <4>2
    <3>4. CASE Stored(t)
      BY <2>1, <1>2, <3>4 DEF Stored
    <3>5. CASE Locked(t)
      BY <2>1, <2>5, <3>5 DEF Locked
    <3>6. CASE Ended(t)
      BY <2>1, <2>5, <3>6 DEF Ended, Sends
    <3>7. CASE Execute(t) \/ Refused(t)
      BY <2>1, <2>2, <3>7 DEF Execute, Refused
    <3>8. CASE Begun(t) \/ Return(t)
      BY <2>1, <2>4, <2>5, <3>8 DEF Begun, Return, Sends
    <3> QED
      BY <2>2, <3>1, <3>2, <3>3, <3>4, <3>5, <3>6, <3>7, <3>8
         DEF TaskStep, Closed, AnswerLost, QueryLost, AtomicEnds, PooledLost
  <2> QED
    BY <2>2, <2>3, <2>6
       DEF Next, vars, taskVars, Writer, Loss, Reset, Look, Replaced, NotReplaced, Close
<1> QED
  BY <1>1, <1>3, <1>4, <1>5, <1>6, <1>7, <1>8 DEF TypeOK

\* What a step of a task does to the task, to its call, and to nobody else's.
LEMMA OthersStep ==
  ASSUME TypeOK, [Next]_vars, NEW u \in Tasks,
         ~(TaskStep(u) \/ Call(u) \/ Get(u) \/ Refused(u))
  PROVE  /\ pc'[u] = pc[u]
         /\ \/ call'[u] = call[u]
            \/ pc[u] # "idle" /\ call'[u] = [call[u] EXCEPT !.met = @ + 1]
<1>1. ASSUME NEW t \in Tasks, t # u, TaskStep(t) \/ Call(t) \/ Get(t) \/ Refused(t)
      PROVE  pc'[u] = pc[u] /\ call'[u] = call[u]
  <2>1. \A p : At(t, p) => pc'[u] = pc[u]
    BY <1>1 DEF At, TypeOK
  <2>2. UNCHANGED pc \/ \E p : At(t, p)
    BY <1>1 DEF TaskStep, Execute, Closed, AnswerLost, Begun, QueryLost, Locked, Stored, Ended, AtomicEnds, Return,
       Scan, PooledLost, Call, Get, Refused, Sends
  <2>3. call'[u] = call[u]
    BY <1>1 DEF TypeOK, TaskStep, Execute, Closed, AnswerLost, Begun, QueryLost, Locked, Stored, Ended, AtomicEnds,
       Return, Scan, PooledLost, Call, Get, Refused, Sends
  <2> QED
    BY <2>1, <2>2, <2>3
<1>2. CASE Loss \/ Close
  <2>1. call' = call \/ call' = Hit
    BY <1>2 DEF Loss, Close
  <2>2. pc' = pc
    BY <1>2 DEF Loss, Close
  <2> QED
    BY <2>1, <2>2 DEF Hit
<1>3. CASE UNCHANGED <<pc, call>>
  BY <1>3
<1> QED
  BY <1>1, <1>2, <1>3 DEF Next, vars, taskVars, Writer, Reset, Look, Replaced, NotReplaced

\* A loss is met by every call that is under way.
LEMMA LossMet ==
  ASSUME TypeOK, Conns, [Next]_vars, NEW c \in Opened, net[c] = "up", net'[c] # "up"
  PROVE  call' = Hit /\ pc' = pc
<1>1. c \in 1..ConnBound /\ net \in [1..ConnBound -> Nets] /\ Fresh \notin Opened
  BY FreshIsNew DEF Opened, TypeOK
<1>2. UNCHANGED net => FALSE
  OBVIOUS
<1>3. CASE Dialled
  BY <1>1, <1>3 DEF Dialled
<1>4. CASE Reset
  BY <1>1, <1>4 DEF Reset
<1>5. CASE \E t \in Tasks : Closed(t)
  BY <1>1, <1>5 DEF Closed
<1>6. CASE Loss
  BY <1>6 DEF Loss
<1>7. CASE Close
  BY <1>2, <1>7 DEF Close, connVars
<1> QED
  BY <1>2, <1>3, <1>4, <1>5, <1>6, <1>7
     DEF Next, TaskStep, vars, connVars, Execute, AnswerLost, Begun, QueryLost, Locked, Stored, Ended, AtomicEnds,
     Return, Scan, PooledLost, Call, Get, Refused, Writer, WriterEnds, Look, Replaced, NotReplaced, DialRefused

LEMMA DiallingStep ==
  ASSUME TypeOK, Conns, Dialling, [Next]_vars
  PROVE  Dialling'
<1>1. over' = over /\ Slots' = Slots /\ TypeOK'
  BY SocketStep, TypeStep
<1>2. \A i \in Slots : slot[i] \in Opened /\ (~alive[slot[i]] => ~alive'[slot[i]])
  BY SocketStep DEF Conns
<1>3. ASSUME NEW u \in Tasks
      PROVE  /\ pc'[u] \in {"lock", "dial"} => over = "client"
             /\ pc'[u] = "scan" => over = "pool"
             /\ pc'[u] = "dial" => \/ pc[u] = "dial"
                                   \/ Locked(u)
  <2>1. CASE ~(TaskStep(u) \/ Call(u) \/ Get(u) \/ Refused(u))
    BY <2>1, OthersStep DEF Dialling
  <2>2. CASE Execute(u) \/ Closed(u) \/ AnswerLost(u)
    <3>1. pc'[u] \in {"begun", "queried", "committed", "rolledback", "no begin", "no query", "no commit", "no rollback"}
      BY <2>2, Tables, AskStep
    <3> QED
      BY <3>1
  <2>3. CASE QueryLost(u) \/ Locked(u) \/ Get(u) \/ Scan(u)
    BY <2>3 DEF QueryLost, Locked, Get, Scan, At, Sends, TypeOK, Dialling
  <2>4. CASE Begun(u) \/ Stored(u) \/ AtomicEnds(u) \/ Return(u) \/ PooledLost(u) \/ Call(u) \/ Refused(u)
    BY <2>4 DEF Begun, Stored, AtomicEnds, Return, PooledLost, Call, Refused, At, Sends, TypeOK
  <2>5. CASE Ended(u)
    BY <2>5 DEF Ended, At, Sends, TypeOK
  <2> QED
    BY <2>1, <2>2, <2>3, <2>4, <2>5 DEF TaskStep
<1>4. ASSUME slot' # slot
      PROVE  \/ over = "client" /\ \E t \in Tasks : Stored(t)
             \/ over = "pool" /\ Replaced
  <2>1. (\E t \in Tasks : Stored(t)) \/ Replaced
    BY <1>4 DEF Next, TaskStep, vars, Rest, Execute, Closed, AnswerLost, Begun, QueryLost, Locked, Ended,
       AtomicEnds, Return, Scan, PooledLost, Call, Get, Refused, Writer, Loss, Reset, Look, NotReplaced, Close
  <2>2. \A t \in Tasks : Stored(t) => over = "client"
    BY DEF Stored, Dialling
  <2>3. Replaced => over = "pool"
    BY DEF Replaced, Dialling
  <2> QED
    BY <2>1, <2>2, <2>3
<1>5. ASSUME NEW u \in Tasks, pc'[u] = "dial"
      PROVE  lock' = u /\ ~alive'[slot'[1]]
  <2>1. CASE Locked(u)
    BY <1>2, <1>5, <2>1, SlotsAre DEF Locked, At, TypeOK, connVars
  <2>2. CASE pc[u] = "dial" /\ ~Locked(u)
    <3>1. lock = u /\ ~alive[slot[1]] /\ over = "client" /\ ~mon.dials
      BY <2>2 DEF Dialling
    <3>2. \A t \in Tasks : Stored(t) \/ Refused(t) => t = u
      BY <3>1 DEF Stored, Refused, Dialling
    <3>3. ~Stored(u) /\ ~Refused(u)
      BY <1>5 DEF Stored, Refused, At, TypeOK
    <3>4. slot' = slot
      BY <1>4, <3>1, <3>2, <3>3
    <3>5. lock' = lock
      BY <3>1, <3>2, <3>3, ReconnectAssumption
         DEF Next, TaskStep, vars, Rest, Execute, Closed, AnswerLost, Begun, QueryLost, Locked, Ended,
         AtomicEnds, Return, Scan, PooledLost, Call, Get, Writer, Loss, Reset, Look, Replaced, NotReplaced, Close
    <3> QED
      BY <1>2, <3>1, <3>4, <3>5, SlotsAre
  <2> QED
    BY <1>3, <1>5, <2>1, <2>2
<1>6. ASSUME mon'.dials
      PROVE  over = "pool" /\ mon'.i \in Slots /\ ~alive'[slot'[mon'.i]]
  <2>1. CASE Look
    <3>1. (mon.i % Size) + 1 \in Slots
      BY SMTT(30), <2>1, SlotsAre, ReconnectAssumption DEF Look, TypeOK
    <3> QED
      BY <1>6, <2>1, <3>1 DEF Look, connVars
  <2>2. CASE mon' = mon
    <3>1. over = "pool" /\ mon.i \in Slots /\ ~alive[slot[mon.i]]
      BY <1>6, <2>2 DEF Dialling
    <3>2. ~Replaced
      BY <1>6, <2>2 DEF Replaced, TypeOK
    <3> QED
      BY <1>2, <1>4, <2>2, <3>1, <3>2
  <2>3. CASE Replaced \/ NotReplaced
    BY <1>6, <2>3 DEF Replaced, NotReplaced, TypeOK
  <2> QED
    BY ZenonT(40), <2>1, <2>2, <2>3
       DEF Next, TaskStep, vars, Rest, Execute, Closed, AnswerLost, Begun, QueryLost, Locked, Stored, Ended,
       AtomicEnds, Return, Scan, PooledLost, Call, Get, Refused, Writer, Loss, Reset, Close
<1> QED
  BY <1>1, <1>3, <1>5, <1>6 DEF Dialling

\* Where a query that has ended goes on, and under the lock.
LEMMA EndedStep ==
  ASSUME TypeOK, NEW t \in Tasks, Ended(t)
  PROVE  /\ (pc[t] = "queried" /\ net[call[t].conn] = "up") \/ pc[t] = "failed"
         /\ \/ /\ call[t].kind = "atomic" /\ pc'[t] \in {"commit", "rollback"}
               /\ call'[t] = [call[t] EXCEPT !.conn = call[t].guard]
            \/ /\ call[t].kind = "retried" /\ pc[t] = "failed" /\ pc'[t] = "query"
               /\ call'[t] = [call[t] EXCEPT !.tries = @ + 1, !.second = FALSE, !.conn = slot[1]]
            \/ call[t].kind # "atomic" /\ pc'[t] \in {"ok", "error"} /\ call'[t] = call[t]
<1>1. \A p : At(t, p) => pc'[t] = p
  BY DEF At, TypeOK
<1>2. CASE call[t].kind = "atomic"
  <2>1. Sends(t, call[t].guard, IF pc[t] = "queried" THEN "commit" ELSE "rollback")
    BY <1>2 DEF Ended
  <2>2. pc'[t] \in {"commit", "rollback"} /\ call'[t] = [call[t] EXCEPT !.conn = call[t].guard]
    BY <1>1, <2>1 DEF Sends, TypeOK
  <2> QED
    BY <1>2, <2>2 DEF Ended
<1>3. CASE call[t].kind = "retried" /\ pc[t] # "queried" /\ call[t].tries < MaxRetries
  <2>1. /\ At(t, "query")
        /\ call' = [call EXCEPT ![t].tries = @ + 1, ![t].second = FALSE, ![t].conn = slot[1]]
    BY <1>3 DEF Ended
  <2>2. call'[t] = [call[t] EXCEPT !.tries = @ + 1, !.second = FALSE, !.conn = slot[1]]
    BY <2>1 DEF TypeOK
  <2> QED
    BY <1>1, <1>3, <2>1, <2>2 DEF Ended
<1>4. CASE /\ call[t].kind # "atomic"
           /\ ~(call[t].kind = "retried" /\ pc[t] # "queried" /\ call[t].tries < MaxRetries)
  <2>1. At(t, IF pc[t] = "queried" THEN "ok" ELSE "error") /\ UNCHANGED call
    BY <1>4 DEF Ended
  <2> QED
    BY <1>1, <1>4, <2>1 DEF Ended
<1> QED
  BY <1>2, <1>3, <1>4

LEMMA LockedStep ==
  ASSUME TypeOK, NEW t \in Tasks, Locked(t)
  PROVE  /\ pc[t] = "lock"
         /\ \/ pc'[t] = "query" /\ call'[t] = [call[t] EXCEPT !.conn = slot[1], !.second = TRUE]
            \/ pc'[t] = "dial" /\ call'[t] = call[t]
<1>1. \A p : At(t, p) => pc'[t] = p
  BY DEF At, TypeOK
<1>2. CASE alive[slot[1]]
  BY <1>1, <1>2 DEF Locked, TypeOK
<1>3. CASE ~alive[slot[1]]
  BY <1>1, <1>3 DEF Locked
<1> QED
  BY <1>2, <1>3

LEMMA ConnsStep ==
  ASSUME TypeOK, Conns, Dialling, [Next]_vars
  PROVE  Conns'
<1>1. over' = over /\ Slots' = Slots /\ TypeOK' /\ Opened \subseteq Opened'
  BY SocketStep, TypeStep
<1>2. /\ Fresh \in Nat /\ Fresh \notin Opened /\ Opened \subseteq 1..ConnBound /\ ConnBound \in Nat
      /\ Opened = {c \in 1..ConnBound : net[c] # "none"}
      /\ Opened' = {c \in 1..ConnBound : net'[c] # "none"}
      /\ Dialled => Opened' = 1..Fresh /\ Fresh \in Opened'
  <2>1. /\ Fresh \in Nat \ {0} /\ Fresh \notin Opened /\ Opened \subseteq 1..ConnBound
        /\ Opened \cup {Fresh} = 1..Fresh /\ ConnBound \in Nat
    BY FreshIsNew, ReconnectAssumption
  <2>2. /\ Opened = {c \in 1..ConnBound : net[c] # "none"}
        /\ Opened' = {c \in 1..ConnBound : net'[c] # "none"}
    BY DEF Opened
  <2>3. ASSUME Dialled
        PROVE  Opened' = Opened \cup {Fresh}
    BY <2>1, <2>2, <2>3 DEF Dialled, TypeOK
  <2> QED
    BY <2>1, <2>2, <2>3
<1>3. \E k \in 0..ConnBound : Opened' = 1..k
  BY <1>2, OpenedStep DEF Conns
<1>4. \A i \in Slots : slot'[i] \in Opened'
  BY ZenonT(40), <1>1, <1>2, SlotStep DEF Conns, TypeOK
<1>5. /\ net \in [1..ConnBound -> Nets] /\ alive \in [1..ConnBound -> BOOLEAN]
      /\ \A c \in 1..ConnBound : alive[c] => c \in Opened
      /\ \A c \in Opened : alive[c] \/ net[c] = "broken"
  BY DEF TypeOK, Conns
<1>6. /\ \A c \in 1..ConnBound : alive'[c] => c \in Opened'
      /\ \A c \in Opened' : alive'[c] \/ net'[c] = "broken"
  <2>1. CASE Dialled
    <3>1. net' = [net EXCEPT ![Fresh] = "up"] /\ alive' = [alive EXCEPT ![Fresh] = TRUE] /\ Fresh \in 1..ConnBound
      BY <1>2, <2>1 DEF Dialled
    <3> QED
      BY <1>1, <1>2, <1>5, <3>1
  <2>2. ASSUME NEW d \in Opened, WriterEnds(d)
        PROVE  <1>6!:
    BY <1>1, <1>2, <1>5, <2>2 DEF WriterEnds
  <2>3. ASSUME NEW c \in Opened, net[c] # "broken", NEW n \in Nets \ {"none"}, net' = [net EXCEPT ![c] = n], UNCHANGED alive
        PROVE  <1>6!:
    BY <1>1, <1>2, <1>5, <2>3
  <2>4. CASE UNCHANGED connVars
    BY <1>1, <1>2, <1>5, <2>4 DEF connVars
  <2>5. ASSUME NEW c \in Opened, net[c] = "broken", net' = [net EXCEPT ![c] = "broken"], UNCHANGED alive
        PROVE  <1>6!:
    BY <1>1, <1>2, <1>5, <2>5
  <2>6. ASSUME NEW t \in Tasks, Closed(t)
        PROVE  <1>6!:
    <3>1. call[t].conn \in Opened
      BY <2>6 DEF Closed, Conns, Requests, Asking
    <3>2. CASE net[call[t].conn] = "reset"
      BY <2>3, <2>6, <3>1, <3>2 DEF Closed, Nets
    <3>3. CASE net[call[t].conn] = "broken"
      BY <2>5, <2>6, <3>1, <3>3 DEF Closed, Nets
    <3>4. CASE net[call[t].conn] \in {"up", "lost", "none"}
      <4>1. net' = net /\ UNCHANGED alive
        BY <1>5, <2>6, <3>1, <3>4 DEF Closed
      <4> QED
        BY <2>4, <4>1 DEF connVars
    <3> QED
      BY <1>2, <1>5, <3>1, <3>2, <3>3, <3>4 DEF Nets
  <2>7. CASE Loss \/ Reset
    BY <2>3, <2>7 DEF Loss, Reset, Gone, Nets
  <2>8. CASE Close
    <3>1. slot[closing + 1] \in Opened
      BY <2>8, SlotsAre, ReconnectAssumption DEF Close, TypeOK, Conns
    <3> QED
      BY <2>3, <2>4, <2>8, <3>1 DEF Close, Gone, Nets
  <2> QED
    BY ZenonT(40), <2>1, <2>2, <2>4, <2>6, <2>7, <2>8
       DEF Next, TaskStep, vars, connVars, Execute, AnswerLost, Begun, QueryLost, Locked, Stored, Ended, AtomicEnds,
       Return, Scan, PooledLost, Call, Get, Refused, Writer, Look, Replaced, NotReplaced, DialRefused
<1>7. ASSUME NEW u \in Tasks
      PROVE  /\ pc'[u] \in Asking => call'[u].conn \in Opened'
             /\ call'[u].kind = "atomic" => call'[u].guard \in Opened'
  <2>1. /\ pc[u] \in Asking => call[u].conn \in Opened'
        /\ call[u].kind = "atomic" => call[u].guard \in Opened'
        /\ slot[1] \in Opened'
    BY <1>1, SlotsAre DEF Conns
  <2>2. CASE ~(TaskStep(u) \/ Call(u) \/ Get(u) \/ Refused(u))
    <3>1. call'[u].conn = call[u].conn /\ call'[u].kind = call[u].kind /\ call'[u].guard = call[u].guard
      BY ZenonT(40), <2>2, OthersStep DEF TypeOK
    <3> QED
      BY <2>1, <2>2, <3>1, OthersStep
  <2>3. CASE Execute(u)
    <3>1. /\ call'[u].conn = call[u].conn /\ call'[u].kind = call[u].kind /\ call'[u].guard = call[u].guard
          /\ pc[u] \in Asking
      BY <2>3 DEF Execute, TypeOK, Requests, Asking
    <3> QED
      BY <2>1, <3>1
  <2>4. CASE Closed(u) \/ AnswerLost(u)
    BY <2>1, <2>4, AskStep, Tables DEF Closed, AnswerLost, Asking
  <2>5. CASE Begun(u)
    BY <2>1, <2>5 DEF Begun, Sends, TypeOK
  <2>6. CASE Stored(u)
    BY <2>1, <1>2, <2>6 DEF Stored, TypeOK
  <2>7. CASE Scan(u)
    <3>1. slot[((call[u].start + call[u].tries) % Size) + 1] \in Opened'
      <4>1. over = "pool" /\ call[u].start \in Nat /\ call[u].tries \in Nat
        BY <2>7 DEF Scan, Dialling, TypeOK
      <4>2. ((call[u].start + call[u].tries) % Size) + 1 \in 1..Size
        BY <4>1, ReconnectAssumption
      <4> QED
        BY <1>1, <4>1, <4>2, SlotsAre DEF Conns
    <3>2. CASE UNCHANGED pc
      <4>1. pc[u] = "scan" /\ call'[u].kind = call[u].kind /\ call'[u].guard = call[u].guard
        BY <2>7, <3>2 DEF Scan, At, Sends, TypeOK
      <4> QED
        BY <2>1, <3>2, <4>1 DEF Asking
    <3>3. CASE ~UNCHANGED pc
      BY ZenonT(40), <2>1, <2>7, <3>1, <3>3 DEF Scan, Sends, TypeOK
    <3> QED
      BY <3>2, <3>3
  <2>8. CASE Call(u)
    <3>1. PICK k \in {"query", "atomic", "retried"} :
            call' = [call EXCEPT ![u] = [NoCall EXCEPT !.kind = k, !.conn = slot[1], !.guard = slot[1]]]
      BY <2>8 DEF Call
    <3>2. call'[u].conn = slot[1] /\ call'[u].guard = slot[1]
      BY <3>1 DEF TypeOK, NoCall
    <3> QED
      BY <2>1, <3>2
  <2>9. CASE Get(u) \/ Return(u)
    <3>1. pc'[u] \in {"scan", "idle"} /\ call'[u].kind \in {None, "pooled"}
      <4>1. /\ NoCall.kind = None
            /\ [NoCall EXCEPT !.kind = "pooled", !.start = counter % Size].kind = "pooled"
        BY DEF NoCall
      <4>2. CASE Get(u)
        BY <4>1, <4>2 DEF Get, At, TypeOK
      <4>3. CASE Return(u)
        BY <4>1, <4>3 DEF Return, At, TypeOK
      <4> QED
        BY <2>9, <4>2, <4>3
    <3>2. None # "atomic"
      BY ReconnectAssumption
    <3>3. call'[u].kind # "atomic" /\ pc'[u] \notin Asking
      BY <3>1, <3>2 DEF Asking
    <3> QED
      BY <3>3
  <2>10. CASE Locked(u)
    <3>1. call'[u].guard = call[u].guard /\ call'[u].kind = call[u].kind
      BY ZenonT(40), <2>10, LockedStep DEF TypeOK
    <3>2. pc'[u] \in Asking => call'[u].conn = slot[1]
      BY ZenonT(40), <2>10, LockedStep DEF TypeOK, Asking
    <3> QED
      BY <2>1, <3>1, <3>2
  <2>11. CASE Refused(u) \/ QueryLost(u) \/ PooledLost(u) \/ AtomicEnds(u)
    BY ZenonT(40), <2>1, <2>11 DEF Refused, QueryLost, PooledLost, AtomicEnds, At, TypeOK, Asking
  <2>12. CASE Ended(u)
    <3>1. call'[u].guard = call[u].guard /\ call'[u].kind = call[u].kind
      BY ZenonT(40), <2>12, EndedStep DEF TypeOK
    <3>2. \/ call[u].kind = "atomic" /\ call'[u].conn = call[u].guard
          \/ call'[u].conn = slot[1]
          \/ pc'[u] \in {"ok", "error"}
      <4>1. /\ call[u] \in [kind : Kinds, guard : 1..ConnBound \cup {None}, conn : 1..ConnBound \cup {None},
                           second : BOOLEAN, tries : Nat, start : Nat, ran : Nat, met : Nat]
        BY DEF TypeOK
      <4>2. CASE call[u].kind = "atomic" /\ call'[u] = [call[u] EXCEPT !.conn = call[u].guard]
        BY <4>1, <4>2
      <4>3. CASE call'[u] = [call[u] EXCEPT !.tries = @ + 1, !.second = FALSE, !.conn = slot[1]]
        BY <4>1, <4>3
      <4> QED
        BY <2>12, <4>2, <4>3, EndedStep
    <3>3. pc'[u] \in {"ok", "error"} => pc'[u] \notin Asking
      BY DEF Asking
    <3> QED
      BY <2>1, <3>1, <3>2, <3>3
  <2> QED
    BY <2>2, <2>3, <2>4, <2>5, <2>6, <2>7, <2>8, <2>9, <2>10, <2>11, <2>12 DEF TaskStep
<1> QED
  BY <1>1, <1>3, <1>4, <1>6, <1>7 DEF Conns

-----------------------------------------------------------------------------
(* The executions of a statement.                                          *)

\* A call that goes on keeps what it has counted, but for an execution or a refusal.
LEMMA CountStep ==
  ASSUME TypeOK, NEW t \in Tasks, TaskStep(t) \/ Refused(t), pc[t] \notin {"ok", "error"}
  PROVE  /\ call'[t].kind = call[t].kind /\ call'[t].guard = call[t].guard
         /\ call'[t].ran = IF pc[t] = "query" /\ Execute(t) THEN call[t].ran + 1 ELSE call[t].ran
         /\ call'[t].met = IF Refused(t) THEN call[t].met + 1 ELSE call[t].met
<1>1. /\ call[t] \in [kind : Kinds, guard : 1..ConnBound \cup {None}, conn : 1..ConnBound \cup {None},
                      second : BOOLEAN, tries : Nat, start : Nat, ran : Nat, met : Nat]
      /\ call \in [Tasks -> [kind : Kinds, guard : 1..ConnBound \cup {None}, conn : 1..ConnBound \cup {None},
                             second : BOOLEAN, tries : Nat, start : Nat, ran : Nat, met : Nat]]
  BY DEF TypeOK
<1>2. Execute(t) \/ Refused(t) => (Execute(t) <=> ~Refused(t))
  BY DEF Execute, Refused, Requests
<1>3. CASE Execute(t)
  BY <1>1, <1>2, <1>3 DEF Execute
<1>4. CASE Refused(t)
  <2>1. pc[t] # "query"
    BY <1>4 DEF Refused
  <2> QED
    BY <1>1, <1>4, <2>1 DEF Refused
<1>5. CASE ~Execute(t) /\ ~Refused(t)
  <2>1. CASE Ended(t)
    <3>1. CASE call'[t] = [call[t] EXCEPT !.conn = call[t].guard]
      BY <1>1, <1>5, <3>1
    <3>2. CASE call'[t] = [call[t] EXCEPT !.tries = @ + 1, !.second = FALSE, !.conn = slot[1]]
      BY <1>1, <1>5, <3>2
    <3> QED
      BY <1>5, <2>1, <3>1, <3>2, EndedStep
  <2>2. CASE Locked(t) \/ Scan(t) \/ Stored(t) \/ Begun(t)
    BY <1>1, <1>5, <2>2 DEF Locked, Scan, Stored, Begun, Sends
  <2>3. CASE UNCHANGED call
    BY <1>5, <2>3
  <2> QED
    BY <1>5, <2>1, <2>2, <2>3 DEF TaskStep, Closed, AnswerLost, QueryLost, AtomicEnds, PooledLost, Return
<1> QED
  BY <1>3, <1>4, <1>5

\* A new call, and none.
LEMMA StartStep ==
  ASSUME TypeOK, NEW t \in Tasks
  PROVE  /\ Call(t) => /\ pc[t] = "idle" /\ over = "client" /\ pc'[t] \in {"begin", "query"}
                       /\ call'[t].kind \in {"query", "atomic", "retried"}
                       /\ call'[t].kind = "atomic" <=> pc'[t] = "begin"
                       /\ call'[t].conn = slot[1] /\ call'[t].guard = slot[1]
                       /\ call'[t].ran = 0 /\ call'[t].met = 0 /\ UNCHANGED <<slot, connVars>>
         /\ Get(t) => /\ pc[t] = "idle" /\ over = "pool" /\ pc'[t] = "scan" /\ call'[t].kind = "pooled"
                      /\ call'[t].ran = 0 /\ call'[t].met = 0
         /\ Return(t) => /\ pc[t] \in {"ok", "error"} /\ pc'[t] = "idle" /\ call'[t] = NoCall
<1>1. \A p : At(t, p) => pc'[t] = p
  BY DEF At, TypeOK
<1>2. ASSUME Call(t)
      PROVE  /\ pc[t] = "idle" /\ over = "client" /\ pc'[t] \in {"begin", "query"}
             /\ call'[t].kind \in {"query", "atomic", "retried"}
             /\ call'[t].kind = "atomic" <=> pc'[t] = "begin"
             /\ call'[t].conn = slot[1] /\ call'[t].guard = slot[1]
             /\ call'[t].ran = 0 /\ call'[t].met = 0 /\ UNCHANGED <<slot, connVars>>
  <2>1. PICK k \in {"query", "atomic", "retried"} :
          /\ call' = [call EXCEPT ![t] = [NoCall EXCEPT !.kind = k, !.conn = slot[1], !.guard = slot[1]]]
          /\ At(t, IF k = "atomic" THEN "begin" ELSE "query")
    BY <1>2 DEF Call
  <2>2. call'[t] = [NoCall EXCEPT !.kind = k, !.conn = slot[1], !.guard = slot[1]]
    BY <2>1 DEF TypeOK
  <2>3. /\ call'[t].kind = k /\ call'[t].conn = slot[1] /\ call'[t].guard = slot[1]
        /\ call'[t].ran = 0 /\ call'[t].met = 0
    BY <2>2 DEF NoCall
  <2>4. pc'[t] = IF k = "atomic" THEN "begin" ELSE "query"
    BY <1>1, <2>1
  <2>5. pc[t] = "idle" /\ over = "client" /\ UNCHANGED <<slot, connVars>>
    BY <1>2 DEF Call, Rest
  <2> QED
    BY <2>1, <2>3, <2>4, <2>5
<1>3. ASSUME Get(t)
      PROVE  /\ pc[t] = "idle" /\ over = "pool" /\ pc'[t] = "scan" /\ call'[t].kind = "pooled"
             /\ call'[t].ran = 0 /\ call'[t].met = 0
  <2>1. call'[t] = [NoCall EXCEPT !.kind = "pooled", !.start = counter % Size]
    BY <1>3 DEF Get, TypeOK
  <2>2. call'[t].kind = "pooled" /\ call'[t].ran = 0 /\ call'[t].met = 0
    BY <2>1 DEF NoCall
  <2> QED
    BY <1>1, <1>3, <2>2 DEF Get
<1>4. Return(t) => pc[t] \in {"ok", "error"} /\ pc'[t] = "idle" /\ call'[t] = NoCall
  BY <1>1 DEF Return, TypeOK
<1> QED
  BY <1>2, <1>3, <1>4

\* Where a step of a task leads.
LEMMA StageStep ==
  ASSUME TypeOK, NEW t \in Tasks
  PROVE  /\ Begun(t) => pc[t] = "begun" /\ net[call[t].conn] = "up" /\ pc'[t] = "query" /\ call'[t].conn = slot[1]
         /\ QueryLost(t) => over = "client" /\ pc[t] = "no query" /\ pc'[t] \in {"failed", "lock"}
         /\ Stored(t) => pc[t] = "dial" /\ pc'[t] = "query"
         /\ Refused(t) => pc[t] = "dial" /\ pc'[t] = "failed"
         /\ Scan(t) => pc[t] = "scan" /\ pc'[t] \in {"scan", "query"}
         /\ PooledLost(t) => pc[t] = "no query" /\ pc'[t] = "error"
         /\ AtomicEnds(t) => /\ pc[t] \in {"committed", "rolledback", "no begin", "no commit", "no rollback"}
                             /\ pc'[t] \in {"ok", "error"}
<1>1. \A p : At(t, p) => pc'[t] = p
  BY DEF At, TypeOK
<1>2. Begun(t) => call'[t].conn = slot[1]
  BY DEF Begun, Sends, TypeOK
<1>3. Scan(t) => pc[t] = "scan" /\ pc'[t] \in {"scan", "query"}
  BY <1>1 DEF Scan, Sends
<1>4. AtomicEnds(t) => /\ pc[t] \in {"committed", "rolledback", "no begin", "no commit", "no rollback"}
                       /\ pc'[t] \in {"ok", "error"}
  BY <1>1 DEF AtomicEnds
<1> QED
  BY <1>1, <1>2, <1>3, <1>4 DEF Begun, QueryLost, Stored, Refused, PooledLost, Sends

LEMMA CallType ==
  ASSUME TypeOK, NEW t \in Tasks
  PROVE  /\ call[t].ran \in Nat /\ call[t].met \in Nat /\ pc[t] \in Stages
BY DEF TypeOK

LEMMA PaidStep ==
  ASSUME TypeOK, Conns, Dialling, [Next]_vars, NEW u \in Tasks, Paid(u)
  PROVE  Paid(u)'
<1> DEFINE Before == {"scan", "begin", "begun", "query", "no query", "lock", "dial", "failed"}
<1>1. call[u].ran \in Nat /\ call[u].met \in Nat
  BY CallType
<1>2. /\ call[u].ran <= 1 + call[u].met
      /\ pc[u] \in Before => call[u].ran <= call[u].met
      /\ pc[u] = "queried" /\ net[call[u].conn] # "up" => call[u].ran <= call[u].met
  BY DEF Paid
<1> SUFFICES /\ call'[u].ran <= 1 + call'[u].met
             /\ pc'[u] \in Before => call'[u].ran <= call'[u].met
             /\ pc'[u] = "queried" /\ net'[call'[u].conn] # "up" => call'[u].ran <= call'[u].met
  BY DEF Paid
<1>3. CASE ~(TaskStep(u) \/ Call(u) \/ Get(u) \/ Refused(u))
  <2>1. pc'[u] = pc[u]
    BY <1>3, OthersStep
  <2>2. CASE call'[u] = [call[u] EXCEPT !.met = @ + 1]
    <3>1. call'[u].ran = call[u].ran /\ call'[u].met = call[u].met + 1 /\ call'[u].conn = call[u].conn
      BY <2>2 DEF TypeOK
    <3>a. call[u].ran <= 1 + call[u].met
      BY <1>2
    <3>2. call[u].ran <= call[u].met + 1 /\ call[u].met + 1 <= 1 + (call[u].met + 1)
      BY <1>1, <3>a
    <3>3. call'[u].ran <= call'[u].met /\ call'[u].ran <= 1 + call'[u].met
      BY <1>1, <3>1, <3>2
    <3> QED
      BY <3>3
  <2>3. CASE call'[u] = call[u]
    <3>1. ASSUME pc[u] = "queried", net[call[u].conn] = "up", net'[call[u].conn] # "up"
          PROVE  call'[u].met # call[u].met
      <4>1. call[u].conn \in Opened
        BY <3>1 DEF Conns, Asking
      <4>2. call' = Hit
        BY <3>1, <4>1, LossMet
      <4>3. call'[u].met = call[u].met + 1
        BY <3>1, <4>2 DEF Hit, TypeOK
      <4> QED
        BY <1>1, <4>3
    <3> QED
      BY <1>2, <2>1, <2>3, <3>1
  <2> QED
    BY <1>3, <2>2, <2>3, OthersStep
<1>4. CASE Call(u) \/ Get(u)
  <2>1. call'[u].ran = 0 /\ call'[u].met = 0
    BY <1>4, StartStep
  <2> QED
    BY <2>1
<1>5. CASE Return(u)
  <2>1. pc'[u] = "idle" /\ call'[u].ran = 0 /\ call'[u].met = 0
    BY <1>5, StartStep DEF NoCall
  <2> QED
    BY <2>1
<1>6. ASSUME TaskStep(u) \/ Refused(u), ~Return(u), pc[u] \notin {"ok", "error"}
      PROVE  /\ call'[u].ran = IF pc[u] = "query" /\ Execute(u) THEN call[u].ran + 1 ELSE call[u].ran
             /\ call'[u].met = IF Refused(u) THEN call[u].met + 1 ELSE call[u].met
  BY <1>6, CountStep
<1>7. CASE Execute(u)
  <2>1. pc[u] \in Requests /\ pc'[u] = Executed[pc[u]] /\ pc[u] \notin {"ok", "error"} /\ ~Refused(u)
    BY <1>7, AskStep DEF Requests, Refused
  <2>2. CASE pc[u] = "query"
    <3>1. call'[u].conn = call[u].conn /\ net' = net /\ net[call[u].conn] = "up"
      BY <1>7 DEF Execute, TypeOK, connVars
    <3>2. pc'[u] = "queried" /\ call'[u].ran = call[u].ran + 1 /\ call'[u].met = call[u].met
      BY <1>6, <1>7, <2>1, <2>2, Tables DEF TaskStep, Return
    <3> QED
      BY <1>1, <1>2, <2>2, <3>1, <3>2
  <2>3. CASE pc[u] # "query"
    <3>1. pc'[u] # "queried" /\ pc'[u] \in Before => pc[u] = "begin"
      BY <2>1, <2>3, Tables DEF Requests
    <3>2. pc'[u] # "queried"
      BY <2>1, <2>3, Tables
    <3>3. call'[u].ran = call[u].ran /\ call'[u].met = call[u].met
      BY <1>6, <1>7, <2>1, <2>3 DEF TaskStep, Return
    <3> QED
      BY <1>2, <3>1, <3>2, <3>3
  <2> QED
    BY <2>2, <2>3
<1>8. CASE Closed(u)
  <2>1. pc[u] \in Requests /\ pc'[u] = Lost[pc[u]] /\ UNCHANGED call
    BY <1>8, AskStep DEF Closed
  <2>2. pc'[u] \in Before => pc[u] = "query"
    BY <2>1, Tables
  <2>3. pc'[u] # "queried"
    BY <2>1, Tables
  <2> QED
    BY <1>2, <2>1, <2>2, <2>3
<1>9. CASE AnswerLost(u)
  <2>1. PICK q \in Requests : pc[u] = Executed[q] /\ pc'[u] = Lost[q]
    BY <1>9, AskStep
  <2>2. net[call[u].conn] # "up" /\ UNCHANGED call
    BY <1>9 DEF AnswerLost
  <2>3. pc'[u] \in Before => pc[u] = "queried"
    BY <2>1, Tables
  <2>4. pc'[u] # "queried"
    BY <2>1, Tables
  <2> QED
    BY <1>2, <2>1, <2>2, <2>3, <2>4
<1>10. CASE Begun(u) \/ QueryLost(u) \/ Stored(u) \/ Locked(u) \/ Scan(u)
  <2>1. pc[u] \in Before \ {"query"} /\ pc'[u] # "queried" /\ ~Refused(u) /\ ~Return(u) /\ pc[u] \notin {"ok", "error"}
    <3>1. pc[u] \in {"begun", "no query", "dial", "lock", "scan"} /\ pc'[u] # "queried"
      BY <1>10, StageStep, LockedStep
    <3>2. ~Refused(u)
      BY <1>10, <3>1, StageStep, LockedStep DEF Refused, Stored, Rest
    <3> QED
      BY <3>1, <3>2 DEF Return
  <2>2. call'[u].ran = call[u].ran /\ call'[u].met = call[u].met
    BY <1>6, <1>10, <2>1 DEF TaskStep
  <2> QED
    BY <1>2, <2>1, <2>2
<1>11. CASE Refused(u)
  <2>1. pc[u] = "dial" /\ pc'[u] = "failed"
    BY <1>11, StageStep
  <2>2. call'[u].ran = call[u].ran /\ call'[u].met = call[u].met + 1
    BY <1>6, <1>11, <2>1 DEF Return
  <2> QED
    BY <1>1, <1>2, <2>1, <2>2
<1>12. CASE Ended(u)
  <2>1. pc[u] \in {"queried", "failed"} /\ pc'[u] \in {"commit", "rollback", "query", "ok", "error"}
    BY <1>12, EndedStep
  <2>2. pc'[u] = "query" => pc[u] = "failed"
    BY <1>12, EndedStep
  <2>3. call'[u].ran = call[u].ran /\ call'[u].met = call[u].met
    BY <1>6, <1>12, <2>1 DEF TaskStep, Return, Refused
  <2> QED
    BY <1>2, <2>1, <2>2, <2>3
<1>13. CASE AtomicEnds(u) \/ PooledLost(u)
  <2>1. UNCHANGED call /\ pc'[u] \in {"ok", "error"}
    BY <1>13, StageStep DEF AtomicEnds, PooledLost
  <2> QED
    BY <1>2, <2>1
<1> QED
  BY <1>3, <1>4, <1>5, <1>7, <1>8, <1>9, <1>10, <1>11, <1>12, <1>13 DEF TaskStep

LEMMA PooledStep ==
  ASSUME TypeOK, Conns, Dialling, [Next]_vars, NEW u \in Tasks, PooledOnce(u)
  PROVE  PooledOnce(u)'
<1> SUFFICES ASSUME call'[u].kind = "pooled"
             PROVE  /\ over' = "pool"
                    /\ pc'[u] \in {"scan", "query", "queried", "no query", "ok", "error"}
                    /\ call'[u].ran <= IF pc'[u] \in {"scan", "query"} THEN 0 ELSE 1
  BY DEF PooledOnce
<1>1. over' = over /\ call[u].ran \in Nat
  BY SocketStep, CallType
<1>2. call[u].kind = "pooled" =>
        /\ over = "pool"
        /\ pc[u] \in {"scan", "query", "queried", "no query", "ok", "error"}
        /\ call[u].ran <= IF pc[u] \in {"scan", "query"} THEN 0 ELSE 1
  BY DEF PooledOnce
<1>3. CASE ~(TaskStep(u) \/ Call(u) \/ Get(u) \/ Refused(u))
  <2>1. pc'[u] = pc[u] /\ call'[u].ran = call[u].ran /\ call'[u].kind = call[u].kind
    BY <1>3, OthersStep DEF TypeOK
  <2> QED
    BY <1>1, <1>2, <2>1
<1>4. CASE Call(u) \/ Get(u)
  <2>1. ~Call(u)
    BY StartStep
  <2>2. over = "pool" /\ pc'[u] = "scan" /\ call'[u].ran = 0
    BY <1>4, <2>1, StartStep
  <2> QED
    BY <1>1, <2>2
<1>5. CASE Return(u)
  <2>1. call'[u].kind = None
    BY <1>5, StartStep DEF NoCall
  <2> QED
    BY <2>1, ReconnectAssumption
<1>6. CASE (TaskStep(u) \/ Refused(u)) /\ ~Return(u)
  <2>1. pc[u] \notin {"ok", "error"}
    <3>1. Execute(u) \/ Closed(u) => pc[u] \in Requests
      BY AskStep
    <3>2. AnswerLost(u) => pc[u] \in {"begun", "queried", "committed", "rolledback"}
      BY AskStep, Tables
    <3> QED
      BY <1>6, <3>1, <3>2, StageStep, EndedStep, LockedStep DEF TaskStep, Requests
  <2>2. /\ call[u].kind = "pooled"
        /\ call'[u].ran = IF pc[u] = "query" /\ Execute(u) THEN call[u].ran + 1 ELSE call[u].ran
    BY <1>6, <2>1, CountStep
  <2>3. over = "pool" /\ pc[u] \in {"scan", "query", "queried", "no query"}
    BY <1>2, <2>1, <2>2
  <2>4. CASE pc[u] = "scan"
    <3>1. Scan(u)
      BY ZenonT(40), <1>6, <2>4, AskStep, StageStep, EndedStep, LockedStep, Tables DEF TaskStep, Requests
    <3> QED
      BY <1>1, <1>2, <2>2, <2>3, <2>4, <3>1, StageStep
  <2>5. CASE pc[u] = "query"
    <3>1. Execute(u) \/ Closed(u)
      BY ZenonT(40), <1>6, <2>5, AskStep, StageStep, EndedStep, LockedStep, Tables DEF TaskStep
    <3>2. pc'[u] \in {"queried", "no query"}
      <4>1. "query" \in Requests
        BY DEF Requests
      <4>2. Executed["query"] = "queried" /\ Lost["query"] = "no query"
        BY <4>1, Tables DEF Executed, Lost
      <4> QED
        BY <2>5, <3>1, <4>2, AskStep
    <3>3. call[u].ran = 0
      BY <1>1, <1>2, <2>2, <2>5
    <3>4. call'[u].ran \in {0, 1}
      BY <2>2, <3>3
    <3>5. pc'[u] \notin {"scan", "query"} /\ pc'[u] \in {"scan", "query", "queried", "no query", "ok", "error"}
      BY <3>2
    <3>6. call'[u].ran <= 1
      BY <3>4
    <3> QED
      BY <1>1, <2>3, <3>5, <3>6
  <2>6. CASE pc[u] \in {"queried", "no query"}
    <3>1. AnswerLost(u) \/ Ended(u) \/ PooledLost(u)
      <4>1. ~QueryLost(u)
        BY <2>3, StageStep
      <4>2. ~Execute(u) /\ ~Closed(u)
        BY <2>6, AskStep DEF Requests
      <4>3. ~Begun(u) /\ ~Stored(u) /\ ~Refused(u) /\ ~Scan(u) /\ ~AtomicEnds(u) /\ ~Locked(u)
        BY <2>6, StageStep, LockedStep
      <4> QED
        BY <1>6, <4>1, <4>2, <4>3 DEF TaskStep
    <3>2. pc'[u] \in {"no query", "ok", "error"}
      <4>1. AnswerLost(u) => pc'[u] = "no query"
        <5>1. ASSUME AnswerLost(u)
              PROVE  pc'[u] = "no query"
          <6>1. PICK q \in Requests : pc[u] = Executed[q] /\ pc'[u] = Lost[q]
            BY <5>1, AskStep
          <6>2. q = "query"
            BY <2>6, <6>1, Tables
          <6> QED
            BY <6>1, <6>2, Tables
        <5> QED
          BY <5>1
      <4>2. Ended(u) => pc'[u] \in {"ok", "error"}
        BY <2>2, EndedStep
      <4> QED
        BY <3>1, <4>1, <4>2, StageStep
    <3>3. call'[u].ran = call[u].ran
      BY <2>2, <2>6
    <3> QED
      BY <1>1, <1>2, <2>2, <2>3, <2>6, <3>2, <3>3
  <2> QED
    BY <2>3, <2>4, <2>5, <2>6
<1> QED
  BY <1>3, <1>4, <1>5, <1>6 DEF TaskStep

LEMMA BoundStep ==
  ASSUME TypeOK, Conns, Dialling, [Next]_vars, NEW u \in Tasks, Bound(u)
  PROVE  Bound(u)'
<1> DEFINE Back == {"no query", "lock", "dial", "failed"}
<1>1. /\ pc[u] \in {"begin", "begun"} => call[u].kind = "atomic"
      /\ call[u].kind = "atomic" =>
         /\ pc[u] # "scan"
         /\ pc[u] \in {"begin", "begun"} =>
              /\ call[u].conn = call[u].guard
              /\ call[u].guard = slot[1] \/ ~alive[call[u].guard]
         /\ pc[u] \in {"query", "queried"} =>
              call[u].met > 0 \/ (call[u].conn = call[u].guard /\ net[call[u].conn] = "up")
         /\ pc[u] \in Back => call[u].met > 0
  BY DEF Bound
<1> SUFFICES /\ pc'[u] \in {"begin", "begun"} => call'[u].kind = "atomic"
             /\ call'[u].kind = "atomic" =>
                /\ pc'[u] # "scan"
                /\ pc'[u] \in {"begin", "begun"} =>
                     /\ call'[u].conn = call'[u].guard
                     /\ call'[u].guard = slot'[1] \/ ~alive'[call'[u].guard]
                /\ pc'[u] \in {"query", "queried"} =>
                     call'[u].met > 0 \/ (call'[u].conn = call'[u].guard /\ net'[call'[u].conn] = "up")
                /\ pc'[u] \in Back => call'[u].met > 0
  BY DEF Bound
<1>2. call[u].met \in Nat
  BY CallType
<1>3. /\ pc[u] \in Asking => call[u].conn \in Opened
      /\ call[u].kind = "atomic" => call[u].guard \in Opened
  BY DEF Conns
<1>4. ASSUME call[u].kind = "atomic"
      PROVE  call[u].guard = slot[1] \/ ~alive[call[u].guard] =>
               call[u].guard = slot'[1] \/ ~alive'[call[u].guard]
  <2>1. ASSUME slot'[1] # slot[1]
        PROVE  ~alive[slot[1]]
    <3>1. PICK i \in Slots : ~alive[slot[i]] /\ slot' = [slot EXCEPT ![i] = Fresh]
      BY <2>1, SlotStep
    <3>2. i = 1
      BY <2>1, <3>1, SlotsAre DEF TypeOK
    <3> QED
      BY <3>1, <3>2
  <2> QED
    BY <1>3, <1>4, <2>1, SocketStep
<1>5. CASE ~(TaskStep(u) \/ Call(u) \/ Get(u) \/ Refused(u))
  <2>1. /\ pc'[u] = pc[u] /\ call'[u].kind = call[u].kind /\ call'[u].conn = call[u].conn
        /\ call'[u].guard = call[u].guard /\ call'[u].met \in {call[u].met, call[u].met + 1}
    <3>1. CASE call'[u] = [call[u] EXCEPT !.met = @ + 1]
      <4>1. /\ call'[u].kind = call[u].kind /\ call'[u].conn = call[u].conn
            /\ call'[u].guard = call[u].guard /\ call'[u].met = call[u].met + 1
        BY <3>1 DEF TypeOK
      <4> QED
        BY <1>5, <4>1, OthersStep
    <3>2. CASE call'[u] = call[u]
      BY <1>5, <3>2, OthersStep
    <3> QED
      BY <1>5, <3>1, <3>2, OthersStep
  <2>2. call[u].met > 0 => call'[u].met > 0
    BY <1>2, <2>1
  <2>3. ASSUME pc[u] \in {"query", "queried"}, net[call[u].conn] = "up", net'[call[u].conn] # "up"
        PROVE  call'[u].met > 0
    <3>1. call[u].conn \in Opened
      BY <1>3, <2>3 DEF Asking
    <3>2. call' = Hit
      BY <2>3, <3>1, LossMet
    <3>3. call'[u].met = call[u].met + 1
      BY <2>3, <3>2 DEF Hit, TypeOK
    <3> QED
      BY <1>2, <3>3
  <2> QED
    BY <1>1, <1>4, <2>1, <2>2, <2>3
<1>6. CASE Call(u)
  <2>1. /\ pc'[u] \in {"begin", "query"} /\ (call'[u].kind = "atomic" <=> pc'[u] = "begin")
        /\ call'[u].conn = slot[1] /\ call'[u].guard = slot[1] /\ slot' = slot
    BY <1>6, StartStep
  <2> QED
    BY <2>1
<1>7. CASE Get(u) \/ Return(u)
  <2>1. /\ pc'[u] \in {"scan", "idle"} /\ call'[u].kind \in {"pooled", None}
    <3>1. Return(u) => call'[u].kind = None
      BY StartStep DEF NoCall
    <3> QED
      BY <1>7, <3>1, StartStep
  <2>2. call'[u].kind # "atomic"
    BY <2>1, ReconnectAssumption
  <2> QED
    BY <2>1, <2>2
<1>8. ASSUME TaskStep(u) \/ Refused(u), pc[u] \notin {"ok", "error"}
      PROVE  /\ call'[u].kind = call[u].kind /\ call'[u].guard = call[u].guard
             /\ call'[u].met = call[u].met \/ call'[u].met = call[u].met + 1
  BY <1>8, CountStep
<1>9. CASE Execute(u)
  <2>1. pc[u] \in Requests /\ pc'[u] = Executed[pc[u]] /\ pc[u] \notin {"ok", "error"} /\ ~Refused(u)
    BY <1>9, AskStep DEF Requests, Refused
  <2>2. /\ call'[u].conn = call[u].conn /\ net' = net /\ alive' = alive /\ slot' = slot
        /\ call'[u].kind = call[u].kind /\ call'[u].guard = call[u].guard /\ call'[u].met = call[u].met
    BY <1>9 DEF Execute, TypeOK, connVars, Rest
  <2>3. /\ pc'[u] \in {"begin", "begun"} => pc[u] = "begin" /\ pc'[u] = "begun"
        /\ pc'[u] \in {"query", "queried"} => pc[u] = "query"
        /\ pc'[u] \notin Back /\ pc'[u] # "scan"
    BY <2>1, Tables
  <2>4. pc[u] = "begin" => call[u].kind = "atomic"
    BY DEF Bound
  <2> QED
    BY <1>1, <2>2, <2>3, <2>4
<1>10. CASE Closed(u)
  <2>1. pc[u] \in Requests /\ pc'[u] = Lost[pc[u]] /\ UNCHANGED call /\ net[call[u].conn] # "up"
    BY <1>10, AskStep DEF Closed
  <2>2. pc'[u] \in Back => pc[u] = "query"
    BY <2>1, Tables
  <2>3. pc'[u] \notin {"scan", "begin", "begun", "query", "queried"}
    BY <2>1, Tables
  <2> QED
    BY <1>1, <2>1, <2>2, <2>3
<1>11. CASE AnswerLost(u)
  <2>1. PICK q \in Requests : pc[u] = Executed[q] /\ pc'[u] = Lost[q]
    BY <1>11, AskStep
  <2>2. net[call[u].conn] # "up" /\ UNCHANGED call
    BY <1>11 DEF AnswerLost
  <2>3. pc'[u] \in Back => pc[u] = "queried"
    BY <2>1, Tables
  <2>4. pc'[u] \notin {"scan", "begin", "begun", "query", "queried"}
    BY <2>1, Tables
  <2> QED
    BY <1>1, <2>1, <2>2, <2>3, <2>4
<1>12. CASE Begun(u)
  <2>1. /\ pc[u] = "begun" /\ net[call[u].conn] = "up" /\ pc'[u] = "query" /\ call'[u].conn = slot[1]
        /\ ~Refused(u)
    BY <1>12, StageStep
  <2>2. call'[u].kind = call[u].kind /\ call'[u].guard = call[u].guard /\ net' = net
    BY <1>8, <1>12, <2>1 DEF TaskStep, Begun, connVars
  <2>3. call[u].guard = slot[1]
    <3>1. call[u].guard \in Opened /\ (call[u].guard = slot[1] \/ ~alive[call[u].guard])
      BY <1>1, <1>3, <2>1
    <3>2. net[call[u].guard] = "up"
      BY <1>1, <2>1
    <3> QED
      BY <3>1, <3>2 DEF Conns
  <2>4. call[u].conn = call[u].guard
    BY <1>1, <2>1
  <2> QED
    BY <2>1, <2>2, <2>3, <2>4
<1>13. CASE QueryLost(u) \/ Stored(u) \/ Locked(u) \/ Refused(u)
  <2>1. pc[u] \in Back /\ pc'[u] \in Back \cup {"query"}
    BY <1>13, StageStep, LockedStep
  <2>2. /\ call'[u].kind = call[u].kind
        /\ call'[u].met = call[u].met \/ call'[u].met = call[u].met + 1
    BY <1>8, <1>13, <2>1 DEF TaskStep
  <2>3. call'[u].kind = "atomic" => call'[u].met > 0
    <3>1. call[u].kind = "atomic" => call[u].met > 0
      BY <1>1, <2>1
    <3>2. call[u].met > 0 => call'[u].met > 0
      BY <1>2, <2>2
    <3> QED
      BY <2>2, <3>1, <3>2
  <2> QED
    BY <2>1, <2>3
<1>14. CASE Scan(u)
  <2>1. pc'[u] \in {"scan", "query"} /\ pc[u] = "scan" /\ call'[u].kind = call[u].kind
    BY <1>8, <1>14, StageStep DEF TaskStep
  <2>2. call[u].kind # "atomic"
    BY <2>1 DEF Bound
  <2> QED
    BY <2>1, <2>2
<1>15. CASE Ended(u)
  <2>1. pc[u] \in {"queried", "failed"} /\ pc'[u] \in {"commit", "rollback", "query", "ok", "error"}
    BY <1>15, EndedStep
  <2>2. pc'[u] = "query" => call'[u].kind = "retried"
    <3>1. pc'[u] = "query" => call[u].kind = "retried"
      BY <1>15, EndedStep
    <3> QED
      BY <1>8, <1>15, <2>1, <3>1 DEF TaskStep
  <2> QED
    BY <2>1, <2>2
<1>16. CASE AtomicEnds(u) \/ PooledLost(u)
  <2>1. pc'[u] \in {"ok", "error"}
    BY <1>16, StageStep
  <2> QED
    BY <2>1
<1> QED
  BY <1>5, <1>6, <1>7, <1>9, <1>10, <1>11, <1>12, <1>13, <1>14, <1>15, <1>16 DEF TaskStep

-----------------------------------------------------------------------------
LEMMA InvInit == Init => Inv
<1> SUFFICES ASSUME Init
             PROVE  Inv
  OBVIOUS
<1>1. /\ over \in {"client", "pool"} /\ Slots \subseteq 1..Size /\ Slots \subseteq 1..ConnBound
      /\ Size \in Nat /\ ConnBound \in Nat
  BY ReconnectAssumption DEF Init, Slots
<1>2. TypeOK
  <2>1. NoCall \in [kind : Kinds, guard : 1..ConnBound \cup {None}, conn : 1..ConnBound \cup {None},
                    second : BOOLEAN, tries : Nat, start : Nat, ran : Nat, met : Nat]
    BY DEF NoCall, Kinds
  <2>2. call = [t \in Tasks |-> NoCall]
    BY DEF Init
  <2>3. \A c \in 1..ConnBound : (IF c \in Slots THEN "up" ELSE "none") \in Nets /\ (c \in Slots) \in BOOLEAN
    BY DEF Nets
  <2>4. /\ net = [c \in 1..ConnBound |-> IF c \in Slots THEN "up" ELSE "none"]
        /\ alive = [c \in 1..ConnBound |-> c \in Slots] /\ slot = [i \in Slots |-> i]
    BY DEF Init
  <2>5. pc \in [Tasks -> Stages]
    BY DEF Init, Stages
  <2>6. /\ net \in [1..ConnBound -> Nets] /\ alive \in [1..ConnBound -> BOOLEAN]
        /\ slot \in [Slots -> 1..ConnBound]
    BY <1>1, <2>3, <2>4
  <2>7. mon \in [i : 0..Size, dials : BOOLEAN]
    BY <1>1 DEF Init
  <2> QED
    BY <1>1, <2>1, <2>2, <2>5, <2>6, <2>7 DEF TypeOK, Init
<1>3. Opened = Slots
  BY <1>1 DEF Opened, Init
<1>4. Conns
  <2>1. \E k \in 0..ConnBound : Opened = 1..k
    BY <1>1, <1>3, ReconnectAssumption DEF Slots
  <2>2. \A i \in Slots : slot[i] \in Opened
    BY <1>3 DEF Init
  <2>3. \A t \in Tasks : pc[t] = "idle" /\ call[t].kind = None
    BY DEF Init, NoCall
  <2>4. None # "atomic"
    BY ReconnectAssumption
  <2>5. /\ \A c \in 1..ConnBound : alive[c] => c \in Opened
        /\ \A c \in Opened : alive[c]
    BY <1>1, <1>3 DEF Init
  <2> QED
    BY <2>1, <2>2, <2>3, <2>4, <2>5 DEF Conns, Asking
<1>5. Dialling
  BY DEF Dialling, Init
<1>6. \A t \in Tasks : Paid(t) /\ PooledOnce(t) /\ Bound(t)
  <2>1. \A t \in Tasks : pc[t] = "idle" /\ call[t].kind = None /\ call[t].ran = 0 /\ call[t].met = 0
    BY DEF Init, NoCall
  <2>2. None # "atomic" /\ None # "pooled"
    BY ReconnectAssumption
  <2>3. 0 <= 1 + 0 /\ 0 <= 0
    OBVIOUS
  <2>4. \A t \in Tasks : Paid(t)
    BY <2>1, <2>3 DEF Paid
  <2> QED
    BY <2>1, <2>2, <2>4 DEF PooledOnce, Bound
<1> QED
  BY <1>2, <1>4, <1>5, <1>6 DEF Inv

LEMMA InvStep == Inv /\ [Next]_vars => Inv'
BY TypeStep, ConnsStep, DiallingStep, PaidStep, PooledStep, BoundStep DEF Inv

LEMMA InvHolds == Spec => []Inv
BY InvInit, InvStep, PTL DEF Spec

\* A statement is executed once, and once more for every loss its task has met; through
\* a pool once; and in atomic away from the connection of its transaction only after a
\* loss (reconnect.rs:126-137, retry.rs:83-105, executor.rs:436-459).
THEOREM ExecutionsPaidFor == Spec => []AgainOnlyAfterLoss
<1>1. Inv => AgainOnlyAfterLoss
  <2> SUFFICES ASSUME Inv, NEW t \in Tasks
               PROVE  /\ call[t].ran <= IF call[t].kind = "pooled" THEN 1 ELSE 1 + call[t].met
                      /\ (call[t].kind = "atomic" /\ pc[t] = "queried" /\ call[t].conn # call[t].guard)
                           => call[t].met > 0
    BY DEF AgainOnlyAfterLoss
  <2>1. TypeOK /\ Paid(t) /\ PooledOnce(t) /\ Bound(t)
    BY DEF Inv
  <2>2. call[t].ran \in Nat
    BY <2>1, CallType
  <2>3. ASSUME call[t].kind = "pooled"
        PROVE  call[t].ran <= 1
    <3>1. call[t].ran <= IF pc[t] \in {"scan", "query"} THEN 0 ELSE 1
      BY <2>1, <2>3 DEF PooledOnce
    <3> QED
      BY <2>2, <3>1
  <2>4. call[t].ran <= 1 + call[t].met
    BY <2>1 DEF Paid
  <2>5. (call[t].kind = "atomic" /\ pc[t] = "queried" /\ call[t].conn # call[t].guard) => call[t].met > 0
    BY <2>1 DEF Bound
  <2> QED
    BY <2>3, <2>4, <2>5
<1> QED
  BY <1>1, InvHolds, PTL

\* Of the tasks that notice a loss one reconnects and the others take what it has put
\* into the slot; the monitor replaces the slot it has looked at (reconnect.rs:106-123,
\* async_pool.rs:153-170, 251-262).
THEOREM LiveOnesStay == Spec => OnlyDeadReplaced
<1>1. Inv /\ [Next]_vars =>
        [\A i \in Slots : slot'[i] # slot[i] =>
           ~alive[slot[i]] /\ slot'[i] \notin Opened /\ \A j \in Slots \ {i} : slot'[j] = slot[j]]_vars
  <2> SUFFICES ASSUME Inv, [Next]_vars, NEW i \in Slots, slot'[i] # slot[i]
               PROVE  ~alive[slot[i]] /\ slot'[i] \notin Opened /\ \A j \in Slots \ {i} : slot'[j] = slot[j]
    OBVIOUS
  <2>1. TypeOK /\ Conns /\ Dialling
    BY DEF Inv
  <2>2. PICK k \in Slots : ~alive[slot[k]] /\ slot' = [slot EXCEPT ![k] = Fresh]
    BY <2>1, SlotStep
  <2>3. slot \in [Slots -> 1..ConnBound] /\ Fresh \notin Opened
    BY <2>1, FreshIsNew DEF TypeOK
  <2> QED
    BY <2>2, <2>3
<1> QED
  BY <1>1, InvHolds, PTL DEF Spec, OnlyDeadReplaced
=============================================================================
