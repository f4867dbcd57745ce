---------------------------- MODULE SessionProofs ----------------------------
(***************************************************************************)
(* What TLAPS proves of the sessions of a pooled connection, for any       *)
(* number of checkouts, calls and cancel requests: what a user finds, and  *)
(* what becomes of a transaction, whatever futures are dropped.            *)
(***************************************************************************)
EXTENDS SessionProperties, SequenceTheorems, TLAPS

-----------------------------------------------------------------------------
(* The shape of a state: types, where the holder's future stands, which    *)
(* request is waited for, and what an idle session looks like.             *)

Statements == Plain \cup Controls
Ends       == {"COMMIT", "ROLLBACK"}
Scopes     == Nat \ {0}
Requests   == [by : Nat, stmt : Statements, scope : Nat, awaited : BOOLEAN]
Responses  == [stmt : Statements, awaited : BOOLEAN, error : BOOLEAN, open : BOOLEAN]

HolderTyped ==
  /\ holder \in {"none", "client", "pool"}
  /\ pc \in {"ready", "sending", "waiting", "check", "reset"}
  /\ op \in Calls \cup {"reset", None}
  /\ visit \in Nat /\ calls \in Nat /\ scopes \in Nat /\ asked \in SUBSET Nat
  /\ kind \in {"none", "guard", "atomic"} /\ scope \in Seq(Scopes)

ServerTyped ==
  /\ txn \in {"idle", "open", "failed"} /\ begun \in Nat \cup {None}
  /\ dirty \in SUBSET Nat /\ saved \in [scope : Nat, dirty : SUBSET Nat]
  /\ effects \in SUBSET Nat /\ committed \in SUBSET Nat

FlagsTyped ==
  /\ mutated \in BOOLEAN /\ broken \in BOOLEAN /\ alive \in BOOLEAN /\ lost \in BOOLEAN
  /\ cancel \in BOOLEAN /\ struck \in BOOLEAN /\ abandoned \in BOOLEAN
  /\ rejected \in SUBSET {"BEGIN", "DISCARD"}

QueuesTyped == todo \in Seq(Requests) /\ answers \in Seq(Responses)

\* Where the holder's future can stand.
Standing ==
  /\ holder = "none"   => pc = "ready"
  /\ holder = "client" => pc \in {"ready", "sending", "waiting"} /\ op # "reset" /\ visit # 0
  /\ holder = "pool"   => pc # "ready" /\ (pc \in {"sending", "waiting"} => op = "reset")
  /\ (op = None) <=> (pc \notin {"sending", "waiting"})
  /\ holder # "client" => kind = "none"

\* How deep scopes are nested, and which calls are made at which depth.
Nested ==
  /\ kind = "none"   => scope = <<>>
  /\ kind = "atomic" => Len(scope) = 1
  /\ kind = "guard"  => Len(scope) \in {1, 2}
  /\ op \in {"begin", "atomic", "commit", "rollback"} => kind = "none"
  /\ op \in {"succeed", "fail"} => kind = "atomic"
  /\ op = "nest" => kind = "guard" /\ Len(scope) = 1
  /\ op \in {"release", "undo"} => kind = "guard" /\ Len(scope) = 2
  /\ op \in {"begin", "atomic", "nest"} => scopes # 0

\* One request is waited for, and it is the last.
Awaited ==
  /\ \A i \in 1..Len(todo) : todo[i].awaited =>
       pc = "waiting" /\ i = Len(todo) /\ todo[i].stmt = Stmt(op)
  /\ \A i \in 1..Len(answers) : answers[i].awaited =>
       pc = "waiting" /\ i = Len(answers) /\ Len(todo) = 0 /\ answers[i].stmt = Stmt(op)
  /\ pc = "waiting" /\ Len(todo) # 0 => todo[Len(todo)].awaited
  /\ \A i \in 1..Len(todo) : todo[i].stmt = "DISCARD" => todo[i].awaited

\* A dead socket has no session, and only ROLLBACKs of guards are still queued for it.
Dead ==
  /\ ~alive => lost
  /\ lost => /\ txn = "idle" /\ effects = {} /\ committed = {}
             /\ \A i \in 1..Len(todo) : todo[i].stmt = "ROLLBACK" /\ ~todo[i].awaited

\* A session without a transaction.
Idle ==
  /\ (txn = "idle") <=> (begun = None)
  /\ txn = "idle" => dirty = {} /\ saved = NoSavepoint

\* Whose a request is, and where: only the pool sends DISCARD ALL, and savepoints have numbers.
SavepointStmts == {"SAVEPOINT", "RELEASE", "ROLLBACK TO"}
Signed ==
  \A i \in 1..Len(todo) :
    /\ todo[i].stmt \in SavepointStmts => todo[i].scope # 0
    /\ (todo[i].by = 0) <=> (todo[i].stmt = "DISCARD")

Shape == /\ HolderTyped /\ ServerTyped /\ FlagsTyped /\ QueuesTyped
         /\ Standing /\ Nested /\ Awaited /\ Dead /\ Idle /\ Signed

-----------------------------------------------------------------------------
(* Sequences.                                                              *)

\* t is s with x behind it; t is s without its first; t is s, with nothing awaited.
Pushed(s, t, x) == Len(t) = Len(s) + 1 /\ t[Len(s) + 1] = x /\ \A i \in 1..Len(s) : t[i] = s[i]
Popped(s, t)    == Len(s) # 0 /\ Len(t) = Len(s) - 1 /\ \A i \in 1..Len(t) : t[i] = s[i + 1]
Quieted(s, t)   == Len(t) = Len(s) /\ \A i \in 1..Len(s) : t[i] = [s[i] EXCEPT !.awaited = FALSE]
Begins(s, t)    == Len(t) <= Len(s) /\ \A i \in 1..Len(t) : t[i] = s[i]

LEMMA AppendPushes ==
  ASSUME NEW S, NEW s \in Seq(S), NEW x \in S
  PROVE  Append(s, x) \in Seq(S) /\ Pushed(s, Append(s, x), x) /\ Len(s) \in Nat
BY AppendProperties, LenProperties DEF Pushed

LEMMA TailPops ==
  ASSUME NEW S, NEW s \in Seq(S), s # <<>>
  PROVE  Tail(s) \in Seq(S) /\ Popped(s, Tail(s)) /\ Head(s) = s[1] /\ s[1] \in S /\ Len(s) \in Nat \ {0}
<1>1. /\ Tail(s) \in Seq(S) /\ Len(Tail(s)) = Len(s) - 1
      /\ \A i \in 1..Len(Tail(s)) : Tail(s)[i] = s[i + 1]
  BY HeadTailProperties
<1>2. Len(s) \in Nat \ {0} /\ DOMAIN s = 1..Len(s)
  BY LenProperties, EmptySeq
<1>3. Head(s) = s[1] /\ s[1] \in S
  BY <1>2
<1> QED
  BY <1>1, <1>2, <1>3 DEF Popped

LEMMA EmptyLength ==
  ASSUME NEW S, NEW s \in Seq(S)
  PROVE  Len(s) \in Nat /\ (s = <<>> <=> Len(s) = 0) /\ DOMAIN s = 1..Len(s) /\ \A i \in 1..Len(s) : s[i] \in S
BY LenProperties, EmptySeq, ElementOfSeq

LEMMA QuietQuiets ==
  ASSUME NEW S, NEW s \in Seq(S), \A x \in S : [x EXCEPT !.awaited = FALSE] \in S
  PROVE  Quiet(s) \in Seq(S) /\ Quieted(s, Quiet(s))
<1>1. Len(s) \in Nat /\ DOMAIN s = 1..Len(s) /\ \A i \in 1..Len(s) : s[i] \in S
  BY EmptyLength
<1>2. Quiet(s) = [i \in 1..Len(s) |-> [s[i] EXCEPT !.awaited = FALSE]]
  BY <1>1 DEF Quiet
<1>3. \A i \in 1..Len(s) : Quiet(s)[i] = [s[i] EXCEPT !.awaited = FALSE]
  BY <1>2
<1>4. Quiet(s) \in [1..Len(s) -> S]
  BY <1>1, <1>2
<1>5. Quiet(s) \in Seq(S)
  BY <1>1, <1>4, IsASeq
<1>6. Len(Quiet(s)) = Len(s)
  BY <1>1, <1>4, <1>5, LenProperties
<1> QED
  BY <1>3, <1>5, <1>6 DEF Quieted

LEMMA PrefixBegins ==
  ASSUME NEW S, NEW s \in Seq(S), NEW k \in 0..Len(s)
  PROVE  SubSeq(s, 1, k) \in Seq(S) /\ Begins(s, SubSeq(s, 1, k))
<1>1. Len(s) \in Nat
  BY EmptyLength
<1>2. CASE k = 0
  <2>1. SubSeq(s, 1, k) = <<>>
    BY <1>2, SubSeqProperties
  <2> QED
    BY <1>1, <2>1, EmptySeq DEF Begins
<1>3. CASE k # 0
  <2>1. /\ SubSeq(s, 1, k) \in Seq(S) /\ Len(SubSeq(s, 1, k)) = k
        /\ \A i \in 1..k : SubSeq(s, 1, k)[i] = s[1 + i - 1]
    BY <1>1, <1>3, SubSeqProperties
  <2> QED
    BY <1>1, <2>1 DEF Begins
<1> QED
  BY <1>2, <1>3

LEMMA QuietTodo ==
  ASSUME QueuesTyped
  PROVE  /\ Quiet(todo) \in Seq(Requests) /\ Len(Quiet(todo)) = Len(todo)
         /\ \A i \in 1..Len(todo) :
              /\ Quiet(todo)[i].by = todo[i].by /\ Quiet(todo)[i].stmt = todo[i].stmt
              /\ Quiet(todo)[i].scope = todo[i].scope /\ ~Quiet(todo)[i].awaited
<1>1. \A x \in Requests : [x EXCEPT !.awaited = FALSE] \in Requests
  BY DEF Requests
<1>2. Quiet(todo) \in Seq(Requests) /\ Quieted(todo, Quiet(todo))
  BY <1>1, QuietQuiets DEF QueuesTyped
<1>3. \A i \in 1..Len(todo) : todo[i] \in Requests
  BY EmptyLength DEF QueuesTyped
<1> QED
  BY <1>2, <1>3 DEF Quieted, Requests

LEMMA QuietAnswers ==
  ASSUME QueuesTyped
  PROVE  /\ Quiet(answers) \in Seq(Responses) /\ Len(Quiet(answers)) = Len(answers)
         /\ \A i \in 1..Len(answers) : ~Quiet(answers)[i].awaited
<1>1. \A x \in Responses : [x EXCEPT !.awaited = FALSE] \in Responses
  BY DEF Responses
<1>2. Quiet(answers) \in Seq(Responses) /\ Quieted(answers, Quiet(answers))
  BY <1>1, QuietQuiets DEF QueuesTyped
<1>3. \A i \in 1..Len(answers) : answers[i] \in Responses
  BY EmptyLength DEF QueuesTyped
<1> QED
  BY <1>2, <1>3 DEF Quieted, Responses

-----------------------------------------------------------------------------
(* Calls and their statements.                                             *)

LEMMA CallsAre ==
  /\ None \notin Calls /\ None # "reset" /\ None \notin Nat
  /\ \A o \in Calls : o # "reset"
BY BoundAssumption, NoneAssumption DEF Calls, Plain

LEMMA StmtIs ==
  ASSUME NEW o \in Calls \cup {"reset"}
  PROVE  /\ Stmt(o) \in Statements
         /\ Stmt(o) = "DISCARD" <=> o = "reset"
         /\ Stmt(o) = "BEGIN" <=> o \in {"begin", "atomic"}
         /\ Stmt(o) = "COMMIT" <=> o \in {"commit", "succeed"}
         /\ Stmt(o) = "ROLLBACK" <=> o \in {"rollback", "fail"}
         /\ Stmt(o) = "SAVEPOINT" <=> o = "nest"
         /\ Stmt(o) = "RELEASE" <=> o = "release"
         /\ Stmt(o) = "ROLLBACK TO" <=> o = "undo"
         /\ Stmt(o) = "work" <=> o = "work"
         /\ Stmt(o) = "lock" <=> o = "lock"
BY DEF Calls, Plain, Stmt, Statements, Controls

LEMMA HereIs ==
  ASSUME HolderTyped
  PROVE  /\ Here \in Nat
         /\ scope = <<>> => Here = 0
         /\ Len(scope) = 1 => Here = scope[1] /\ Here # 0
         /\ Len(scope) = 2 => Here = scope[2] /\ Here # 0
<1>1. /\ Len(scope) \in Nat /\ (scope = <<>> <=> Len(scope) = 0)
      /\ \A i \in 1..Len(scope) : scope[i] \in Scopes
  BY EmptyLength DEF HolderTyped
<1> QED
  BY <1>1, SMTT(40) DEF Here, Scopes

LEMMA ScopeIs ==
  ASSUME HolderTyped
  PROVE  /\ Len(scope) \in Nat /\ (scope = <<>> <=> Len(scope) = 0)
         /\ <<>> \in Seq(Scopes)
         /\ scope # <<>> => scope[1] \in Scopes
         /\ \A x \in Scopes : <<x>> \in Seq(Scopes) /\ Len(<<x>>) = 1 /\ <<x>>[1] = x /\ <<x>> # <<>>
         /\ \A x \in Scopes : Len(scope) = 1 =>
              /\ Append(scope, x) \in Seq(Scopes) /\ Len(Append(scope, x)) = 2
              /\ Append(scope, x)[1] = scope[1] /\ Append(scope, x)[2] = x /\ Append(scope, x) # <<>>
<1>1. /\ Len(scope) \in Nat /\ (scope = <<>> <=> Len(scope) = 0)
      /\ \A i \in 1..Len(scope) : scope[i] \in Scopes
  BY EmptyLength DEF HolderTyped
<1>2. \A x \in Scopes : <<x>> \in Seq(Scopes) /\ Len(<<x>>) = 1 /\ <<x>>[1] = x /\ <<x>> # <<>>
  OBVIOUS
<1>3. ASSUME NEW x \in Scopes, Len(scope) = 1
      PROVE  /\ Append(scope, x) \in Seq(Scopes) /\ Len(Append(scope, x)) = 2
             /\ Append(scope, x)[1] = scope[1] /\ Append(scope, x)[2] = x /\ Append(scope, x) # <<>>
  <2>1. Append(scope, x) \in Seq(Scopes) /\ Pushed(scope, Append(scope, x), x)
    BY AppendPushes DEF HolderTyped
  <2> QED
    BY <1>3, <2>1, EmptyLength DEF Pushed
<1>4. <<>> \in Seq(Scopes)
  BY EmptySeq
<1> QED
  BY <1>1, <1>2, <1>3, <1>4

-----------------------------------------------------------------------------
(* Types.                                                                  *)

LEMMA AfterCallTyped ==
  ASSUME HolderTyped, Nested, NEW ok, AfterCall(ok)
  PROVE  kind' \in {"none", "guard", "atomic"} /\ scope' \in Seq(Scopes)
<1>1. CASE ok /\ op \in {"begin", "atomic"}
  <2>1. scopes \in Scopes
    BY <1>1 DEF HolderTyped, Nested, Scopes
  <2> QED
    BY <1>1, <2>1, ScopeIs DEF AfterCall
<1>2. CASE ok /\ op = "nest"
  <2>1. scopes \in Scopes /\ Len(scope) = 1
    BY <1>2 DEF HolderTyped, Nested, Scopes
  <2> QED
    BY <1>2, <2>1, ScopeIs DEF AfterCall, HolderTyped
<1>3. CASE op \in {"succeed", "fail"}
  BY <1>3, ScopeIs DEF AfterCall
<1>4. CASE op \in {"release", "undo"}
  <2>1. Len(scope) = 2
    BY <1>4 DEF Nested
  <2> QED
    BY <1>4, <2>1, ScopeIs DEF AfterCall, HolderTyped
<1>5. CASE ~(ok /\ op \in {"begin", "atomic"}) /\ ~(ok /\ op = "nest") /\ op \notin {"succeed", "fail", "release", "undo"}
  BY <1>5 DEF AfterCall, HolderTyped
<1> QED
  BY <1>1, <1>2, <1>3, <1>4, <1>5

LEMMA HolderTypedStep ==
  ASSUME Shape, [Next]_vars
  PROVE  HolderTyped'
<1> USE DEF Shape
<1>1. CASE Checkout
  BY <1>1 DEF Checkout, HolderTyped
<1>2. ASSUME NEW o \in Calls, Start(o) PROVE HolderTyped'
  <2>1. /\ holder' \in {"none", "client", "pool"} /\ pc' = "sending" /\ op' \in Calls
        /\ visit' \in Nat /\ calls' \in Nat /\ scopes' \in Nat
    BY <1>2 DEF Start, HolderTyped
  <2>2. asked' \in SUBSET Nat
    BY <1>2, HereIs DEF Start, HolderTyped
  <2>3. kind' \in {"none", "guard", "atomic"} /\ scope' \in Seq(Scopes)
    BY <1>2, ScopeIs DEF Start, HolderTyped
  <2> QED
    BY <2>1, <2>2, <2>3 DEF HolderTyped
<1>3. CASE DropCall
  BY <1>3 DEF DropCall, HolderTyped, clientVars
<1>4. CASE DropScope
  <2>1. kind' \in {"none", "guard", "atomic"} /\ scope' \in Seq(Scopes)
    <3>1. kind = "guard" => scope[1] \in Scopes
      BY ScopeIs DEF Nested
    <3>2. CASE kind = "guard"
      BY <1>4, <3>1, <3>2, ScopeIs DEF DropScope
    <3>3. CASE kind # "guard"
      BY <1>4, <3>3, ScopeIs DEF DropScope
    <3> QED
      BY <3>2, <3>3
  <2> QED
    BY <1>4, <2>1 DEF DropScope, HolderTyped
<1>5. CASE DropGuard
  BY <1>5, ScopeIs DEF DropGuard, HolderTyped
<1>6. CASE Release
  BY <1>6 DEF Release, HolderTyped, clientVars
<1>7. CASE SendCancel
  BY <1>7 DEF SendCancel, HolderTyped
<1>8. ASSUME Destroy PROVE HolderTyped'
  BY <1>8, ScopeIs DEF Destroy, Clean, HolderTyped
<1>9. CASE ReturnCheck
  BY <1>8, <1>9 DEF ReturnCheck, HolderTyped, clientVars
<1>10. CASE Reset
  BY <1>8, <1>10 DEF Reset, KeepIdle, HolderTyped, clientVars
<1>11. CASE Evict
  BY <1>8, <1>11 DEF Evict
<1>12. CASE Submit
  BY <1>12 DEF Submit, HolderTyped, clientVars
<1>13. ASSUME NEW ok, Returns(ok) PROVE HolderTyped'
  <2>1. kind' \in {"none", "guard", "atomic"} /\ scope' \in Seq(Scopes)
    BY <1>13, AfterCallTyped DEF Returns, HolderTyped
  <2> QED
    BY <1>13, <2>1 DEF Returns, KeepIdle, HolderTyped
<1>14. CASE ReadAnswer
  BY <1>13, <1>14 DEF ReadAnswer, HolderTyped, clientVars
<1>15. CASE Lose \/ NoticeDead \/ CancelMisses
  BY <1>15 DEF Lose, NoticeDead, CancelMisses, HolderTyped, clientVars
<1>16. CASE Closed
  BY <1>8, <1>13, <1>16 DEF Closed
<1>17. CASE Execute
  BY <1>17 DEF Execute, HolderTyped, clientVars
<1>18. CASE UNCHANGED vars
  BY <1>18 DEF vars, HolderTyped, clientVars
<1> QED
  BY <1>1, <1>2, <1>3, <1>4, <1>5, <1>6, <1>7, <1>9, <1>10, <1>11, <1>12, <1>14, <1>15, <1>16, <1>17, <1>18
  DEF Next, ClientStep, PoolStep, ConnStep, ServerStep

LEMMA ExecuteIs ==
  ASSUME QueuesTyped, Execute
  PROVE  /\ ~lost /\ Len(todo) \in Nat \ {0} /\ todo[1] \in Requests
         /\ todo' \in Seq(Requests) /\ Popped(todo, todo')
         /\ \/ /\ ~Refuses(todo[1]) /\ Perform(todo[1]) /\ Answer(todo[1], FALSE)
               /\ UNCHANGED <<cancel, struck>>
            \/ /\ (Refuses(todo[1]) \/ MayFail(todo[1])) /\ ~cancel /\ Spoil(todo[1]) /\ Answer(todo[1], TRUE)
               /\ UNCHANGED <<cancel, struck>>
            \/ cancel /\ Spoil(todo[1]) /\ Answer(todo[1], TRUE) /\ cancel' = FALSE /\ struck' = TRUE
         /\ UNCHANGED <<holder, pc, op, clientVars, flagVars, lost, abandoned>>
<1>1. /\ todo # <<>> /\ ~lost
      /\ UNCHANGED <<holder, pc, op, clientVars, flagVars, lost, abandoned>>
  BY DEF Execute
<1>2. /\ Tail(todo) \in Seq(Requests) /\ Popped(todo, Tail(todo)) /\ Head(todo) = todo[1]
      /\ todo[1] \in Requests /\ Len(todo) \in Nat \ {0}
  BY <1>1, TailPops DEF QueuesTyped
<1>3. todo' = Tail(todo)
  BY DEF Execute, Answer
<1>4. \/ /\ ~Refuses(todo[1]) /\ Perform(todo[1]) /\ Answer(todo[1], FALSE)
         /\ UNCHANGED <<cancel, struck>>
      \/ /\ (Refuses(todo[1]) \/ MayFail(todo[1])) /\ ~cancel /\ Spoil(todo[1]) /\ Answer(todo[1], TRUE)
         /\ UNCHANGED <<cancel, struck>>
      \/ cancel /\ Spoil(todo[1]) /\ Answer(todo[1], TRUE) /\ cancel' = FALSE /\ struck' = TRUE
  BY <1>2 DEF Execute
<1> QED
  BY <1>1, <1>2, <1>3, <1>4

LEMMA PerformTyped ==
  ASSUME ServerTyped, NEW r \in Requests, Perform(r)
  PROVE  ServerTyped'
<1>1. /\ r.stmt \in {"work", "lock", "BEGIN", "COMMIT", "ROLLBACK", "SAVEPOINT", "RELEASE", "ROLLBACK TO", "DISCARD"}
      /\ r.by \in Nat /\ r.scope \in Nat
  BY DEF Requests, Statements, Plain, Controls
<1>2. committed' \in SUBSET Nat
  BY <1>1 DEF Perform, ServerTyped
<1>3. NoSavepoint \in [scope : Nat, dirty : SUBSET Nat]
  BY DEF NoSavepoint
<1>4. CASE r.stmt = "work"
  BY <1>1, <1>2, <1>4 DEF Perform, ServerTyped
<1>5. CASE r.stmt = "lock"
  BY <1>1, <1>2, <1>5 DEF Perform, ServerTyped
<1>6. CASE r.stmt = "BEGIN"
  BY <1>1, <1>2, <1>6 DEF Perform, ServerTyped
<1>7. CASE r.stmt \in {"COMMIT", "ROLLBACK"}
  BY <1>1, <1>2, <1>3, <1>7 DEF Perform, EndTransaction, ServerTyped
<1>8. CASE r.stmt = "SAVEPOINT"
  BY <1>1, <1>2, <1>8 DEF Perform, ServerTyped
<1>9. CASE r.stmt = "RELEASE"
  BY <1>1, <1>2, <1>3, <1>9 DEF Perform, ServerTyped
<1>10. CASE r.stmt = "ROLLBACK TO"
  <2>1. saved.dirty \in SUBSET Nat
    BY DEF ServerTyped
  <2> QED
    BY <1>1, <1>2, <1>10, <2>1 DEF Perform, ServerTyped
<1>11. CASE r.stmt = "DISCARD"
  BY <1>1, <1>2, <1>11 DEF Perform, ServerTyped
<1> QED
  BY <1>1, <1>4, <1>5, <1>6, <1>7, <1>8, <1>9, <1>10, <1>11

LEMMA SpoilTyped ==
  ASSUME ServerTyped, NEW r, Spoil(r)
  PROVE  ServerTyped'
<1>1. NoSavepoint \in [scope : Nat, dirty : SUBSET Nat]
  BY DEF NoSavepoint
<1> QED
  BY <1>1 DEF Spoil, EndTransaction, ServerTyped

LEMMA ServerTypedStep ==
  ASSUME Shape, [Next]_vars
  PROVE  ServerTyped'
<1> USE DEF Shape
<1>1. NoSavepoint \in [scope : Nat, dirty : SUBSET Nat]
  BY DEF NoSavepoint
<1>2. CASE Execute
  BY <1>2, ExecuteIs, PerformTyped, SpoilTyped
<1>3. CASE Lose
  BY <1>1, <1>3 DEF Lose, EndTransaction, ServerTyped
<1>4. ASSUME Destroy PROVE ServerTyped'
  BY <1>1, <1>4 DEF Destroy, Clean, ServerTyped
<1>5. ASSUME UNCHANGED serverVars PROVE ServerTyped'
  BY <1>5 DEF serverVars, ServerTyped
<1>6. CASE ClientStep
  BY <1>5, <1>6
  DEF ClientStep, Checkout, Start, DropCall, DropScope, DropGuard, Release, SendCancel
<1>7. CASE PoolStep
  BY <1>4, <1>5, <1>7 DEF PoolStep, ReturnCheck, Reset, Evict
<1>8. CASE Submit \/ ReadAnswer \/ NoticeDead \/ Closed \/ CancelMisses
  BY <1>4, <1>5, <1>8 DEF Submit, ReadAnswer, NoticeDead, Closed, CancelMisses
<1>9. CASE UNCHANGED vars
  BY <1>5, <1>9 DEF vars
<1> QED
  BY <1>2, <1>3, <1>6, <1>7, <1>8, <1>9 DEF Next, ConnStep, ServerStep

LEMMA FlagsTypedStep ==
  ASSUME Shape, [Next]_vars
  PROVE  FlagsTyped'
<1> USE DEF Shape
<1>1. CASE Execute
  BY <1>1, ExecuteIs DEF Answer, flagVars, FlagsTyped
<1>2. ASSUME Destroy PROVE FlagsTyped'
  BY <1>2 DEF Destroy, Clean, FlagsTyped
<1>3. CASE Checkout \/ DropCall \/ DropScope \/ DropGuard \/ Release \/ SendCancel
  BY <1>3
  DEF Checkout, DropCall, DropScope, DropGuard, Release, SendCancel, FlagsTyped, flagVars, cancelVars
<1>4. ASSUME NEW o \in Calls, Start(o) PROVE FlagsTyped'
  BY <1>4 DEF Start, Flagged, FlagsTyped, flagVars, cancelVars
<1>5. CASE PoolStep
  BY <1>2, <1>5 DEF PoolStep, ReturnCheck, Reset, Evict, FlagsTyped, flagVars, cancelVars
<1>6. CASE Submit \/ NoticeDead \/ CancelMisses \/ Lose
  BY <1>6 DEF Submit, NoticeDead, CancelMisses, Lose, FlagsTyped, flagVars, cancelVars
<1>7. CASE ReadAnswer
  <2>1. Head(answers) \in Responses
    BY <1>7, TailPops DEF ReadAnswer, QueuesTyped
  <2> QED
    BY <1>7, <2>1 DEF ReadAnswer, Responses, FlagsTyped, flagVars, cancelVars
<1>8. CASE Closed
  BY <1>2, <1>8 DEF Closed, FlagsTyped, flagVars, cancelVars
<1>9. CASE UNCHANGED vars
  BY <1>9 DEF vars, FlagsTyped, flagVars, cancelVars
<1> QED
  BY <1>1, <1>3, <1>4, <1>5, <1>6, <1>7, <1>8, <1>9 DEF Next, ClientStep, ConnStep, ServerStep

-----------------------------------------------------------------------------
(* What each action does to the queues.                                    *)

LEMMA SubmitIs ==
  ASSUME HolderTyped, QueuesTyped, Standing, Submit
  PROVE  /\ op \in Calls \cup {"reset"} /\ Len(todo) \in Nat
         /\ todo' \in Seq(Requests)
         /\ Pushed(todo, todo', Request(IF holder = "pool" THEN 0 ELSE visit, Stmt(op),
                                        IF op = "nest" THEN scopes ELSE Here, TRUE))
<1> DEFINE r == Request(IF holder = "pool" THEN 0 ELSE visit, Stmt(op), IF op = "nest" THEN scopes ELSE Here, TRUE)
<1>1. op \in Calls \cup {"reset"}
  BY DEF Submit, HolderTyped, Standing
<1>2. r \in Requests
  BY <1>1, StmtIs, HereIs DEF Request, Requests, HolderTyped
<1>3. todo' = Append(todo, r)
  BY DEF Submit
<1> HIDE DEF r
<1>4. todo' \in Seq(Requests) /\ Pushed(todo, todo', r) /\ Len(todo) \in Nat
  BY <1>2, <1>3, AppendPushes DEF QueuesTyped
<1> QED
  BY <1>1, <1>4 DEF r

LEMMA DropGuardIs ==
  ASSUME HolderTyped, QueuesTyped, DropGuard
  PROVE  /\ Len(todo) \in Nat /\ todo' \in Seq(Requests)
         /\ \/ UNCHANGED todo /\ ((~alive /\ UNCHANGED broken) \/ broken' = TRUE)
            \/ Pushed(todo, todo', Request(visit, "ROLLBACK", Here, FALSE)) /\ UNCHANGED broken
<1> DEFINE r == Request(visit, "ROLLBACK", Here, FALSE)
<1>1. r \in Requests
  BY HereIs DEF Request, Requests, HolderTyped, Statements, Controls
<1>2. \/ ~alive /\ UNCHANGED <<todo, broken>>
      \/ alive /\ todo' = Append(todo, r) /\ UNCHANGED broken
      \/ alive /\ broken' = TRUE /\ UNCHANGED todo
  BY DEF DropGuard
<1> HIDE DEF r
<1>3. Append(todo, r) \in Seq(Requests) /\ Pushed(todo, Append(todo, r), r) /\ Len(todo) \in Nat
  BY <1>1, AppendPushes DEF QueuesTyped
<1> QED
  BY <1>2, <1>3 DEF r, QueuesTyped

LEMMA ReadAnswerIs ==
  ASSUME QueuesTyped, ReadAnswer
  PROVE  /\ Len(answers) \in Nat \ {0} /\ answers[1] \in Responses
         /\ answers' \in Seq(Responses) /\ Popped(answers, answers')
         /\ mutated' = (mutated \/ answers[1].open)
         /\ IF answers[1].awaited THEN Returns(~answers[1].error \/ answers[1].stmt \in Controls)
                                  ELSE UNCHANGED <<holder, pc, op, clientVars>>
         /\ UNCHANGED <<broken, alive, todo, serverVars, lost, cancelVars, abandoned, rejected>>
<1>1. answers # <<>> /\ answers' = Tail(answers)
      /\ UNCHANGED <<broken, alive, todo, serverVars, lost, cancelVars, abandoned, rejected>>
  BY DEF ReadAnswer
<1>2. /\ Tail(answers) \in Seq(Responses) /\ Popped(answers, Tail(answers)) /\ Head(answers) = answers[1]
      /\ answers[1] \in Responses /\ Len(answers) \in Nat \ {0}
  BY <1>1, TailPops DEF QueuesTyped
<1>3. /\ mutated' = (mutated \/ answers[1].open)
      /\ IF answers[1].awaited THEN Returns(~answers[1].error \/ answers[1].stmt \in Controls)
                               ELSE UNCHANGED <<holder, pc, op, clientVars>>
  BY <1>2 DEF ReadAnswer
<1> QED
  BY <1>1, <1>2, <1>3

LEMMA AnswerIs ==
  ASSUME QueuesTyped, NEW r \in Requests, NEW e \in BOOLEAN, Answer(r, e)
  PROVE  /\ Len(answers) \in Nat /\ answers' \in Seq(Responses)
         /\ Pushed(answers, answers', [stmt |-> r.stmt, awaited |-> r.awaited, error |-> e, open |-> txn' # "idle"])
         /\ rejected' = IF e THEN rejected \cup ({r.stmt} \cap {"BEGIN", "DISCARD"}) ELSE rejected
<1> DEFINE a == [stmt |-> r.stmt, awaited |-> r.awaited, error |-> e, open |-> txn' # "idle"]
<1>1. a \in Responses
  BY DEF Requests, Responses
<1>2. answers' = Append(answers, a)
  BY DEF Answer
<1> HIDE DEF a
<1>3. answers' \in Seq(Responses) /\ Pushed(answers, answers', a) /\ Len(answers) \in Nat
  BY <1>1, <1>2, AppendPushes DEF QueuesTyped
<1> QED
  BY <1>3 DEF a, Answer

LEMMA LoseIs ==
  ASSUME QueuesTyped, Lose
  PROVE  /\ todo' = <<>> /\ Len(todo') = 0 /\ Len(answers) \in Nat
         /\ answers' \in Seq(Responses) /\ Begins(answers, answers')
<1>1. todo' = <<>>
  BY DEF Lose
<1>2. PICK k \in 0..Len(answers) : answers' = SubSeq(answers, 1, k)
  BY DEF Lose
<1> QED
  BY <1>1, <1>2, PrefixBegins, EmptySeq, EmptyLength DEF QueuesTyped

LEMMA QueuesTypedStep ==
  ASSUME Shape, [Next]_vars
  PROVE  QueuesTyped'
<1> USE DEF Shape
<1>1. CASE Execute
  BY <1>1, ExecuteIs, AnswerIs DEF QueuesTyped
<1>2. ASSUME Destroy PROVE QueuesTyped'
  BY <1>2, EmptySeq DEF Destroy, Clean, QueuesTyped
<1>3. ASSUME UNCHANGED <<todo, answers>> PROVE QueuesTyped'
  BY <1>3 DEF QueuesTyped
<1>4. CASE DropCall \/ DropScope
  BY <1>4, QuietTodo, QuietAnswers DEF DropCall, DropScope, QueuesTyped
<1>5. CASE DropGuard
  BY <1>5, DropGuardIs DEF DropGuard, QueuesTyped
<1>6. CASE Checkout \/ (\E o \in Calls : Start(o)) \/ Release \/ SendCancel
  BY <1>3, <1>6 DEF Checkout, Start, Release, SendCancel
<1>7. CASE PoolStep
  BY <1>2, <1>3, <1>7 DEF PoolStep, ReturnCheck, Reset, Evict
<1>8. CASE Submit
  BY <1>8, SubmitIs DEF Submit, QueuesTyped
<1>9. CASE NoticeDead \/ CancelMisses \/ Closed
  BY <1>2, <1>3, <1>9 DEF NoticeDead, CancelMisses, Closed
<1>10. CASE ReadAnswer
  BY <1>10, ReadAnswerIs DEF QueuesTyped
<1>11. CASE Lose
  BY <1>11, LoseIs, EmptySeq DEF QueuesTyped
<1>12. CASE UNCHANGED vars
  BY <1>3, <1>12 DEF vars
<1> QED
  BY <1>1, <1>4, <1>5, <1>6, <1>7, <1>8, <1>9, <1>10, <1>11, <1>12 DEF Next, ClientStep, ConnStep, ServerStep

-----------------------------------------------------------------------------
(* The holder of the connection.                                           *)

\* An answer is given out only to one who waits for it.
LEMMA GivenOut ==
  ASSUME QueuesTyped, Awaited, ReadAnswer, answers[1].awaited
  PROVE  /\ pc = "waiting" /\ Len(todo) = 0 /\ Len(answers) = 1 /\ answers[1].stmt = Stmt(op)
         /\ Returns(~answers[1].error \/ answers[1].stmt \in Controls)
<1>1. /\ Len(answers) \in Nat \ {0} /\ answers[1].awaited
      /\ Returns(~answers[1].error \/ answers[1].stmt \in Controls)
  BY ReadAnswerIs
<1>2. 1 \in 1..Len(answers)
  BY <1>1
<1> QED
  BY <1>1, <1>2 DEF Awaited

LEMMA StandingStep ==
  ASSUME Shape, [Next]_vars
  PROVE  Standing'
<1> USE DEF Shape
<1>1. CASE Checkout
  BY <1>1, CallsAre DEF Checkout, HolderTyped, Standing
<1>2. ASSUME NEW o \in Calls, Start(o) PROVE Standing'
  BY <1>2, CallsAre DEF Start, HolderTyped, Standing
<1>3. CASE DropCall \/ DropScope
  BY <1>3, CallsAre DEF DropCall, DropScope, HolderTyped, Standing, clientVars
<1>4. CASE DropGuard \/ Release \/ SendCancel
  BY <1>4, CallsAre DEF DropGuard, Release, SendCancel, HolderTyped, Standing, clientVars
<1>5. ASSUME Destroy PROVE Standing'
  BY <1>5, CallsAre DEF Destroy, Standing
<1>6. CASE ReturnCheck
  BY <1>5, <1>6, CallsAre DEF ReturnCheck, HolderTyped, Standing, clientVars
<1>7. CASE Reset
  BY <1>5, <1>7, CallsAre DEF Reset, KeepIdle, HolderTyped, Standing, clientVars
<1>8. CASE Evict
  BY <1>5, <1>8 DEF Evict
<1>9. CASE Submit
  BY <1>9, CallsAre DEF Submit, HolderTyped, Standing, clientVars
<1>10. ASSUME NEW ok \in BOOLEAN, pc \in {"sending", "waiting"}, Returns(ok) PROVE Standing'
  BY <1>10, CallsAre DEF Returns, KeepIdle, HolderTyped, Standing
<1>11. CASE ReadAnswer
  <2>1. CASE answers[1].awaited
    BY <1>10, <1>11, <2>1, GivenOut
  <2>2. CASE ~answers[1].awaited
    BY <1>11, <2>2, ReadAnswerIs DEF Standing, clientVars
  <2> QED
    BY <2>1, <2>2
<1>12. CASE Closed
  <2>1. pc \in {"sending", "waiting"} /\ (Destroy \/ Returns(FALSE))
    BY <1>12 DEF Closed
  <2> QED
    BY <1>5, <1>10, <2>1
<1>13. CASE Lose \/ NoticeDead \/ CancelMisses \/ Execute
  BY <1>13 DEF Lose, NoticeDead, CancelMisses, Execute, Standing, clientVars
<1>14. CASE UNCHANGED vars
  BY <1>14 DEF vars, Standing, clientVars
<1> QED
  BY <1>1, <1>2, <1>3, <1>4, <1>6, <1>7, <1>8, <1>9, <1>11, <1>12, <1>13, <1>14
  DEF Next, ClientStep, PoolStep, ConnStep, ServerStep

LEMMA NestedStep ==
  ASSUME Shape, [Next]_vars
  PROVE  Nested'
<1> USE DEF Shape
<1>1. CASE Checkout \/ Release \/ SendCancel \/ DropCall
  BY <1>1, CallsAre DEF Checkout, Release, SendCancel, DropCall, HolderTyped, Standing, Nested, clientVars, Calls, Plain
<1>2. ASSUME NEW o \in Calls, Start(o) PROVE Nested'
  <2>1. op = None
    BY <1>2 DEF Start, Standing
  <2>2. CASE o \in {"commit", "rollback"}
    BY <1>2, <2>2, ScopeIs DEF Start, Nested
  <2>3. CASE o \notin {"commit", "rollback"}
    <3>1. UNCHANGED <<kind, scope>> /\ op' = o /\ o \in Allowed
          /\ scopes' = IF o \in {"begin", "atomic", "nest"} THEN scopes + 1 ELSE scopes
      BY <1>2, <2>3 DEF Start
    <3>2. /\ o \in {"begin", "atomic"} => kind = "none"
          /\ o \in {"succeed", "fail"} => kind = "atomic"
          /\ o = "nest" => kind = "guard" /\ Len(scope) = 1
          /\ o \in {"release", "undo"} => kind = "guard" /\ Len(scope) = 2
      <4>1. CASE kind = "none"
        <5>1. Allowed = Plain \cup {"begin", "atomic"}
          <6>1. Len(scope) # 2
            BY <4>1, ScopeIs DEF Nested
          <6> QED
            BY <4>1, <6>1 DEF Allowed
        <5> QED
          BY <3>1, <4>1, <5>1 DEF Plain
      <4>2. CASE kind = "atomic"
        <5>1. Allowed = Plain \cup {"succeed", "fail"}
          <6>1. Len(scope) # 2
            BY <4>2 DEF Nested
          <6> QED
            BY <4>2, <6>1 DEF Allowed
        <5> QED
          BY <3>1, <4>2, <5>1 DEF Plain
      <4>3. CASE kind = "guard" /\ Len(scope) = 2
        <5>1. Allowed = Plain \cup {"release", "undo"}
          BY <4>3 DEF Allowed
        <5> QED
          BY <3>1, <4>3, <5>1 DEF Plain
      <4>4. CASE kind = "guard" /\ Len(scope) = 1
        <5>1. Allowed = Plain \cup {"commit", "rollback", "nest"}
          BY <4>4 DEF Allowed
        <5> QED
          BY <2>3, <3>1, <4>4, <5>1 DEF Plain
      <4> QED
        BY <4>1, <4>2, <4>3, <4>4 DEF Nested, HolderTyped
    <3> QED
      BY <2>3, <3>1, <3>2 DEF Nested, HolderTyped
  <2> QED
    BY <2>2, <2>3
<1>3. CASE DropScope
  <2>1. op' = None
    BY <1>3 DEF DropScope
  <2>2. CASE kind = "guard"
    <3>1. Len(scope') = 1 /\ kind' = "guard"
      BY <1>3, <2>2, ScopeIs DEF DropScope, Nested
    <3> QED
      BY <2>1, <3>1, CallsAre DEF Nested, Calls, Plain
  <2>3. CASE kind # "guard"
    BY <1>3, <2>1, <2>3, CallsAre DEF DropScope, Nested, Calls, Plain
  <2> QED
    BY <2>2, <2>3
<1>4. CASE DropGuard
  BY <1>4, CallsAre DEF DropGuard, Standing, Nested, Calls, Plain
<1>5. ASSUME Destroy PROVE Nested'
  BY <1>5, CallsAre DEF Destroy, Nested, Calls, Plain
<1>6. CASE ReturnCheck
  BY <1>5, <1>6 DEF ReturnCheck, Nested, clientVars
<1>7. CASE Reset
  BY <1>5, <1>7, CallsAre DEF Reset, KeepIdle, HolderTyped, Standing, Nested, clientVars, Calls, Plain
<1>8. CASE Evict
  BY <1>5, <1>8 DEF Evict
<1>9. CASE Submit
  BY <1>9 DEF Submit, Nested, clientVars
<1>10. ASSUME NEW ok \in BOOLEAN, op \in Calls \cup {"reset"}, Returns(ok) PROVE Nested'
  <2>1. op' = None
    BY <1>10 DEF Returns, KeepIdle
  <2>2. /\ kind' = "none"   => scope' = <<>>
        /\ kind' = "atomic" => Len(scope') = 1
        /\ kind' = "guard"  => Len(scope') \in {1, 2}
    <3>1. CASE UNCHANGED <<kind, scope>>
      BY <3>1 DEF Nested
    <3>2. CASE AfterCall(ok)
      <4>1. CASE ok /\ op \in {"begin", "atomic"}
        <5>1. scopes \in Scopes
          BY <4>1 DEF HolderTyped, Nested, Scopes
        <5> QED
          BY <3>2, <4>1, <5>1, ScopeIs DEF AfterCall
      <4>2. CASE ok /\ op = "nest"
        <5>1. scopes \in Scopes /\ Len(scope) = 1 /\ kind = "guard"
          BY <4>2 DEF HolderTyped, Nested, Scopes
        <5> QED
          BY <3>2, <4>2, <5>1, ScopeIs DEF AfterCall
      <4>3. CASE op \in {"succeed", "fail"}
        BY <3>2, <4>3 DEF AfterCall
      <4>4. CASE op \in {"release", "undo"}
        <5>1. scope[1] \in Scopes /\ kind = "guard"
          BY <4>4, ScopeIs DEF Nested
        <5> QED
          BY <3>2, <4>4, <5>1, ScopeIs DEF AfterCall
      <4>5. CASE ~(ok /\ op \in {"begin", "atomic"}) /\ ~(ok /\ op = "nest") /\ op \notin {"succeed", "fail", "release", "undo"}
        BY <3>1, <3>2, <4>5 DEF AfterCall
      <4> QED
        BY <4>1, <4>2, <4>3, <4>4, <4>5
    <3> QED
      BY <1>10, <3>1, <3>2 DEF Returns
  <2> QED
    BY <2>1, <2>2, CallsAre DEF Nested, Calls, Plain
<1>11. CASE ReadAnswer
  <2>1. CASE answers[1].awaited
    BY <1>10, <1>11, <2>1, GivenOut DEF HolderTyped, Standing
  <2>2. CASE ~answers[1].awaited
    BY <1>11, <2>2, ReadAnswerIs DEF Nested, clientVars
  <2> QED
    BY <2>1, <2>2
<1>12. CASE Closed
  <2>1. op \in Calls \cup {"reset"} /\ (Destroy \/ Returns(FALSE))
    BY <1>12 DEF Closed, HolderTyped, Standing
  <2> QED
    BY <1>5, <1>10, <2>1
<1>13. CASE Lose \/ NoticeDead \/ CancelMisses \/ Execute
  BY <1>13 DEF Lose, NoticeDead, CancelMisses, Execute, Nested, clientVars
<1>14. CASE UNCHANGED vars
  BY <1>14 DEF vars, Nested, clientVars
<1> QED
  BY <1>1, <1>2, <1>3, <1>4, <1>6, <1>7, <1>8, <1>9, <1>11, <1>12, <1>13, <1>14
  DEF Next, ClientStep, PoolStep, ConnStep, ServerStep

-----------------------------------------------------------------------------
(* The queues and the session.                                             *)

LEMMA AwaitedStep ==
  ASSUME Shape, [Next]_vars
  PROVE  Awaited'
<1> USE DEF Shape
<1>0. Len(todo) \in Nat /\ Len(answers) \in Nat
  BY EmptyLength DEF QueuesTyped
<1>1. ASSUME UNCHANGED <<todo, answers, pc, op>> PROVE Awaited'
  BY <1>1 DEF Awaited
<1>2. ASSUME UNCHANGED <<todo, answers>>, pc # "waiting", pc' # "waiting" PROVE Awaited'
  BY <1>2 DEF Awaited
<1>3. CASE Checkout \/ SendCancel \/ NoticeDead \/ CancelMisses \/ UNCHANGED vars
  BY <1>1, <1>3 DEF Checkout, SendCancel, NoticeDead, CancelMisses, vars
<1>4. CASE (\E o \in Calls : Start(o)) \/ Release
  BY <1>2, <1>4 DEF Start, Release
<1>5. CASE DropCall \/ DropScope
  <2>1. \A i \in 1..Len(todo) : todo[i].stmt # "DISCARD"
    <3>1. ASSUME NEW i \in 1..Len(todo), todo[i].stmt = "DISCARD" PROVE FALSE
      <4>1. Stmt(op) = "DISCARD" /\ pc = "waiting"
        BY <3>1 DEF Awaited
      <4>2. op \in Calls \cup {"reset"} /\ op # "reset"
        BY <1>5, <4>1 DEF DropCall, DropScope, Standing, HolderTyped
      <4> QED
        BY <4>1, <4>2, StmtIs
    <3> QED
      BY <3>1
  <2>2. todo' = Quiet(todo) /\ answers' = Quiet(answers) /\ pc' = "ready"
    BY <1>5 DEF DropCall, DropScope
  <2>3. /\ Len(todo') = Len(todo) /\ Len(answers') = Len(answers)
        /\ \A i \in 1..Len(todo) : todo'[i].stmt = todo[i].stmt /\ ~todo'[i].awaited
        /\ \A i \in 1..Len(answers) : ~answers'[i].awaited
    BY <2>2, QuietTodo, QuietAnswers
  <2> QED
    BY <2>1, <2>2, <2>3 DEF Awaited
<1>6. CASE DropGuard
  <2>1. pc = "ready" /\ pc' = pc /\ UNCHANGED <<answers, op>>
    BY <1>6 DEF DropGuard
  <2>2. CASE UNCHANGED todo
    BY <1>1, <2>1, <2>2
  <2>3. CASE Pushed(todo, todo', Request(visit, "ROLLBACK", Here, FALSE))
    <3>1. \A i \in 1..Len(todo') : i \in 1..Len(todo) \/ i = Len(todo) + 1
      BY <1>0, <2>3 DEF Pushed
    <3> QED
      BY <1>0, <2>1, <2>3, <3>1 DEF Pushed, Request, Awaited
  <2> QED
    BY <1>6, <2>2, <2>3, DropGuardIs
<1>7. ASSUME Destroy PROVE Awaited'
  <2>1. Len(todo') = 0 /\ Len(answers') = 0
    BY <1>7, EmptySeq DEF Destroy, Clean
  <2> QED
    BY <2>1 DEF Awaited
<1>8. CASE PoolStep
  BY <1>2, <1>7, <1>8 DEF PoolStep, ReturnCheck, Reset, KeepIdle, Evict
<1>9. CASE Submit
  <2>1. pc = "sending" /\ pc' = "waiting" /\ UNCHANGED <<answers, op>>
    BY <1>9 DEF Submit
  <2>2. \A i \in 1..Len(todo') : i \in 1..Len(todo) \/ i = Len(todo) + 1
    BY <1>0, <1>9, SubmitIs DEF Pushed
  <2>3. /\ Len(todo') = Len(todo) + 1 /\ todo'[Len(todo) + 1].awaited /\ todo'[Len(todo) + 1].stmt = Stmt(op)
        /\ \A i \in 1..Len(todo) : todo'[i] = todo[i]
    BY <1>9, SubmitIs DEF Pushed, Request
  <2>4. \A i \in 1..Len(todo) : ~todo[i].awaited
    BY <2>1 DEF Awaited
  <2>5. \A i \in 1..Len(answers) : ~answers[i].awaited
    BY <2>1 DEF Awaited
  <2> QED
    BY <1>0, <2>1, <2>2, <2>3, <2>4, <2>5 DEF Awaited
<1>10. CASE ReadAnswer
  <2>1. UNCHANGED todo /\ Len(answers') = Len(answers) - 1
        /\ \A i \in 1..Len(answers') : answers'[i] = answers[i + 1]
    BY <1>10, ReadAnswerIs DEF Popped
  <2>2. \A i \in 1..Len(answers') : i + 1 \in 1..Len(answers)
    BY <1>0, <2>1
  <2>3. CASE answers[1].awaited
    <3>1. Len(answers') = 0 /\ Len(todo) = 0
      <4>1. Len(answers) = 1 /\ Len(todo) = 0
        BY <1>10, <2>3, GivenOut
      <4> QED
        BY <2>1, <4>1
    <3> QED
      BY <2>1, <3>1 DEF Awaited
  <2>4. CASE ~answers[1].awaited
    <3>1. UNCHANGED <<pc, op>>
      BY <1>10, <2>4, ReadAnswerIs
    <3>2. \A i \in 1..Len(answers') : answers'[i].awaited =>
            pc = "waiting" /\ i + 1 = Len(answers) /\ Len(todo) = 0 /\ answers'[i].stmt = Stmt(op)
      BY <2>1, <2>2 DEF Awaited
    <3>3. \A i \in 1..Len(answers') : i + 1 = Len(answers) => i = Len(answers')
      BY <1>0, <2>1
    <3> QED
      BY <2>1, <3>1, <3>2, <3>3 DEF Awaited
  <2> QED
    BY <2>3, <2>4
<1>11. CASE Lose
  <2>1. /\ Len(todo') = 0 /\ UNCHANGED <<pc, op>> /\ Len(answers') <= Len(answers)
        /\ answers' \in Seq(Responses)
        /\ \A i \in 1..Len(answers') : answers'[i] = answers[i]
    BY <1>11, LoseIs DEF Lose, Begins
  <2>2. Len(answers') \in Nat
    BY <2>1, EmptyLength
  <2>3. \A i \in 1..Len(answers') : i \in 1..Len(answers) /\ (i = Len(answers) => i = Len(answers'))
    BY <1>0, <2>1, <2>2
  <2> QED
    BY <2>1, <2>3 DEF Awaited
<1>12. CASE Closed
  <2>1. CASE holder = "pool"
    BY <1>7, <1>12, <2>1 DEF Closed
  <2>2. CASE holder # "pool"
    <3>1. UNCHANGED <<todo, answers>> /\ pc' = "ready" /\ lost
      BY <1>12, <2>2 DEF Closed, Returns
    <3>2. \A i \in 1..Len(todo) : ~todo[i].awaited
      BY <3>1 DEF Dead
    <3>3. \A i \in 1..Len(answers) : ~answers[i].awaited
      BY <1>12, EmptyLength DEF Closed, QueuesTyped
    <3> QED
      BY <3>1, <3>2, <3>3 DEF Awaited
  <2> QED
    BY <2>1, <2>2
<1>13. CASE Execute
  <2>1. PICK e \in BOOLEAN : Answer(todo[1], e)
    BY <1>13, ExecuteIs
  <2>2. /\ Len(todo) # 0 /\ Len(todo') = Len(todo) - 1 /\ UNCHANGED <<pc, op>> /\ todo[1] \in Requests
        /\ \A i \in 1..Len(todo') : todo'[i] = todo[i + 1]
    BY <1>13, ExecuteIs DEF Popped
  <2>3. /\ Len(answers') = Len(answers) + 1
        /\ answers'[Len(answers) + 1].awaited = todo[1].awaited /\ answers'[Len(answers) + 1].stmt = todo[1].stmt
        /\ \A i \in 1..Len(answers) : answers'[i] = answers[i]
    <3>1. Pushed(answers, answers',
                 [stmt |-> todo[1].stmt, awaited |-> todo[1].awaited, error |-> e, open |-> txn' # "idle"])
      BY <2>1, <2>2, AnswerIs
    <3> QED
      BY <3>1 DEF Pushed
  <2>4. \A i \in 1..Len(todo') : i + 1 \in 1..Len(todo) /\ (i + 1 = Len(todo) => i = Len(todo'))
    BY <1>0, <2>2
  <2>5. \A i \in 1..Len(answers) : ~answers[i].awaited
    BY <2>2 DEF Awaited
  <2>6. todo[1].awaited => pc = "waiting" /\ Len(todo') = 0 /\ todo[1].stmt = Stmt(op)
    BY <1>0, <2>2 DEF Awaited
  <2>7. \A i \in 1..Len(answers') : i \in 1..Len(answers) \/ i = Len(answers) + 1
    BY <1>0, <2>3
  <2>8. pc' = "waiting" /\ Len(todo') # 0 => todo'[Len(todo')].awaited
    <3>1. ASSUME pc = "waiting", Len(todo') # 0 PROVE todo'[Len(todo')].awaited
      <4>1. todo'[Len(todo')] = todo[Len(todo)]
        BY <1>0, <2>2, <3>1
      <4> QED
        BY <2>2, <3>1, <4>1 DEF Awaited
    <3> QED
      BY <2>2, <3>1
  <2>9. \A i \in 1..Len(todo') :
          /\ todo'[i].awaited => pc' = "waiting" /\ i = Len(todo') /\ todo'[i].stmt = Stmt(op')
          /\ todo'[i].stmt = "DISCARD" => todo'[i].awaited
    <3> TAKE i \in 1..Len(todo')
    <3>1. PICK k \in 1..Len(todo) : k = i + 1 /\ todo'[i] = todo[k] /\ (k = Len(todo) => i = Len(todo'))
      BY <2>2, <2>4
    <3>2. /\ todo[k].awaited => pc = "waiting" /\ k = Len(todo) /\ todo[k].stmt = Stmt(op)
          /\ todo[k].stmt = "DISCARD" => todo[k].awaited
      BY DEF Awaited
    <3>3. Stmt(op') = Stmt(op) /\ pc' = pc
      BY <2>2
    <3> QED
      BY <3>1, <3>2, <3>3
  <2>10. \A i \in 1..Len(answers') : answers'[i].awaited =>
           pc' = "waiting" /\ i = Len(answers') /\ Len(todo') = 0 /\ answers'[i].stmt = Stmt(op')
    BY <2>2, <2>3, <2>5, <2>6, <2>7
  <2> QED
    BY <2>8, <2>9, <2>10 DEF Awaited
<1> QED
  BY <1>3, <1>4, <1>5, <1>6, <1>8, <1>9, <1>10, <1>11, <1>12, <1>13
  DEF Next, ClientStep, ConnStep, ServerStep

LEMMA DeadStep ==
  ASSUME Shape, [Next]_vars
  PROVE  Dead'
<1> USE DEF Shape
<1>0. Len(todo) \in Nat /\ (todo = <<>> => Len(todo) = 0)
  BY EmptyLength DEF QueuesTyped
<1>1. ASSUME UNCHANGED <<alive, lost, serverVars, todo>> PROVE Dead'
  BY <1>1 DEF Dead, serverVars
<1>2. ASSUME Destroy PROVE Dead'
  <2>1. alive' /\ ~lost'
    BY <1>2 DEF Destroy, Clean
  <2> QED
    BY <2>1 DEF Dead
<1>3. CASE Checkout \/ (\E o \in Calls : Start(o)) \/ Release \/ SendCancel \/ CancelMisses \/ UNCHANGED vars
  BY <1>1, <1>3 DEF Checkout, Start, Release, SendCancel, CancelMisses, vars, flagVars
<1>4. CASE DropCall \/ DropScope
  <2>1. /\ UNCHANGED <<alive, lost, txn, effects, committed>> /\ Len(todo') = Len(todo)
        /\ \A i \in 1..Len(todo) : todo'[i].stmt = todo[i].stmt /\ ~todo'[i].awaited
    BY <1>4, QuietTodo DEF DropCall, DropScope, flagVars, serverVars
  <2> QED
    BY <2>1 DEF Dead
<1>5. CASE DropGuard
  <2>1. UNCHANGED <<alive, lost, serverVars>>
    BY <1>5 DEF DropGuard
  <2>2. CASE UNCHANGED todo
    BY <1>1, <2>1, <2>2
  <2>3. CASE Pushed(todo, todo', Request(visit, "ROLLBACK", Here, FALSE))
    <3>1. \A i \in 1..Len(todo') : i \in 1..Len(todo) \/ i = Len(todo) + 1
      BY <1>0, <2>3 DEF Pushed
    <3> QED
      BY <2>1, <2>3, <3>1 DEF Pushed, Request, Dead, serverVars
  <2> QED
    BY <1>5, <2>2, <2>3, DropGuardIs
<1>6. CASE PoolStep
  BY <1>1, <1>2, <1>6 DEF PoolStep, ReturnCheck, Reset, Evict, flagVars
<1>7. CASE Submit \/ Execute
  <2>1. ~lost /\ UNCHANGED <<lost, alive>>
    BY <1>7, ExecuteIs DEF Submit, flagVars
  <2> QED
    BY <2>1 DEF Dead
<1>8. CASE ReadAnswer
  BY <1>1, <1>8 DEF ReadAnswer
<1>9. CASE Lose
  <2>1. Len(todo') = 0 /\ lost' /\ txn' = "idle" /\ effects' = {} /\ committed' = {}
    BY <1>9, LoseIs DEF Lose, EndTransaction
  <2> QED
    BY <2>1 DEF Dead
<1>10. CASE NoticeDead
  BY <1>10 DEF NoticeDead, Dead, serverVars
<1>11. CASE Closed
  BY <1>1, <1>2, <1>11 DEF Closed, flagVars
<1> QED
  BY <1>3, <1>4, <1>5, <1>6, <1>7, <1>8, <1>9, <1>10, <1>11 DEF Next, ClientStep, ConnStep, ServerStep

\* What is queued was submitted by a user, or is the DISCARD ALL of the pool.
LEMMA SubmittedBy ==
  ASSUME Shape, Submit
  PROVE  LET r == todo'[Len(todo) + 1]
         IN  /\ r.stmt = Stmt(op) /\ r.awaited
             /\ r.by = (IF holder = "pool" THEN 0 ELSE visit)
             /\ (r.by = 0) <=> (r.stmt = "DISCARD")
             /\ r.scope = (IF op = "nest" THEN scopes ELSE Here)
             /\ r.stmt \in SavepointStmts => r.scope # 0
<1> USE DEF Shape
<1> DEFINE r == todo'[Len(todo) + 1]
<1>1. op \in Calls \cup {"reset"}
  BY SubmitIs
<1>2. r = Request(IF holder = "pool" THEN 0 ELSE visit, Stmt(op), IF op = "nest" THEN scopes ELSE Here, TRUE)
  BY SubmitIs DEF Pushed
<1> HIDE DEF r
<1>3. /\ r.stmt = Stmt(op) /\ r.awaited
      /\ r.by = (IF holder = "pool" THEN 0 ELSE visit)
      /\ r.scope = (IF op = "nest" THEN scopes ELSE Here)
  BY <1>2 DEF Request
<1>4. (r.by = 0) <=> (op = "reset")
  BY <1>3 DEF Submit, Standing, HolderTyped
<1>5. (r.by = 0) <=> (r.stmt = "DISCARD")
  BY <1>1, <1>3, <1>4, StmtIs
<1>6. r.stmt \in SavepointStmts => r.scope # 0
  <2>1. r.stmt \in SavepointStmts => op \in {"nest", "release", "undo"}
    <3>1. /\ Stmt(op) = "SAVEPOINT" <=> op = "nest"
          /\ Stmt(op) = "RELEASE" <=> op = "release"
          /\ Stmt(op) = "ROLLBACK TO" <=> op = "undo"
      BY <1>1, StmtIs
    <3> QED
      BY <1>3, <3>1 DEF SavepointStmts
  <2> QED
    BY <1>3, <2>1, HereIs DEF Nested
<1> QED
  BY <1>3, <1>5, <1>6 DEF r

LEMMA IdleStep ==
  ASSUME Shape, [Next]_vars
  PROVE  Idle'
<1> USE DEF Shape
<1>1. ASSUME UNCHANGED serverVars PROVE Idle'
  BY <1>1 DEF Idle, serverVars
<1>2. ASSUME Destroy PROVE Idle'
  BY <1>2 DEF Destroy, Clean, Idle
<1>3. CASE ClientStep \/ Submit \/ ReadAnswer \/ NoticeDead \/ CancelMisses \/ UNCHANGED vars
  BY <1>1, <1>3
  DEF ClientStep, Checkout, Start, DropCall, DropScope, DropGuard, Release, SendCancel, Submit, ReadAnswer,
      NoticeDead, CancelMisses, vars
<1>4. CASE PoolStep \/ Closed
  BY <1>1, <1>2, <1>4 DEF PoolStep, ReturnCheck, Reset, Evict, Closed
<1>5. CASE Lose
  BY <1>5 DEF Lose, EndTransaction, Idle
<1>6. CASE Execute
  <2> DEFINE r == todo[1]
  <2>0. r \in Requests /\ Len(todo) \in Nat \ {0} /\ ((~Refuses(r) /\ Perform(r)) \/ Spoil(r))
    BY <1>6, ExecuteIs
  <2>1. r \in Requests /\ 1 \in 1..Len(todo) /\ ((~Refuses(r) /\ Perform(r)) \/ Spoil(r))
    BY <2>0
  <2>2. r.stmt \in SavepointStmts => r.scope # 0
    BY <2>1 DEF Signed
  <2> HIDE DEF r
  <2>3. r.by \in Nat /\ r.by # None /\ r.stmt \in Statements
    BY <2>1, CallsAre DEF Requests
  <2>4. ASSUME Spoil(r) PROVE Idle'
    BY <2>4 DEF Spoil, EndTransaction, Idle, ServerTyped
  <2>5. ASSUME ~Refuses(r), Perform(r) PROVE Idle'
    <3>1. CASE r.stmt = "work"
      BY <2>5, <3>1 DEF Perform, Idle
    <3>2. CASE r.stmt = "lock"
      BY <2>5, <3>2 DEF Perform, Idle
    <3>3. CASE r.stmt = "BEGIN"
      BY <2>3, <2>5, <3>3 DEF Perform, Idle
    <3>4. CASE r.stmt \in {"COMMIT", "ROLLBACK"}
      BY <2>5, <3>4 DEF Perform, EndTransaction, Idle
    <3>5. CASE r.stmt = "SAVEPOINT"
      BY <2>5, <3>5 DEF Perform, Refuses, Idle
    <3>6. CASE r.stmt = "RELEASE"
      BY <2>5, <3>6 DEF Perform, Idle
    <3>7. CASE r.stmt = "ROLLBACK TO"
      <4>1. saved.scope = r.scope /\ r.scope # 0
        BY <2>2, <2>5, <3>7 DEF Refuses, SavepointStmts
      <4>2. saved # NoSavepoint
        BY <4>1 DEF NoSavepoint
      <4>3. txn # "idle"
        BY <4>2 DEF Idle
      <4> QED
        BY <2>5, <3>7, <4>3 DEF Perform, Idle
    <3>8. CASE r.stmt = "DISCARD"
      BY <2>5, <3>8 DEF Perform, Idle
    <3> QED
      BY <2>3, <3>1, <3>2, <3>3, <3>4, <3>5, <3>6, <3>7, <3>8 DEF Statements, Plain, Controls
  <2> QED
    BY <2>1, <2>4, <2>5
<1> QED
  BY <1>3, <1>4, <1>5, <1>6 DEF Next, ConnStep, ServerStep

LEMMA SignedStep ==
  ASSUME Shape, [Next]_vars
  PROVE  Signed'
<1> USE DEF Shape
<1>0. Len(todo) \in Nat
  BY EmptyLength DEF QueuesTyped
<1>1. ASSUME UNCHANGED todo PROVE Signed'
  BY <1>1 DEF Signed
<1>2. ASSUME Len(todo') = 0 PROVE Signed'
  BY <1>2 DEF Signed
<1>3. Destroy => Len(todo') = 0
  BY EmptySeq DEF Destroy, Clean
<1>4. CASE Checkout \/ (\E o \in Calls : Start(o)) \/ Release \/ SendCancel \/ CancelMisses \/ NoticeDead
           \/ ReadAnswer \/ UNCHANGED vars
  BY <1>1, <1>4 DEF Checkout, Start, Release, SendCancel, CancelMisses, NoticeDead, ReadAnswer, vars
<1>5. CASE DropCall \/ DropScope
  <2>1. /\ Len(todo') = Len(todo)
        /\ \A i \in 1..Len(todo) :
             todo'[i].stmt = todo[i].stmt /\ todo'[i].by = todo[i].by /\ todo'[i].scope = todo[i].scope
    BY <1>5, QuietTodo DEF DropCall, DropScope
  <2> QED
    BY <2>1 DEF Signed
<1>6. CASE DropGuard
  <2>1. visit # 0
    BY <1>6 DEF DropGuard, Standing
  <2>2. CASE Pushed(todo, todo', Request(visit, "ROLLBACK", Here, FALSE))
    <3>1. \A i \in 1..Len(todo') : i \in 1..Len(todo) \/ i = Len(todo) + 1
      BY <1>0, <2>2 DEF Pushed
    <3>2. todo'[Len(todo) + 1].by # 0 /\ todo'[Len(todo) + 1].stmt = "ROLLBACK"
      BY <2>1, <2>2 DEF Pushed, Request
    <3>3. \A i \in 1..Len(todo) : todo'[i] = todo[i]
      BY <2>2 DEF Pushed
    <3> QED
      BY <3>1, <3>2, <3>3 DEF Signed, SavepointStmts
  <2> QED
    BY <1>1, <1>6, <2>2, DropGuardIs
<1>7. CASE PoolStep \/ Closed
  BY <1>1, <1>2, <1>3, <1>7 DEF PoolStep, ReturnCheck, Reset, Evict, Closed
<1>8. CASE Submit
  <2>1. Len(todo') = Len(todo) + 1 /\ \A i \in 1..Len(todo) : todo'[i] = todo[i]
    BY <1>8, SubmitIs DEF Pushed
  <2>2. \A i \in 1..Len(todo') : i \in 1..Len(todo) \/ i = Len(todo) + 1
    BY <1>0, <2>1
  <2>3. /\ todo'[Len(todo) + 1].stmt \in SavepointStmts => todo'[Len(todo) + 1].scope # 0
        /\ (todo'[Len(todo) + 1].by = 0) <=> (todo'[Len(todo) + 1].stmt = "DISCARD")
    BY <1>8, SubmittedBy
  <2> QED
    BY <2>1, <2>2, <2>3 DEF Signed
<1>9. CASE Lose
  BY <1>2, <1>9, LoseIs
<1>10. CASE Execute
  <2>1. /\ Len(todo') = Len(todo) - 1 /\ \A i \in 1..Len(todo') : todo'[i] = todo[i + 1]
    BY <1>10, ExecuteIs DEF Popped
  <2>2. \A i \in 1..Len(todo') : i + 1 \in 1..Len(todo)
    BY <1>0, <2>1
  <2> QED
    BY <2>1, <2>2 DEF Signed
<1> QED
  BY <1>4, <1>5, <1>6, <1>7, <1>8, <1>9, <1>10 DEF Next, ClientStep, ConnStep, ServerStep

LEMMA ShapeInit == Init => Shape
<1> SUFFICES ASSUME Init PROVE Shape
  OBVIOUS
<1>1. Len(todo) = 0 /\ Len(answers) = 0 /\ \A S : <<>> \in Seq(S)
  BY EmptySeq DEF Init
<1>2. HolderTyped
  BY <1>1 DEF Init, HolderTyped
<1>3. ServerTyped
  BY DEF Init, ServerTyped, NoSavepoint
<1>4. FlagsTyped /\ QueuesTyped
  BY <1>1 DEF Init, FlagsTyped, QueuesTyped
<1>5. Standing /\ Nested
  BY CallsAre DEF Init, Standing, Nested, Calls, Plain
<1>6. Awaited /\ Dead /\ Idle /\ Signed
  BY <1>1 DEF Init, Awaited, Dead, Idle, Signed
<1> QED
  BY <1>2, <1>3, <1>4, <1>5, <1>6 DEF Shape

LEMMA ShapeStep == Shape /\ [Next]_vars => Shape'
BY HolderTypedStep, ServerTypedStep, FlagsTypedStep, QueuesTypedStep, StandingStep, NestedStep, AwaitedStep,
   DeadStep, IdleStep, SignedStep DEF Shape

-----------------------------------------------------------------------------
(* What a user finds: nothing of earlier ones but their work, unless a     *)
(* DISCARD ALL was rejected.                                               *)

\* Requests are queued visit by visit.
Ordered ==
  /\ \A i \in 1..Len(todo) : todo[i].by <= visit
  /\ \A i, j \in 1..Len(todo) : i < j /\ todo[j].by # 0 => todo[i].by <= todo[j].by

\* The session is free of earlier visits, and of what earlier visits queued only work is
\* left, before anything else.
Mine ==
  /\ begun \in {None, visit} /\ effects \subseteq {visit}
  /\ \A i \in 1..Len(todo) : todo[i].stmt # "work" => todo[i].by \in {visit, 0}
  /\ \A i \in 1..Len(todo) : todo[i].by \notin {visit, 0} => begun = None /\ effects = {}

\* Nothing is to be reset.
Untouched == begun = None /\ effects = {} /\ \A i \in 1..Len(todo) : todo[i].stmt = "work"

\* What is to be reset has been noticed.
Noticed ==
  /\ mutated \/ op = "reset" \/ Untouched
  /\ op \notin {None, "work", "reset"} \/ kind # "none" => mutated
  /\ holder = "none" => Untouched
  /\ op = "reset" /\ pc = "waiting" /\ Len(todo) = 0 => begun = None /\ effects = {}

Own == Ordered /\ ("DISCARD" \notin rejected => Mine /\ Noticed)

LEMMA OrderedStep ==
  ASSUME Shape, Ordered, [Next]_vars
  PROVE  Ordered'
<1> USE DEF Shape
<1>0. Len(todo) \in Nat /\ visit \in Nat /\ \A i \in 1..Len(todo) : todo[i].by \in Nat
  <2>1. Len(todo) \in Nat /\ \A i \in 1..Len(todo) : todo[i] \in Requests
    BY EmptyLength DEF QueuesTyped
  <2> QED
    BY <2>1 DEF HolderTyped, Requests
<1>1. ASSUME UNCHANGED <<todo, visit>> PROVE Ordered'
  BY <1>1 DEF Ordered
<1>2. ASSUME Len(todo') = 0 PROVE Ordered'
  BY <1>2 DEF Ordered
<1>3. Destroy => Len(todo') = 0
  BY EmptySeq DEF Destroy, Clean
<1>4. CASE (\E o \in Calls : Start(o)) \/ Release \/ SendCancel \/ CancelMisses \/ NoticeDead \/ UNCHANGED vars
  BY <1>1, <1>4 DEF Start, Release, SendCancel, CancelMisses, NoticeDead, vars, clientVars
<1>5. CASE ReadAnswer
  BY <1>1, <1>5 DEF ReadAnswer, Returns, clientVars
<1>6. CASE Checkout
  <2>1. visit' = visit + 1 /\ UNCHANGED todo
    BY <1>6 DEF Checkout
  <2>2. \A i \in 1..Len(todo) : todo[i].by <= visit + 1
    BY <1>0 DEF Ordered
  <2> QED
    BY <2>1, <2>2 DEF Ordered
<1>7. CASE DropCall \/ DropScope
  <2>1. /\ Len(todo') = Len(todo) /\ visit' = visit
        /\ \A i \in 1..Len(todo) : todo'[i].by = todo[i].by
    BY <1>7, QuietTodo DEF DropCall, DropScope, clientVars
  <2> QED
    BY <2>1 DEF Ordered
<1>8. ASSUME Len(todo') = Len(todo) + 1, \A i \in 1..Len(todo) : todo'[i] = todo[i], UNCHANGED visit,
             todo'[Len(todo) + 1].by \in {0, visit}
      PROVE  Ordered'
  <2>1. \A i \in 1..Len(todo') : i \in 1..Len(todo) \/ i = Len(todo) + 1
    BY <1>0, <1>8
  <2>2. \A i \in 1..Len(todo') : todo'[i].by <= visit'
    BY <1>0, <1>8, <2>1 DEF Ordered
  <2>3. ASSUME NEW i \in 1..Len(todo'), NEW j \in 1..Len(todo'), i < j, todo'[j].by # 0
        PROVE  todo'[i].by <= todo'[j].by
    <3>1. i \in 1..Len(todo)
      BY <1>0, <1>8, <2>3
    <3>2. CASE j \in 1..Len(todo)
      BY <1>8, <2>3, <3>1, <3>2 DEF Ordered
    <3>3. CASE j = Len(todo) + 1
      BY <1>8, <2>3, <3>1, <3>3 DEF Ordered
    <3> QED
      BY <2>1, <3>2, <3>3
  <2> QED
    BY <2>2, <2>3 DEF Ordered
<1>9. CASE DropGuard
  <2>1. UNCHANGED visit
    BY <1>9 DEF DropGuard
  <2>2. CASE Pushed(todo, todo', Request(visit, "ROLLBACK", Here, FALSE))
    <3>1. todo'[Len(todo) + 1].by = visit
      BY <2>2 DEF Pushed, Request
    <3> QED
      BY <1>8, <2>1, <2>2, <3>1 DEF Pushed
  <2> QED
    BY <1>1, <1>9, <2>1, <2>2, DropGuardIs
<1>10. CASE PoolStep
  BY <1>1, <1>2, <1>3, <1>10 DEF PoolStep, ReturnCheck, Reset, Evict, clientVars
<1>11. CASE Closed
  BY <1>1, <1>2, <1>3, <1>11 DEF Closed, Returns
<1>12. CASE Submit
  <2>1. Len(todo') = Len(todo) + 1 /\ \A i \in 1..Len(todo) : todo'[i] = todo[i]
    BY <1>12, SubmitIs DEF Pushed
  <2>2. todo'[Len(todo) + 1].by \in {0, visit}
    BY <1>12, SubmittedBy
  <2>3. UNCHANGED visit
    BY <1>12 DEF Submit, clientVars
  <2> QED
    BY <1>8, <2>1, <2>2, <2>3
<1>13. CASE Lose
  BY <1>2, <1>13, LoseIs
<1>14. CASE Execute
  <2>1. /\ Len(todo') = Len(todo) - 1 /\ \A i \in 1..Len(todo') : todo'[i] = todo[i + 1]
    BY <1>14, ExecuteIs DEF Popped
  <2>2. \A i \in 1..Len(todo') : i + 1 \in 1..Len(todo)
    BY <1>0, <2>1
  <2>3. \A i, j \in 1..Len(todo') : i < j => i + 1 < j + 1
    BY <1>0
  <2>4. UNCHANGED visit
    BY <1>14 DEF Execute, clientVars
  <2>5. \A i \in 1..Len(todo') : todo'[i].by <= visit'
    BY <2>1, <2>2, <2>4 DEF Ordered
  <2>6. \A i, j \in 1..Len(todo') : i < j /\ todo'[j].by # 0 => todo'[i].by <= todo'[j].by
    BY <2>1, <2>2, <2>3 DEF Ordered
  <2> QED
    BY <2>5, <2>6 DEF Ordered
<1> QED
  BY <1>4, <1>5, <1>6, <1>7, <1>9, <1>10, <1>11, <1>12, <1>13, <1>14 DEF Next, ClientStep, ConnStep, ServerStep

LEMMA OwnStep ==
  ASSUME Shape, Own, [Next]_vars
  PROVE  Own'
<1> USE DEF Shape
<1>1. Ordered' /\ Ordered
  BY OrderedStep DEF Own
<1>2. SUFFICES ASSUME "DISCARD" \notin rejected' PROVE Mine' /\ Noticed'
  BY <1>1 DEF Own
<1>3. Len(todo) \in Nat /\ op \in Calls \cup {"reset", None}
  BY EmptyLength DEF QueuesTyped, HolderTyped
<1>4. ASSUME Len(todo') = 0, begun' = None, effects' = {}, mutated' \/ op' \in {None, "reset"},
             op' \notin {None, "work", "reset"} \/ kind' # "none" => mutated'
      PROVE  Mine' /\ Noticed'
  BY <1>4 DEF Mine, Noticed, Untouched
<1>5. Destroy => Mine' /\ Noticed'
  <2>1. ASSUME Destroy
        PROVE  /\ Len(todo') = 0 /\ begun' = None /\ effects' = {} /\ op' = None /\ kind' = "none"
    BY <2>1, EmptySeq DEF Destroy, Clean
  <2> QED
    BY <1>4, <2>1
<1>6. CASE Destroy
  BY <1>5, <1>6
<1>7. CASE ~Destroy
  <2>1. rejected \subseteq rejected'
    <3>1. CASE Execute
      <4>1. PICK e \in BOOLEAN : Answer(todo[1], e)
        BY <3>1, ExecuteIs
      <4> QED
        BY <4>1 DEF Answer
    <3>2. CASE ~Execute
      BY <1>7, <3>2
      DEF Next, ClientStep, PoolStep, ConnStep, ServerStep, Checkout, Start, DropCall, DropScope, DropGuard, Release,
          SendCancel, ReturnCheck, Reset, Evict, Submit, ReadAnswer, Lose, NoticeDead, Closed, CancelMisses, vars
    <3> QED
      BY <3>1, <3>2
  <2>2. Mine /\ Noticed
    BY <1>2, <2>1 DEF Own
  <2>3. ASSUME UNCHANGED <<begun, effects, todo, visit>> PROVE Mine' /\ (Untouched => Untouched')
    BY <2>2, <2>3 DEF Mine, Untouched
  <2>4. CASE Checkout
    <3>1. UNCHANGED <<begun, effects, todo, mutated, op, pc, kind>> /\ Untouched /\ holder' = "client"
      BY <2>2, <2>4 DEF Checkout, Noticed, flagVars, serverVars
    <3>2. Mine'
      BY <3>1 DEF Mine, Untouched
    <3> QED
      BY <2>2, <3>1, <3>2 DEF Noticed, Untouched
  <2>5. ASSUME NEW o \in Calls, Start(o) PROVE Mine' /\ Noticed'
    <3>1. UNCHANGED <<begun, effects, todo, visit, holder>> /\ op = None /\ op' = o /\ holder = "client"
          /\ mutated' = (mutated \/ Flagged(o)) /\ (kind' # "none" => kind # "none")
      BY <2>5 DEF Start, Standing, serverVars
    <3>2. mutated => mutated'
      BY <3>1
    <3>3. o # "work" => mutated'
      BY <3>1 DEF Flagged
    <3>4. mutated' \/ Untouched'
      BY <2>2, <2>3, <3>1, <3>2, CallsAre DEF Noticed
    <3>5. op' # "reset" /\ (op' \notin {None, "work", "reset"} \/ kind' # "none" => mutated')
      BY <2>2, <3>1, <3>2, <3>3, CallsAre DEF Noticed
    <3> QED
      BY <2>3, <3>1, <3>4, <3>5 DEF Noticed
  <2>6. CASE DropCall \/ DropScope
    <3>1. /\ UNCHANGED <<begun, effects, visit, mutated, holder>> /\ Len(todo') = Len(todo) /\ op' = None
          /\ \A i \in 1..Len(todo) : todo'[i].by = todo[i].by /\ todo'[i].stmt = todo[i].stmt
          /\ (kind' # "none" => kind # "none") /\ holder = "client"
      BY <2>6, QuietTodo DEF DropCall, DropScope, clientVars, flagVars, serverVars
    <3>2. op # "reset"
      BY <3>1 DEF Standing
    <3>3. Mine' /\ (Untouched => Untouched')
      BY <2>2, <3>1 DEF Mine, Untouched
    <3> QED
      BY <2>2, <3>1, <3>2, <3>3, CallsAre DEF Noticed
  <2>7. CASE Release \/ SendCancel \/ CancelMisses \/ NoticeDead \/ UNCHANGED vars
    <3>1. UNCHANGED <<begun, effects, todo, visit, mutated, op, kind>> /\ (holder' = "none" => holder = "none")
          /\ (pc' = "waiting" => pc = "waiting")
      BY <2>7 DEF Release, SendCancel, CancelMisses, NoticeDead, vars, clientVars, flagVars, serverVars
    <3> QED
      BY <2>2, <2>3, <3>1 DEF Noticed
  <2>8. CASE DropGuard
    <3>1. UNCHANGED <<begun, effects, visit, mutated, op, pc, holder>> /\ mutated /\ kind' = "none" /\ holder = "client"
          /\ pc = "ready"
      BY <2>2, <2>8 DEF DropGuard, Noticed, serverVars
    <3>2. CASE UNCHANGED todo
      BY <2>3, <3>1, <3>2 DEF Noticed
    <3>3. CASE Pushed(todo, todo', Request(visit, "ROLLBACK", Here, FALSE))
      <4>1. \A i \in 1..Len(todo') : i \in 1..Len(todo) \/ i = Len(todo) + 1
        BY <1>3, <3>3 DEF Pushed
      <4>2. todo'[Len(todo) + 1].by = visit /\ \A i \in 1..Len(todo) : todo'[i] = todo[i]
        BY <3>3 DEF Pushed, Request
      <4>3. Mine'
        BY <2>2, <3>1, <4>1, <4>2 DEF Mine
      <4> QED
        BY <3>1, <4>3 DEF Noticed
    <3> QED
      BY <2>8, <3>2, <3>3, DropGuardIs
  <2>9. CASE ReturnCheck
    <3>1. UNCHANGED <<begun, effects, todo, visit, mutated, op, kind, holder>> /\ pc' = "reset"
      BY <1>7, <2>9 DEF ReturnCheck, clientVars, flagVars, serverVars
    <3> QED
      BY <2>2, <2>3, <3>1 DEF Noticed
  <2>10. CASE Reset
    <3>1. UNCHANGED <<begun, effects, todo, visit, kind>> /\ op = None /\ kind = "none"
      BY <1>7, <2>10 DEF Reset, Standing, HolderTyped, clientVars, serverVars
    <3>2. CASE ~mutated /\ KeepIdle /\ UNCHANGED flagVars
      BY <2>2, <2>3, <3>1, <3>2, CallsAre DEF Noticed, KeepIdle, flagVars
    <3>3. CASE op' = "reset" /\ pc' = "sending" /\ UNCHANGED holder
      BY <2>2, <2>3, <2>10, <3>1, <3>3 DEF Noticed, Reset, Standing
    <3> QED
      BY <1>7, <2>10, <3>2, <3>3 DEF Reset
  <2>11. CASE Submit
    <3>1. UNCHANGED <<begun, effects, visit, mutated, op, kind, holder>> /\ holder # "none" /\ op # None
      BY <2>11 DEF Submit, Standing, clientVars, flagVars, serverVars
    <3>2. Len(todo') = Len(todo) + 1 /\ \A i \in 1..Len(todo) : todo'[i] = todo[i]
      BY <2>11, SubmitIs DEF Pushed
    <3>3. \A i \in 1..Len(todo') : i \in 1..Len(todo) \/ i = Len(todo) + 1
      BY <1>3, <3>2
    <3>4. todo'[Len(todo) + 1].by \in {0, visit} /\ todo'[Len(todo) + 1].stmt = Stmt(op)
      BY <2>11, SubmittedBy
    <3>5. Mine'
      BY <2>2, <3>1, <3>2, <3>3, <3>4 DEF Mine
    <3>6. Untouched /\ op = "work" => Untouched'
      BY <1>3, <3>1, <3>2, <3>3, <3>4 DEF Untouched, Stmt
    <3>7. Len(todo') # 0
      BY <1>3, <3>2
    <3> QED
      BY <2>2, <3>1, <3>5, <3>6, <3>7 DEF Noticed
  <2>12. ASSUME UNCHANGED <<begun, effects, todo, visit, holder>>, holder = "client", op' = None, mutated => mutated',
                kind' # "none" => kind # "none" \/ op \in {"begin", "atomic"}
         PROVE  Mine' /\ Noticed'
    <3>1. op # "reset"
      BY <2>12 DEF Standing
    <3>2. kind' # "none" => mutated'
      BY <2>2, <2>12, CallsAre DEF Noticed, Calls
    <3> QED
      BY <2>2, <2>3, <2>12, <3>1, <3>2, CallsAre DEF Noticed
  <2>13. ASSUME NEW ok \in BOOLEAN, Returns(ok), holder = "client"
         PROVE  /\ UNCHANGED <<visit, holder>> /\ op' = None
                /\ kind' # "none" => kind # "none" \/ op \in {"begin", "atomic"}
    <3>1. UNCHANGED <<visit, holder>> /\ op' = None /\ AfterCall(ok)
      BY <2>13 DEF Returns
    <3>2. kind' # "none" => kind # "none" \/ op \in {"begin", "atomic"}
      <4>1. CASE op \in {"begin", "atomic"}
        BY <4>1
      <4>2. CASE op \notin {"begin", "atomic"}
        <5>1. kind' = kind \/ kind' = "none"
          BY <3>1, <4>2 DEF AfterCall
        <5> QED
          BY <5>1
      <4> QED
        BY <4>1, <4>2
    <3> QED
      BY <3>1, <3>2
  <2>14. CASE ReadAnswer
    <3>1. UNCHANGED <<begun, effects, todo>> /\ (mutated => mutated')
      BY <2>14, ReadAnswerIs DEF serverVars
    <3>2. CASE answers[1].awaited
      <4>1. PICK ok \in BOOLEAN : Returns(ok)
        <5>1. Returns(~answers[1].error \/ answers[1].stmt \in Controls)
          BY <2>14, <3>2, GivenOut
        <5> QED
          BY <5>1
      <4>2. CASE holder = "client"
        BY <2>12, <2>13, <3>1, <4>1, <4>2
      <4>3. CASE holder = "pool"
        <5>1. op' = None /\ UNCHANGED <<kind, visit>> /\ kind = "none"
          BY <4>1, <4>3 DEF Returns, KeepIdle, Standing
        <5>2. op = "reset" /\ pc = "waiting" /\ Len(todo) = 0
          BY <2>14, <3>2, <4>3, GivenOut DEF Standing
        <5> QED
          BY <1>4, <2>2, <3>1, <5>1, <5>2 DEF Noticed
      <4> QED
        BY <2>14, <3>2, <4>2, <4>3, GivenOut DEF Standing, HolderTyped
    <3>3. CASE ~answers[1].awaited
      <4>1. UNCHANGED <<holder, pc, op, kind, visit>>
        BY <2>14, <3>3, ReadAnswerIs DEF clientVars
      <4> QED
        BY <2>2, <2>3, <3>1, <4>1 DEF Noticed
    <3> QED
      BY <3>2, <3>3
  <2>15. CASE Closed
    <3>1. UNCHANGED <<begun, effects, todo, mutated>> /\ Returns(FALSE) /\ holder = "client"
      BY <1>7, <2>15 DEF Closed, flagVars, serverVars, Standing, HolderTyped
    <3> QED
      BY <2>12, <2>13, <3>1
  <2>16. CASE Lose
    <3>1. Len(todo') = 0 /\ begun' = None /\ effects' = {} /\ UNCHANGED <<mutated, op, kind>>
      BY <2>16, LoseIs DEF Lose, EndTransaction, clientVars, flagVars
    <3> QED
      BY <2>2, <3>1 DEF Mine, Noticed, Untouched
  <2>17. CASE Execute
    <3> DEFINE r == todo[1]
    <3>1. /\ UNCHANGED <<holder, pc, op, visit, kind, mutated>>
          /\ r \in Requests /\ Len(todo) # 0 /\ Len(todo') = Len(todo) - 1
          /\ \A i \in 1..Len(todo') : todo'[i] = todo[i + 1]
      BY <2>17, ExecuteIs DEF Popped, clientVars, flagVars
    <3>2. 1 \in 1..Len(todo) /\ \A i \in 1..Len(todo') : i + 1 \in 1..Len(todo) /\ 1 < i + 1
      BY <1>3, <3>1
    <3>3. /\ r.by \in Nat /\ (r.by = 0 <=> r.stmt = "DISCARD") /\ r.stmt \in Statements
          /\ r.stmt # "work" => r.by \in {visit, 0}
          /\ r.by \notin {visit, 0} => begun = None /\ effects = {}
      BY <2>2, <3>1, <3>2 DEF Mine, Signed, Requests
    \* What is behind a request of this visit is of this visit.
    <3>4. r.by = visit /\ visit # 0 => \A i \in 1..Len(todo') : todo'[i].by \in {visit, 0}
      <4>1. ASSUME r.by = visit, NEW i \in 1..Len(todo'), todo'[i].by # 0 PROVE todo'[i].by = visit
        <5>1. todo'[i].by <= visit /\ visit <= todo'[i].by
          BY <1>1, <3>1, <3>2, <4>1 DEF Ordered
        <5>2. todo'[i].by \in Nat /\ visit \in Nat
          <6>1. todo'[i] \in Requests
            BY <2>17, ExecuteIs, EmptyLength
          <6> QED
            BY <6>1 DEF Requests, HolderTyped
        <5> QED
          BY <5>1, <5>2
      <4> QED
        BY <4>1
    <3>5. (~Refuses(r) /\ Perform(r)) \/ (Spoil(r) /\ Answer(r, TRUE))
      BY <2>17, ExecuteIs
    <3>6. /\ \A i \in 1..Len(todo') : todo'[i].stmt # "work" => todo'[i].by \in {visit, 0}
          /\ \A i \in 1..Len(todo') : todo'[i].by \notin {visit, 0} => begun = None /\ effects = {}
      BY <2>2, <3>1, <3>2 DEF Mine
    <3> HIDE DEF r
    \* The session is as before, or reset, or a transaction ended, or this visit has touched it.
    <3>7. \/ UNCHANGED <<begun, effects>>
          \/ begun' = None /\ UNCHANGED effects
          \/ effects' = {} /\ begun = None /\ UNCHANGED begun
          \/ r.stmt # "work" /\ r.by = visit /\ visit # 0 /\ begun' \in {begun, visit} /\ effects' \subseteq effects \cup {visit}
      <4>1. CASE Spoil(r)
        BY <4>1 DEF Spoil, EndTransaction
      <4>2. CASE ~Refuses(r) /\ Perform(r)
        <5>1. CASE r.stmt \in {"work", "SAVEPOINT", "RELEASE", "ROLLBACK TO"}
          BY <4>2, <5>1 DEF Perform
        <5>2. CASE r.stmt = "lock"
          BY <3>3, <4>2, <5>2 DEF Perform
        <5>3. CASE r.stmt = "BEGIN"
          BY <3>3, <4>2, <5>3 DEF Perform
        <5>4. CASE r.stmt \in {"COMMIT", "ROLLBACK"}
          BY <4>2, <5>4 DEF Perform, EndTransaction
        <5>5. CASE r.stmt = "DISCARD"
          BY <4>2, <5>5 DEF Perform, Refuses, Idle
        <5> QED
          BY <3>3, <5>1, <5>2, <5>3, <5>4, <5>5 DEF Statements, Plain, Controls
      <4> QED
        BY <3>5, <4>1, <4>2
    <3>8. begun' \in {None, visit} /\ effects' \subseteq {visit}
      BY <2>2, <3>7 DEF Mine
    <3>9. \A i \in 1..Len(todo') : todo'[i].by \notin {visit, 0} => begun' = None /\ effects' = {}
      BY <3>4, <3>6, <3>7
    <3>10. Mine'
      BY <3>1, <3>6, <3>8, <3>9 DEF Mine
    <3>11. Untouched => Untouched'
      <4>1. ASSUME Untouched PROVE r.stmt = "work" /\ \A i \in 1..Len(todo') : todo'[i].stmt = "work"
        BY <3>1, <3>2, <4>1 DEF Untouched, r
      <4>2. ASSUME Untouched PROVE begun' = None /\ effects' = {}
        BY <3>7, <4>1, <4>2 DEF Untouched
      <4> QED
        BY <4>1, <4>2 DEF Untouched
    <3>12. op = "reset" /\ pc = "waiting" /\ Len(todo') = 0 => begun' = None /\ effects' = {}
      <4>1. SUFFICES ASSUME op = "reset", pc = "waiting", Len(todo') = 0 PROVE begun' = None /\ effects' = {}
        OBVIOUS
      <4>2. r.stmt = "DISCARD"
        <5>1. Len(todo) = 1
          BY <1>3, <3>1, <4>1
        <5>2. r.awaited
          BY <4>1, <5>1 DEF Awaited, r
        <5>3. r.stmt = Stmt(op)
          BY <3>2, <5>2 DEF Awaited, r
        <5> QED
          BY <4>1, <5>3 DEF Stmt
      <4>3. ~(Spoil(r) /\ Answer(r, TRUE))
        BY <1>2, <4>2 DEF Answer
      <4> QED
        BY <3>5, <4>2, <4>3 DEF Perform, Refuses, Idle
    <3> QED
      BY <2>2, <3>1, <3>10, <3>11, <3>12 DEF Noticed
  <2> QED
    BY <1>7, <2>4, <2>5, <2>6, <2>7, <2>8, <2>9, <2>10, <2>11, <2>14, <2>15, <2>16, <2>17
    DEF Next, ClientStep, PoolStep, ConnStep, ServerStep, Evict
<1> QED
  BY <1>6, <1>7

LEMMA OwnInit == Init => Own
<1> SUFFICES ASSUME Init PROVE Own
  OBVIOUS
<1>1. Len(todo) = 0 /\ begun = None /\ effects = {} /\ op = None /\ kind = "none"
  BY EmptySeq DEF Init
<1> QED
  BY <1>1 DEF Own, Ordered, Mine, Noticed, Untouched

LEMMA ShapeAlways == Spec => []Shape
BY ShapeInit, ShapeStep, PTL DEF Spec

LEMMA OwnAlways == Spec => [](Shape /\ Own)
<1>1. Init => Shape /\ Own
  BY ShapeInit, OwnInit
<1>2. (Shape /\ Own) /\ [Next]_vars => (Shape /\ Own)'
  BY ShapeStep, OwnStep
<1> QED
  BY <1>1, <1>2, PTL DEF Spec

\* The request that is executed is the first of the queue.
LEMMA ExecutesFirst ==
  ASSUME Shape, NEW r \in {todo[i] : i \in DOMAIN todo}, Executes(r)
  PROVE  r = todo[1] /\ 1 \in 1..Len(todo)
<1>1. todo \in Seq(Requests) /\ Len(todo) \in Nat /\ DOMAIN todo = 1..Len(todo)
  BY EmptyLength DEF Shape, QueuesTyped
<1>2. Len(todo) # 0
  BY <1>1
<1>3. todo # <<>>
  BY <1>2, EmptySeq
<1> QED
  BY <1>1, <1>2, <1>3, TailPops DEF Executes

\* The statements of a checkout run in a session without locks, settings or an open
\* transaction of an earlier one, as long as no DISCARD ALL was rejected (pooled.rs:151-216,
\* async_wire.rs:77-103), whatever futures and guards earlier users dropped.
THEOREM OwnSessionAlways == Spec => OwnSession
<1>1. ASSUME Shape, Own, NEW r \in {todo[i] : i \in DOMAIN todo}, Executes(r), r.by # 0, "DISCARD" \notin rejected
      PROVE  begun \in {None, r.by} /\ effects \subseteq {r.by}
  <2>1. r = todo[1] /\ 1 \in 1..Len(todo)
    BY <1>1, ExecutesFirst
  <2> QED
    BY <1>1, <2>1 DEF Own, Mine
<1>2. Shape /\ Own => [\A r \in {todo[i] : i \in DOMAIN todo} :
         Executes(r) /\ r.by # 0 /\ "DISCARD" \notin rejected =>
           begun \in {None, r.by} /\ effects \subseteq {r.by}]_vars
  BY <1>1
<1> QED
  BY <1>2, OwnAlways, PTL DEF OwnSession

-----------------------------------------------------------------------------
(* What becomes of the transaction of the session.                         *)

\* Only an end ends it, unless a cancel request hits the end, and only BEGIN begins one,
\* unless a cancel request hits the BEGIN.
LEMMA ExecuteTxn ==
  ASSUME Shape, Execute
  PROVE  /\ todo[1].stmt \notin Ends \cup {"BEGIN"} => ((txn' = "idle") <=> (txn = "idle"))
         /\ todo[1].stmt = "BEGIN" => txn' # "idle" \/ (txn = "idle" /\ struck' /\ "BEGIN" \in rejected')
         /\ todo[1].stmt \in Ends => txn' = "idle" \/ (struck' /\ txn' = "failed")
         /\ (struck => struck') /\ rejected \subseteq rejected'
         /\ txn' = "open" => txn = "open" \/ todo[1].stmt \in {"BEGIN", "ROLLBACK TO"}
<1> USE DEF Shape
<1> DEFINE r == todo[1]
<1>1. /\ r \in Requests /\ Len(todo) \in Nat \ {0}
      /\ \/ ~Refuses(r) /\ Perform(r) /\ Answer(r, FALSE) /\ UNCHANGED <<cancel, struck>>
         \/ (Refuses(r) \/ MayFail(r)) /\ ~cancel /\ Spoil(r) /\ Answer(r, TRUE) /\ UNCHANGED <<cancel, struck>>
         \/ cancel /\ Spoil(r) /\ Answer(r, TRUE) /\ cancel' = FALSE /\ struck' = TRUE
  BY ExecuteIs
<1>2. r.stmt \in Statements /\ (r.stmt \in SavepointStmts => r.scope # 0)
  <2>1. 1 \in 1..Len(todo)
    BY <1>1
  <2> QED
    BY <1>1, <2>1 DEF Requests, Signed
<1> HIDE DEF r
<1>3. txn \in {"idle", "open", "failed"}
  BY DEF ServerTyped
<1>4. CASE ~Refuses(r) /\ Perform(r) /\ Answer(r, FALSE) /\ UNCHANGED <<cancel, struck>>
  <2>1. UNCHANGED rejected /\ UNCHANGED struck
    BY <1>4 DEF Answer
  <2>2. CASE r.stmt \in {"work", "lock", "SAVEPOINT", "RELEASE", "DISCARD"}
    <3>1. UNCHANGED txn
      BY <1>4, <2>2 DEF Perform
    <3> QED
      BY <2>1, <2>2, <3>1 DEF Ends, r
  <2>3. CASE r.stmt = "BEGIN"
    <3>1. txn' # "idle"
      BY <1>4, <2>3 DEF Perform
    <3> QED
      BY <2>1, <2>3, <3>1 DEF Ends, r
  <2>4. CASE r.stmt \in {"COMMIT", "ROLLBACK"}
    <3>1. txn' = "idle"
      BY <1>4, <2>4 DEF Perform, EndTransaction
    <3> QED
      BY <2>1, <2>4, <3>1 DEF Ends, r
  <2>5. CASE r.stmt = "ROLLBACK TO"
    <3>1. saved.scope = r.scope /\ r.scope # 0
      BY <1>2, <1>4, <2>5 DEF Refuses, SavepointStmts
    <3>2. saved # NoSavepoint
      BY <3>1 DEF NoSavepoint
    <3>3. txn # "idle"
      BY <3>2 DEF Idle
    <3>4. txn' = "open"
      BY <1>4, <2>5 DEF Perform
    <3> QED
      BY <2>1, <2>5, <3>3, <3>4 DEF Ends, r
  <2> QED
    BY <1>2, <2>2, <2>3, <2>4, <2>5 DEF Statements, Plain, Controls
<1>5. CASE (Refuses(r) \/ MayFail(r)) /\ ~cancel /\ Spoil(r) /\ Answer(r, TRUE) /\ UNCHANGED <<cancel, struck>>
  <2>1. rejected \subseteq rejected' /\ UNCHANGED struck
    BY <1>5 DEF Answer
  <2>2. r.stmt # "ROLLBACK"
    BY <1>5 DEF Refuses, MayFail
  <2>3. r.stmt = "BEGIN" => txn = "failed"
    BY <1>5 DEF Refuses, MayFail
  <2>4. CASE r.stmt = "COMMIT"
    <3>1. txn' = "idle"
      BY <1>5, <2>4 DEF Spoil, EndTransaction
    <3> QED
      BY <2>1, <2>4, <3>1 DEF Ends, r
  <2>5. CASE r.stmt # "COMMIT"
    <3>1. txn' = IF txn = "idle" THEN "idle" ELSE "failed"
      BY <1>5, <2>5 DEF Spoil
    <3> QED
      BY <2>1, <2>2, <2>3, <2>5, <3>1 DEF Ends, r
  <2> QED
    BY <2>4, <2>5
<1>6. CASE cancel /\ Spoil(r) /\ Answer(r, TRUE) /\ cancel' = FALSE /\ struck' = TRUE
  <2>1. rejected \subseteq rejected' /\ struck'
    BY <1>6 DEF Answer
  <2>2. txn' = IF txn = "idle" THEN "idle" ELSE "failed"
    BY <1>6 DEF Spoil
  <2>3. r.stmt = "BEGIN" => "BEGIN" \in rejected'
    BY <1>6 DEF Answer
  <2> QED
    BY <2>1, <2>2, <2>3 DEF r, Ends
<1> QED
  BY <1>1, <1>4, <1>5, <1>6

\* When the first n requests have been executed, a transaction is open.
Inside(n) ==
  \/ txn # "idle" /\ \A k \in 1..n : todo[k].stmt \notin Ends
  \/ \E j \in 1..n : todo[j].stmt = "BEGIN" /\ \A k \in (j + 1)..n : todo[k].stmt \notin Ends

\* The holder is in a transaction, as far as it has queued requests.
Within == \/ scope # <<>> /\ ~(op \in {"succeed", "fail"} /\ pc = "waiting")
          \/ op \in {"begin", "atomic"} /\ pc = "waiting"

Unspoilt == ~lost /\ ~(struck /\ "BEGIN" \in rejected)

InTransaction ==
  Unspoilt =>
    /\ \A i \in 1..Len(todo) : todo[i].stmt = "work" /\ todo[i].scope # 0 => Inside(i - 1)
    /\ Within => Inside(Len(todo))

LEMMA InsideKept ==
  ASSUME NEW n \in Nat, txn' = txn, \A i \in 1..n : todo'[i].stmt = todo[i].stmt, Inside(n)
  PROVE  Inside(n)'
<1>1. CASE txn # "idle" /\ \A k \in 1..n : todo[k].stmt \notin Ends
  BY <1>1 DEF Inside
<1>2. ASSUME NEW j \in 1..n, todo[j].stmt = "BEGIN", \A k \in (j + 1)..n : todo[k].stmt \notin Ends
      PROVE  Inside(n)'
  <2>1. \A k \in (j + 1)..n : k \in 1..n
    OBVIOUS
  <2> QED
    BY <1>2, <2>1 DEF Inside
<1> QED
  BY <1>1, <1>2 DEF Inside

LEMMA InsidePopped ==
  ASSUME Shape, Execute, Unspoilt', NEW n \in 1..Len(todo), Inside(n)
  PROVE  Inside(n - 1)'
<1>1. /\ Len(todo) \in Nat \ {0} /\ Len(todo') = Len(todo) - 1
      /\ \A i \in 1..Len(todo') : todo'[i] = todo[i + 1]
  BY ExecuteIs DEF Shape, Popped
<1>2. n \in Nat \ {0} /\ n - 1 \in Nat /\ 1 \in 1..n
      /\ \A k \in 1..(n - 1) : k + 1 \in 1..n /\ todo'[k] = todo[k + 1]
  BY <1>1
<1>3. todo[1].stmt = "BEGIN" => txn' # "idle"
  BY ExecuteTxn DEF Unspoilt
<1>4. CASE txn # "idle" /\ \A k \in 1..n : todo[k].stmt \notin Ends
  <2>1. txn' # "idle"
    BY <1>2, <1>3, <1>4, ExecuteTxn
  <2>2. \A k \in 1..(n - 1) : todo'[k].stmt \notin Ends
    BY <1>2, <1>4
  <2> QED
    BY <2>1, <2>2 DEF Inside
<1>5. ASSUME NEW j \in 1..n, todo[j].stmt = "BEGIN", \A k \in (j + 1)..n : todo[k].stmt \notin Ends
      PROVE  Inside(n - 1)'
  <2>1. CASE j = 1
    <3>1. \A k \in 1..(n - 1) : k + 1 \in (j + 1)..n
      BY <1>2, <2>1
    <3>2. \A k \in 1..(n - 1) : todo'[k].stmt \notin Ends
      BY <1>2, <1>5, <3>1
    <3> QED
      BY <1>3, <1>5, <2>1, <3>2 DEF Inside
  <2>2. CASE j # 1
    <3>1. j - 1 \in 1..(n - 1) /\ (j - 1) + 1 = j
      BY <1>2, <2>2
    <3>2. todo'[j - 1].stmt = "BEGIN"
      BY <1>2, <1>5, <3>1
    <3>3. \A k \in ((j - 1) + 1)..(n - 1) : k \in 1..(n - 1) /\ k + 1 \in (j + 1)..n
      BY <1>2, <3>1
    <3>4. \A k \in ((j - 1) + 1)..(n - 1) : todo'[k].stmt \notin Ends
      BY <1>2, <1>5, <3>3
    <3> QED
      BY <3>1, <3>2, <3>4 DEF Inside
  <2> QED
    BY <2>1, <2>2
<1> QED
  BY <1>4, <1>5 DEF Inside

\* A connection that is destroyed takes its history with it; every other step keeps it.
LEMMA HistoryKept ==
  ASSUME Shape, [Next]_vars, ~Destroy
  PROVE  /\ (lost => lost') /\ (struck => struck') /\ (abandoned => abandoned') /\ (broken => broken')
         /\ rejected \subseteq rejected' /\ asked \subseteq asked'
<1> USE DEF Shape
<1>1. CASE Execute
  <2>1. (struck => struck') /\ rejected \subseteq rejected'
    BY <1>1, ExecuteTxn
  <2>2. UNCHANGED <<lost, abandoned, broken, asked>>
    BY <1>1 DEF Execute, clientVars, flagVars
  <2> QED
    BY <2>1, <2>2
<1>2. ASSUME NEW o \in Calls, Start(o) PROVE UNCHANGED <<lost, struck, abandoned, broken, rejected>> /\ asked \subseteq asked'
  BY <1>2 DEF Start, cancelVars
<1>5. CASE DropGuard
  <2>1. UNCHANGED <<lost, struck, abandoned, rejected, asked>>
    BY <1>5 DEF DropGuard, cancelVars
  <2>2. broken => broken'
    BY <1>5, DropGuardIs
  <2> QED
    BY <2>1, <2>2
<1>6. CASE Checkout \/ DropCall \/ DropScope \/ Release \/ SendCancel
  BY <1>6 DEF Checkout, DropCall, DropScope, Release, SendCancel, clientVars, flagVars, cancelVars
<1>7. CASE PoolStep
  BY <1>7 DEF PoolStep, ReturnCheck, Reset, Evict, clientVars, flagVars, cancelVars
<1>8. CASE Submit \/ NoticeDead \/ CancelMisses \/ UNCHANGED vars
  <2>1. UNCHANGED <<lost, struck, abandoned, broken, rejected, asked>>
    BY <1>8 DEF Submit, NoticeDead, CancelMisses, vars, clientVars, flagVars, cancelVars
  <2> QED
    BY <2>1
<1>9. CASE Lose
  <2>1. lost' = TRUE /\ UNCHANGED <<struck, abandoned, broken, rejected, asked>>
    BY <1>9 DEF Lose, clientVars, flagVars, cancelVars
  <2> QED
    BY <2>1
<1>3. CASE ReadAnswer
  BY <1>3, ReadAnswerIs DEF Returns, clientVars, cancelVars
<1>4. CASE Closed
  BY <1>4 DEF Closed, Returns, flagVars, cancelVars
<1> QED
  BY <1>1, <1>2, <1>3, <1>4, <1>5, <1>6, <1>7, <1>8, <1>9 DEF Next, ClientStep, ConnStep, ServerStep

\* What a call that returns leaves.
LEMMA ReturnsIs ==
  ASSUME Shape, NEW ok \in BOOLEAN, Returns(ok), pc \in {"sending", "waiting"}
  PROVE  /\ op' = None /\ pc' = "ready"
         /\ holder = "pool" => UNCHANGED <<kind, scope>>
         /\ op \in {"begin", "atomic"} =>
              IF ok THEN kind' \in {"guard", "atomic"} /\ scope' = <<scopes>> ELSE UNCHANGED <<kind, scope>>
         /\ op = "nest" => IF ok THEN kind' = kind /\ scope' = Append(scope, scopes) ELSE UNCHANGED <<kind, scope>>
         /\ op \in {"succeed", "fail"} => kind' = "none" /\ scope' = <<>>
         /\ op \in {"release", "undo"} => kind' = kind /\ scope' = <<scope[1]>>
         /\ op \notin {"begin", "atomic", "nest", "succeed", "fail", "release", "undo"} => UNCHANGED <<kind, scope>>
<1> USE DEF Shape
<1>1. op' = None /\ pc' = "ready"
  BY DEF Returns, KeepIdle
<1>2. CASE holder = "pool"
  <2>1. op = "reset" /\ UNCHANGED <<kind, scope>>
    BY <1>2 DEF Returns, Standing
  <2> QED
    BY <1>1, <2>1
<1>3. CASE holder # "pool"
  <2>1. AfterCall(ok)
    BY <1>3 DEF Returns
  <2>2. CASE op \in {"begin", "atomic"}
    BY <1>1, <1>3, <2>1, <2>2 DEF AfterCall
  <2>3. CASE op = "nest"
    BY <1>1, <1>3, <2>1, <2>3 DEF AfterCall
  <2>4. CASE op \in {"succeed", "fail"}
    BY <1>1, <1>3, <2>1, <2>4 DEF AfterCall
  <2>5. CASE op \in {"release", "undo"}
    BY <1>1, <1>3, <2>1, <2>5 DEF AfterCall
  <2>6. CASE op \notin {"begin", "atomic", "nest", "succeed", "fail", "release", "undo"}
    BY <1>1, <1>3, <2>1, <2>6 DEF AfterCall
  <2> QED
    BY <2>2, <2>3, <2>4, <2>5, <2>6
<1> QED
  BY <1>2, <1>3

\* An answer that is given out: a control statement never fails.
LEMMA GivenOutIs ==
  ASSUME Shape, ReadAnswer, answers[1].awaited
  PROVE  /\ pc = "waiting" /\ Len(todo) = 0 /\ UNCHANGED todo /\ op \in Calls \cup {"reset"}
         /\ \E ok \in BOOLEAN : Returns(ok) /\ (op \notin Plain => ok)
<1> USE DEF Shape
<1>1. /\ pc = "waiting" /\ Len(todo) = 0 /\ answers[1].stmt = Stmt(op)
      /\ Returns(~answers[1].error \/ answers[1].stmt \in Controls)
  BY GivenOut
<1>2. op \in Calls \cup {"reset"}
  BY <1>1 DEF Standing, HolderTyped
<1>3. UNCHANGED todo
  BY ReadAnswerIs
<1>4. op \notin Plain => Stmt(op) \in Controls
  <2>1. Stmt(op) \in Statements /\ (Stmt(op) = "work" <=> op = "work") /\ (Stmt(op) = "lock" <=> op = "lock")
    BY <1>2, StmtIs
  <2> QED
    BY <2>1 DEF Statements, Plain
<1> DEFINE ok == ~answers[1].error \/ answers[1].stmt \in Controls
<1>5. ok \in BOOLEAN /\ Returns(ok) /\ (op \notin Plain => ok)
  BY <1>1, <1>4
<1> HIDE DEF ok
<1> QED
  BY <1>1, <1>2, <1>3, <1>5

LEMMA InTransactionStep ==
  ASSUME Shape, InTransaction, [Next]_vars
  PROVE  InTransaction'
<1> USE DEF Shape
<1>0. Len(todo) \in Nat
  BY EmptyLength DEF QueuesTyped
<1>1. CASE Destroy
  <2>1. Len(todo') = 0 /\ scope' = <<>> /\ pc' = "ready"
    BY <1>1, EmptySeq DEF Destroy, Clean
  <2> QED
    BY <2>1 DEF InTransaction, Within
<1>2. CASE ~Destroy
  <2>1. Unspoilt' => Unspoilt
    BY <1>2, HistoryKept DEF Unspoilt
  \* Nothing is queued or executed.
  <2>2. ASSUME txn' = txn, Len(todo') = Len(todo), Within' => Within,
               \A i \in 1..Len(todo) : todo'[i].stmt = todo[i].stmt /\ todo'[i].scope = todo[i].scope
        PROVE  InTransaction'
    <3>1. SUFFICES ASSUME Unspoilt'
                   PROVE  /\ \A i \in 1..Len(todo') : todo'[i].stmt = "work" /\ todo'[i].scope # 0 => Inside(i - 1)'
                          /\ Within' => Inside(Len(todo))'
      BY DEF InTransaction
    <3>2. ASSUME NEW i \in 1..Len(todo), todo[i].stmt = "work", todo[i].scope # 0 PROVE Inside(i - 1)'
      <4>1. Inside(i - 1)
        BY <2>1, <3>1, <3>2 DEF InTransaction
      <4>2. i - 1 \in Nat /\ \A k \in 1..(i - 1) : k \in 1..Len(todo)
        BY <1>0
      <4> QED
        BY <2>2, <4>1, <4>2, InsideKept
    <3>3. ASSUME Within PROVE Inside(Len(todo))'
      <4>1. Inside(Len(todo))
        BY <2>1, <3>1, <3>3 DEF InTransaction
      <4>2. Inside(Len(todo)') <=> Inside(Len(todo))
        BY <2>2
      <4> QED
        BY <1>0, <2>2, <4>1, InsideKept
    <3> QED
      BY <2>2, <3>2, <3>3
  \* A request is queued behind the others.
  <2>3. ASSUME txn' = txn, Len(todo') = Len(todo) + 1, \A i \in 1..Len(todo) : todo'[i] = todo[i],
               LET r == todo'[Len(todo) + 1]
               IN  /\ r.stmt = "work" /\ r.scope # 0 => Within
                   /\ Within' => r.stmt = "BEGIN" \/ (Within /\ r.stmt \notin Ends)
        PROVE  InTransaction'
    <3>0. PICK n \in Nat : n = Len(todo)
      BY <1>0
    <3>1. SUFFICES ASSUME Unspoilt'
                   PROVE  /\ \A i \in 1..(n + 1) : todo'[i].stmt = "work" /\ todo'[i].scope # 0 => Inside(i - 1)'
                          /\ Within' => Inside(n + 1)'
      <4>1. Len(todo') = n + 1
        BY <2>3, <3>0
      <4>2. Inside(n + 1)' <=> Inside(Len(todo))'
        BY <4>1 DEF Inside
      <4> QED
        BY <4>1, <4>2 DEF InTransaction
    <3>2. \A i \in 1..(n + 1) : i \in 1..n \/ i = n + 1
      BY <3>0
    <3>3. ASSUME NEW i \in 1..n, todo[i].stmt = "work", todo[i].scope # 0 PROVE Inside(i - 1)'
      <4>1. Inside(i - 1)
        BY <2>1, <3>0, <3>1, <3>3 DEF InTransaction
      <4>2. i - 1 \in Nat /\ \A k \in 1..(i - 1) : k \in 1..n
        BY <3>0
      <4> QED
        BY <2>3, <3>0, <4>1, <4>2, InsideKept
    <3>4. Within => Inside(n)'
      <4>1. Within => Inside(n)
        BY <2>1, <3>0, <3>1 DEF InTransaction
      <4> QED
        BY <2>3, <3>0, <4>1, InsideKept
    <3>5. ASSUME Within' PROVE Inside(n + 1)'
      <4>1. n + 1 \in 1..(n + 1) /\ (n + 1) + 1 > n + 1
        BY <3>0
      <4>2. CASE todo'[n + 1].stmt = "BEGIN"
        <5>1. \A k \in ((n + 1) + 1)..(n + 1) : FALSE
          BY <3>0
        <5> QED
          BY <4>1, <4>2, <5>1 DEF Inside
      <4>3. CASE Within /\ todo'[n + 1].stmt \notin Ends
        <5>1. Inside(n)'
          BY <3>4, <4>3
        <5>2. CASE txn' # "idle" /\ \A k \in 1..n : todo'[k].stmt \notin Ends
          BY <3>2, <4>3, <5>2 DEF Inside
        <5>3. ASSUME NEW j \in 1..n, todo'[j].stmt = "BEGIN", \A k \in (j + 1)..n : todo'[k].stmt \notin Ends
              PROVE  Inside(n + 1)'
          <6>1. j \in 1..(n + 1) /\ \A k \in (j + 1)..(n + 1) : k \in (j + 1)..n \/ k = n + 1
            BY <3>0
          <6>2. \A k \in (j + 1)..(n + 1) : todo'[k].stmt \notin Ends
            BY <4>3, <5>3, <6>1
          <6> QED
            BY <5>3, <6>1, <6>2 DEF Inside
        <5> QED
          BY <5>1, <5>2, <5>3 DEF Inside
      <4> QED
        BY <2>3, <3>0, <3>5, <4>2, <4>3
    <3>6. todo'[n + 1].stmt = "work" /\ todo'[n + 1].scope # 0 => Inside((n + 1) - 1)'
      <4>1. (n + 1) - 1 = n
        BY <3>0
      <4> QED
        BY <2>3, <3>0, <3>4, <4>1
    <3> QED
      BY <2>3, <3>0, <3>2, <3>3, <3>5, <3>6
  <2>4. CASE Checkout \/ Release \/ SendCancel \/ CancelMisses \/ NoticeDead \/ UNCHANGED vars
    <3>1. UNCHANGED <<txn, todo, scope, op>> /\ (pc' = "waiting" <=> pc = "waiting")
      BY <2>4 DEF Checkout, Release, SendCancel, CancelMisses, NoticeDead, vars, clientVars, serverVars
    <3>2. Within' => Within
      BY <3>1 DEF Within
    <3> QED
      BY <2>2, <3>1, <3>2
  <2>5. ASSUME NEW o \in Calls, Start(o) PROVE InTransaction'
    <3>1. UNCHANGED <<txn, todo>> /\ pc = "ready" /\ pc' = "sending" /\ (scope' # <<>> => scope # <<>>)
      BY <2>5 DEF Start, serverVars
    <3>2. Within' => Within
      BY <3>1 DEF Within
    <3> QED
      BY <2>2, <3>1, <3>2
  <2>6. CASE DropCall \/ DropScope
    <3>1. /\ UNCHANGED txn /\ Len(todo') = Len(todo) /\ op' = None /\ pc' = "ready"
          /\ \A i \in 1..Len(todo) : todo'[i].scope = todo[i].scope /\ todo'[i].stmt = todo[i].stmt
      BY <2>6, QuietTodo DEF DropCall, DropScope, serverVars
    <3>2. scope' # <<>> => scope # <<>> /\ op \notin {"succeed", "fail"}
      <4>1. CASE DropCall
        BY <4>1 DEF DropCall, clientVars, Plain
      <4>2. CASE DropScope
        BY <4>2, ScopeIs DEF DropScope, Nested
      <4> QED
        BY <2>6, <4>1, <4>2
    <3>3. Within' => Within
      BY <3>1, <3>2 DEF Within
    <3> QED
      BY <2>2, <3>1, <3>3
  <2>7. CASE DropGuard
    <3>1. UNCHANGED txn /\ scope' = <<>> /\ pc' = "ready"
      BY <2>7 DEF DropGuard, serverVars
    <3>2. ~Within'
      BY <3>1 DEF Within
    <3>3. CASE UNCHANGED todo
      BY <2>2, <3>1, <3>2, <3>3
    <3>4. CASE Pushed(todo, todo', Request(visit, "ROLLBACK", Here, FALSE))
      <4>1. todo'[Len(todo) + 1].stmt = "ROLLBACK"
        BY <3>4 DEF Pushed, Request
      <4> QED
        BY <2>3, <3>1, <3>2, <3>4, <4>1 DEF Pushed
    <3> QED
      BY <2>7, <3>3, <3>4, DropGuardIs
  <2>8. CASE PoolStep
    <3>1. UNCHANGED <<txn, todo, scope>> /\ pc' # "waiting" /\ pc # "waiting"
      BY <1>2, <2>8 DEF PoolStep, ReturnCheck, Reset, KeepIdle, Evict, clientVars, serverVars
    <3>2. Within' => Within
      BY <3>1 DEF Within
    <3> QED
      BY <2>2, <3>1, <3>2
  <2>9. CASE Submit
    <3> DEFINE r == todo'[Len(todo) + 1]
    <3>1. UNCHANGED <<txn, scope, op>> /\ pc = "sending" /\ pc' = "waiting"
      BY <2>9 DEF Submit, clientVars, serverVars
    <3>2. Len(todo') = Len(todo) + 1 /\ \A i \in 1..Len(todo) : todo'[i] = todo[i]
      BY <2>9, SubmitIs DEF Pushed
    <3>3. r.stmt = Stmt(op) /\ op \in Calls \cup {"reset"} /\ r.scope = (IF op = "nest" THEN scopes ELSE Here)
      BY <2>9, SubmittedBy, SubmitIs
    <3> HIDE DEF r
    <3>4. /\ r.stmt = "work" <=> op = "work"
          /\ r.stmt = "BEGIN" <=> op \in {"begin", "atomic"}
          /\ r.stmt = "COMMIT" <=> op \in {"commit", "succeed"}
          /\ r.stmt = "ROLLBACK" <=> op \in {"rollback", "fail"}
      BY <3>3, StmtIs
    <3>5. r.stmt = "work" /\ r.scope # 0 => Within
      BY <3>1, <3>3, <3>4, HereIs DEF Within
    <3>6. Within' => r.stmt = "BEGIN" \/ (Within /\ r.stmt \notin Ends)
      <4>1. ASSUME Within', op \notin {"begin", "atomic"} PROVE Within /\ r.stmt \notin Ends
        <5>1. scope # <<>> /\ op \notin {"succeed", "fail"}
          BY <3>1, <4>1 DEF Within
        <5>2. op \notin {"commit", "rollback"}
          BY <5>1 DEF Nested
        <5> QED
          BY <3>4, <5>1, <5>2 DEF Within, Ends
      <4> QED
        BY <3>4, <4>1
    <3> QED
      BY <2>3, <3>1, <3>2, <3>5, <3>6 DEF r
  <2>10. ASSUME NEW ok \in BOOLEAN, Returns(ok), UNCHANGED <<txn, todo>>, pc \in {"sending", "waiting"},
                op \in {"begin", "atomic"} => ~ok \/ pc = "waiting"
         PROVE  InTransaction'
    <3>1. pc' = "ready"
      BY <2>10, ReturnsIs
    <3>2. scope' # <<>> => Within
      <4>1. CASE op \in {"begin", "atomic"}
        BY <2>10, <4>1, ReturnsIs DEF Within, Nested
      <4>2. CASE op \in {"succeed", "fail"}
        BY <2>10, <4>2, ReturnsIs
      <4>3. CASE op \in {"nest", "release", "undo"}
        BY <4>3, ScopeIs DEF Within, Nested
      <4>4. CASE op \notin {"begin", "atomic", "nest", "succeed", "fail", "release", "undo"}
        BY <2>10, <4>4, ReturnsIs DEF Within
      <4> QED
        BY <4>1, <4>2, <4>3, <4>4
    <3>3. Within' => Within
      BY <3>1, <3>2 DEF Within
    <3> QED
      BY <2>2, <2>10, <3>3
  <2>11. CASE ReadAnswer
    <3>1. UNCHANGED <<txn, todo>>
      BY <2>11, ReadAnswerIs DEF serverVars
    <3>2. CASE answers[1].awaited
      BY <2>10, <2>11, <3>1, <3>2, GivenOutIs
    <3>3. CASE ~answers[1].awaited
      <4>1. UNCHANGED <<scope, op, pc>>
        BY <2>11, <3>3, ReadAnswerIs DEF clientVars
      <4>2. Within' => Within
        BY <4>1 DEF Within
      <4> QED
        BY <2>2, <3>1, <4>2
    <3> QED
      BY <3>2, <3>3
  <2>12. CASE Closed
    <3>1. lost'
      BY <1>2, <2>12 DEF Closed
    <3> QED
      BY <3>1 DEF InTransaction, Unspoilt
  <2>13. CASE Lose
    <3>1. lost'
      BY <2>13 DEF Lose
    <3> QED
      BY <3>1 DEF InTransaction, Unspoilt
  <2>14. CASE Execute
    <3>1. SUFFICES ASSUME Unspoilt'
                   PROVE  /\ \A i \in 1..Len(todo') : todo'[i].stmt = "work" /\ todo'[i].scope # 0 => Inside(i - 1)'
                          /\ Within' => Inside(Len(todo))'
      BY DEF InTransaction
    <3>2. /\ Len(todo) # 0 /\ Len(todo') = Len(todo) - 1 /\ \A i \in 1..Len(todo') : todo'[i] = todo[i + 1]
          /\ UNCHANGED <<scope, op, pc>>
      BY <2>14, ExecuteIs DEF Popped, clientVars
    <3>3. ASSUME NEW i \in 1..Len(todo'), todo'[i].stmt = "work", todo'[i].scope # 0 PROVE Inside(i - 1)'
      <4>1. i + 1 \in 1..Len(todo) /\ (i + 1) - 1 = i /\ i \in 1..Len(todo)
        BY <1>0, <3>2
      <4>2. Inside(i)
        BY <2>1, <3>1, <3>2, <3>3, <4>1 DEF InTransaction
      <4> QED
        BY <2>14, <3>1, <4>1, <4>2, InsidePopped
    <3>4. ASSUME Within' PROVE Inside(Len(todo))'
      <4>1. Within
        BY <3>2, <3>4 DEF Within
      <4>2. Inside(Len(todo)) /\ Len(todo) \in 1..Len(todo)
        BY <1>0, <2>1, <3>1, <3>2, <4>1 DEF InTransaction
      <4>3. PICK n \in 1..Len(todo) : n = Len(todo)
        BY <4>2
      <4>4. Inside(n - 1)'
        <5>1. Inside(n)
          BY <4>2, <4>3
        <5> QED
          BY <2>14, <3>1, <5>1, InsidePopped
      <4>5. n - 1 = Len(todo')
        BY <1>0, <3>2, <4>3
      <4> QED
        BY <4>4, <4>5 DEF Inside
    <3> QED
      BY <3>2, <3>3, <3>4
  <2> QED
    BY <1>2, <2>4, <2>5, <2>6, <2>7, <2>8, <2>9, <2>11, <2>12, <2>13, <2>14
    DEF Next, ClientStep, ConnStep, ServerStep
<1> QED
  BY <1>1, <1>2

LEMMA InTransactionAlways == Spec => [](Shape /\ InTransaction)
<1>1. Init => Shape /\ InTransaction
  <2> SUFFICES ASSUME Init PROVE Shape /\ InTransaction
    OBVIOUS
  <2>1. Len(todo) = 0 /\ scope = <<>> /\ pc = "ready"
    BY EmptySeq DEF Init
  <2> QED
    BY <2>1, ShapeInit DEF InTransaction, Within
<1>2. (Shape /\ InTransaction) /\ [Next]_vars => (Shape /\ InTransaction)'
  BY ShapeStep, InTransactionStep
<1> QED
  BY <1>1, <1>2, PTL DEF Spec

\* A statement of a transaction never runs outside of one, whatever was dropped before it,
\* unless a cancel request came late (executor.rs:379-533, pooled.rs:371-405).
THEOREM WorkInTransactionAlways == Spec => WorkInTransaction
<1>1. ASSUME Shape, InTransaction, NEW r \in {todo[i] : i \in DOMAIN todo}, Executes(r), r.stmt = "work", r.scope # 0,
             ~struck
      PROVE  txn # "idle"
  <2>1. r = todo[1] /\ 1 \in 1..Len(todo)
    BY <1>1, ExecutesFirst
  <2>2. Unspoilt
    BY <1>1, <2>1 DEF Shape, Dead, Unspoilt
  <2>3. Inside(1 - 1)
    BY <1>1, <2>1, <2>2 DEF InTransaction
  <2>4. \A j \in 1..(1 - 1) : FALSE
    OBVIOUS
  <2> QED
    BY <2>3, <2>4 DEF Inside
<1>2. Shape /\ InTransaction => [\A r \in {todo[i] : i \in DOMAIN todo} :
         Executes(r) /\ r.stmt = "work" /\ r.scope # 0 => txn # "idle" \/ struck]_vars
  BY <1>1
<1> QED
  BY <1>2, InTransactionAlways, PTL DEF WorkInTransaction

-----------------------------------------------------------------------------
(* What is left open when the holder is outside of a transaction.          *)

\* commit() or rollback() has taken the guard and not yet sent its statement.
Leaving == op \in {"commit", "rollback"} /\ pc = "sending"

Ending == \E j \in 1..Len(todo) : todo[j].stmt \in Ends

\* Without a dropped future, the control statements in the queue are waited for, but for
\* the ROLLBACKs of guards.
Controlled ==
  ~abandoned => \A i \in 1..Len(todo) : todo[i].stmt \in Controls \ {"ROLLBACK"} => todo[i].awaited

\* A transaction that is open when its holder has left it will be ended by what is queued.
Restored ==
  /\ ~abandoned /\ ~struck /\ ~broken /\ ~Within /\ ~Leaving /\ txn # "idle" => Ending
  /\ holder = "pool" /\ pc # "check" => ~broken
  /\ GuardDropRestores

LEMMA ControlledStep ==
  ASSUME Shape, Controlled, [Next]_vars
  PROVE  Controlled'
<1> USE DEF Shape
<1>0. Len(todo) \in Nat
  BY EmptyLength DEF QueuesTyped
<1>1. ASSUME Len(todo') = 0 PROVE Controlled'
  BY <1>1 DEF Controlled
<1>2. Destroy => Len(todo') = 0
  BY EmptySeq DEF Destroy, Clean
<1>3. CASE ~Destroy
  <2>1. abandoned => abandoned'
    BY <1>3, HistoryKept
  <2>2. ASSUME UNCHANGED todo PROVE Controlled'
    BY <2>1, <2>2 DEF Controlled
  <2>3. CASE Checkout \/ (\E o \in Calls : Start(o)) \/ Release \/ SendCancel \/ CancelMisses \/ NoticeDead
             \/ UNCHANGED vars \/ PoolStep \/ Closed
    BY <1>3, <2>2, <2>3
    DEF Checkout, Start, Release, SendCancel, CancelMisses, NoticeDead, vars, PoolStep, ReturnCheck, Reset, Evict, Closed
  <2>4. CASE ReadAnswer
    BY <2>2, <2>4, ReadAnswerIs
  <2>5. CASE DropScope
    BY <2>5 DEF DropScope, Controlled
  <2>6. CASE DropCall
    <3>1. /\ Len(todo') = Len(todo) /\ op \in Plain
          /\ \A i \in 1..Len(todo) : todo'[i].stmt = todo[i].stmt
      BY <2>6, QuietTodo DEF DropCall
    <3>2. ASSUME NEW i \in 1..Len(todo), todo[i].stmt \in Controls, todo[i].awaited PROVE FALSE
      <4>1. Stmt(op) \in Controls
        BY <3>2 DEF Awaited
      <4> QED
        BY <3>1, <4>1 DEF Stmt, Plain, Controls
    <3> QED
      BY <2>1, <3>1, <3>2 DEF Controlled
  <2>7. CASE DropGuard
    <3>1. CASE Pushed(todo, todo', Request(visit, "ROLLBACK", Here, FALSE))
      <4>1. \A i \in 1..Len(todo') : i \in 1..Len(todo) \/ i = Len(todo) + 1
        BY <1>0, <3>1 DEF Pushed
      <4>2. todo'[Len(todo) + 1].stmt = "ROLLBACK" /\ \A i \in 1..Len(todo) : todo'[i] = todo[i]
        BY <3>1 DEF Pushed, Request
      <4> QED
        BY <2>1, <4>1, <4>2 DEF Controlled
    <3> QED
      BY <2>2, <2>7, <3>1, DropGuardIs
  <2>8. CASE Submit
    <3>1. Len(todo') = Len(todo) + 1 /\ \A i \in 1..Len(todo) : todo'[i] = todo[i]
      BY <2>8, SubmitIs DEF Pushed
    <3>2. \A i \in 1..Len(todo') : i \in 1..Len(todo) \/ i = Len(todo) + 1
      BY <1>0, <3>1
    <3>3. todo'[Len(todo) + 1].awaited
      BY <2>8, SubmittedBy
    <3> QED
      BY <2>1, <3>1, <3>2, <3>3 DEF Controlled
  <2>9. CASE Lose
    BY <1>1, <2>9, LoseIs
  <2>10. CASE Execute
    <3>1. /\ Len(todo') = Len(todo) - 1 /\ \A i \in 1..Len(todo') : todo'[i] = todo[i + 1]
      BY <2>10, ExecuteIs DEF Popped
    <3>2. \A i \in 1..Len(todo') : i + 1 \in 1..Len(todo)
      BY <1>0, <3>1
    <3> QED
      BY <2>1, <3>1, <3>2 DEF Controlled
  <2> QED
    BY <2>3, <2>4, <2>5, <2>6, <2>7, <2>8, <2>9, <2>10 DEF Next, ClientStep, ConnStep, ServerStep
<1> QED
  BY <1>1, <1>2, <1>3

\* A control statement other than the ROLLBACK of a guard is executed for one who waits for it.
LEMMA ExecutedFor ==
  ASSUME Shape, Controlled, ~abandoned, Execute, todo[1].stmt \in Controls \ {"ROLLBACK"}
  PROVE  pc = "waiting" /\ Len(todo) = 1 /\ Stmt(op) = todo[1].stmt /\ op \in Calls \cup {"reset"}
<1> USE DEF Shape
<1>1. Len(todo) \in Nat \ {0}
  BY ExecuteIs
<1>2. 1 \in 1..Len(todo)
  BY <1>1
<1>3. todo[1].awaited
  BY <1>2 DEF Controlled
<1>4. pc = "waiting" /\ 1 = Len(todo) /\ todo[1].stmt = Stmt(op)
  BY <1>2, <1>3 DEF Awaited
<1> QED
  BY <1>4 DEF Standing, HolderTyped

\* An answer does not lead out of a transaction.
LEMMA GivenOutOutside ==
  ASSUME Shape, ReadAnswer, answers[1].awaited, ~Within'
  PROVE  ~Within /\ ~Leaving
<1> USE DEF Shape
<1>1. PICK ok \in BOOLEAN : Returns(ok) /\ (op \notin Plain => ok)
  BY GivenOutIs
<1>2. pc = "waiting" /\ op \in Calls \cup {"reset"}
  BY GivenOutIs
<1>3. op' = None /\ pc' = "ready" /\ scope' = <<>>
  <2>1. op' = None /\ pc' = "ready"
    BY <1>1, <1>2, ReturnsIs
  <2> QED
    BY <2>1 DEF Within
<1>4. CASE op \in {"begin", "atomic"}
  <2>1. ok
    BY <1>1, <1>4 DEF Plain
  <2>2. scope' = <<scopes>> /\ scopes \in Scopes
    BY <1>1, <1>2, <1>4, <2>1, ReturnsIs DEF Nested, HolderTyped, Scopes
  <2> QED
    BY <1>3, <2>2, ScopeIs
<1>5. CASE op = "nest"
  <2>1. ok
    BY <1>1, <1>5 DEF Plain
  <2>2. scope' = Append(scope, scopes) /\ scopes \in Scopes /\ Len(scope) = 1
    BY <1>1, <1>2, <1>5, <2>1, ReturnsIs DEF Nested, HolderTyped, Scopes
  <2> QED
    BY <1>3, <2>2, ScopeIs
<1>6. CASE op \in {"succeed", "fail"}
  BY <1>2, <1>6 DEF Within, Leaving
<1>7. CASE op \in {"release", "undo"}
  <2>1. scope' = <<scope[1]>> /\ scope[1] \in Scopes
    BY <1>1, <1>2, <1>7, ReturnsIs, ScopeIs DEF Nested
  <2> QED
    BY <1>3, <2>1, ScopeIs
<1>8. CASE op \notin {"begin", "atomic", "nest", "succeed", "fail", "release", "undo"}
  <2>1. scope = <<>>
    BY <1>1, <1>2, <1>3, <1>8, ReturnsIs
  <2> QED
    BY <1>2, <1>8, <2>1 DEF Within, Leaving
<1> QED
  BY <1>4, <1>5, <1>6, <1>7, <1>8

LEMMA RestoredStep ==
  ASSUME Shape, Controlled, Restored, [Next]_vars
  PROVE  Restored'
<1> USE DEF Shape
<1>0. Len(todo) \in Nat
  BY EmptyLength DEF QueuesTyped
<1> DEFINE Open == ~abandoned /\ ~struck /\ ~broken /\ ~Within /\ ~Leaving /\ txn # "idle"
           Whole == holder = "pool" /\ pc # "check" => ~broken
<1>1. CASE Destroy
  BY <1>1 DEF Destroy, Clean, Restored, GuardDropRestores
<1>2. CASE ~Destroy
  <2>1. /\ (struck => struck') /\ (abandoned => abandoned') /\ (broken => broken')
        /\ rejected \subseteq rejected'
    BY <1>2, HistoryKept
  <2>2. Whole'
    <3>1. CASE DropGuard \/ ReturnCheck \/ Reset
      BY <1>2, <3>1 DEF DropGuard, ReturnCheck, Reset, KeepIdle, Restored, flagVars
    <3>2. CASE ReadAnswer
      <4>1. UNCHANGED broken
        BY <3>2, ReadAnswerIs
      <4>2. CASE answers[1].awaited
        <5>1. PICK ok \in BOOLEAN : Returns(ok)
          BY <3>2, <4>2, GivenOutIs
        <5> QED
          BY <5>1 DEF Returns, KeepIdle
      <4>3. CASE ~answers[1].awaited
        BY <3>2, <4>1, <4>3, ReadAnswerIs DEF Restored
      <4> QED
        BY <4>2, <4>3
    <3>3. CASE Closed
      BY <1>2, <3>3 DEF Closed, Returns
    <3>4. CASE Execute
      BY <3>4, ExecuteIs DEF Restored, flagVars
    <3>5. CASE ~(DropGuard \/ ReturnCheck \/ Reset \/ ReadAnswer \/ Closed \/ Execute)
      BY <1>2, <3>5
      DEF Restored, Next, ClientStep, PoolStep, ConnStep, ServerStep, Checkout, Start, DropCall, DropScope, Release,
          SendCancel, Evict, Submit, Lose, NoticeDead, CancelMisses, vars, flagVars
    <3> QED
      BY <3>1, <3>2, <3>3, <3>4, <3>5
  <2>3. GuardDropRestores'
    <3>1. CASE Execute
      <4> SUFFICES ASSUME "DISCARD" \in rejected', ~abandoned', ~struck' PROVE FALSE
        BY DEF GuardDropRestores
      <4>1. ~abandoned /\ ~struck /\ "DISCARD" \notin rejected
        BY <2>1 DEF Restored, GuardDropRestores
      <4>2. Answer(todo[1], TRUE) /\ (Refuses(todo[1]) \/ MayFail(todo[1]))
        <5>1. ~Answer(todo[1], FALSE)
          BY <4>1 DEF Answer
        <5> QED
          BY <3>1, <5>1, ExecuteIs
      <4>3. todo[1].stmt = "DISCARD"
        BY <4>1, <4>2 DEF Answer
      <4>4. txn # "idle"
        BY <4>2, <4>3 DEF Refuses, MayFail
      <4>5. pc = "waiting" /\ Len(todo) = 1 /\ op = "reset"
        BY <3>1, <4>1, <4>3, ExecutedFor, StmtIs DEF Controls
      <4>6. holder = "pool" /\ ~broken /\ scope = <<>>
        BY <4>5 DEF Standing, HolderTyped, Nested, Restored
      <4>7. ~Within /\ ~Leaving
        BY <4>5, <4>6 DEF Within, Leaving
      <4>8. Ending
        BY <4>1, <4>4, <4>6, <4>7 DEF Restored
      <4> QED
        BY <4>3, <4>5, <4>8 DEF Ending, Ends
    <3>2. CASE ~Execute
      <4>1. UNCHANGED rejected
        <5>1. CASE ReadAnswer
          BY <5>1, ReadAnswerIs
        <5>2. CASE ~ReadAnswer
          BY <1>2, <3>2, <5>2
          DEF Next, ClientStep, PoolStep, ConnStep, ServerStep, Checkout, Start, DropCall, DropScope, DropGuard, Release,
              SendCancel, ReturnCheck, Reset, Evict, Submit, Lose, NoticeDead, Closed, CancelMisses, vars
        <5> QED
          BY <5>1, <5>2
      <4> QED
        BY <2>1, <4>1 DEF Restored, GuardDropRestores
    <3> QED
      BY <3>1, <3>2
  <2>4. ASSUME Open' PROVE Ending'
    \* Nothing is queued or executed, and the holder was outside before.
    <3>1. ASSUME txn' = txn, Len(todo') = Len(todo), \A i \in 1..Len(todo) : todo'[i].stmt = todo[i].stmt,
                 ~Within, ~Leaving
          PROVE  Ending'
      BY <2>1, <2>4, <3>1 DEF Restored, Ending
    <3>2. lost' => FALSE
      BY <2>4, ShapeStep DEF Dead
    <3>3. CASE Checkout \/ Release \/ SendCancel \/ CancelMisses \/ NoticeDead \/ UNCHANGED vars
      <4>1. UNCHANGED <<txn, todo, scope, op>> /\ (pc' = "waiting" <=> pc = "waiting") /\ (pc' = "sending" <=> pc = "sending")
        BY <3>3 DEF Checkout, Release, SendCancel, CancelMisses, NoticeDead, vars, clientVars, serverVars
      <4>2. ~Within /\ ~Leaving
        BY <2>4, <4>1 DEF Within, Leaving
      <4> QED
        BY <3>1, <4>1, <4>2
    <3>4. ASSUME NEW o \in Calls, Start(o) PROVE Ending'
      <4>1. UNCHANGED <<txn, todo>> /\ pc = "ready" /\ pc' = "sending" /\ op' = o
            /\ (o \notin {"commit", "rollback"} => UNCHANGED scope)
        BY <3>4 DEF Start, serverVars
      <4>2. ~Within /\ ~Leaving
        BY <2>4, <4>1 DEF Within, Leaving
      <4> QED
        BY <3>1, <4>1, <4>2
    <3>5. CASE DropCall
      <4>1. /\ UNCHANGED <<txn, scope>> /\ Len(todo') = Len(todo) /\ op \in Plain
            /\ \A i \in 1..Len(todo) : todo'[i].stmt = todo[i].stmt
        BY <3>5, QuietTodo DEF DropCall, serverVars, clientVars
      <4>2. pc' = "ready"
        BY <3>5 DEF DropCall
      <4>3. ~Within /\ ~Leaving
        BY <2>4, <4>1, <4>2 DEF Within, Leaving, Plain
      <4> QED
        BY <3>1, <4>1, <4>3
    <3>6. CASE DropScope
      BY <2>4, <3>6 DEF DropScope
    <3>7. CASE DropGuard
      <4>1. CASE Pushed(todo, todo', Request(visit, "ROLLBACK", Here, FALSE))
        <5>1. Len(todo) + 1 \in 1..Len(todo') /\ todo'[Len(todo) + 1].stmt = "ROLLBACK"
          BY <1>0, <4>1 DEF Pushed, Request
        <5> QED
          BY <5>1 DEF Ending, Ends
      <4>2. CASE ~alive
        BY <2>1, <3>2, <3>7, <4>2 DEF DropGuard, Dead
      <4> QED
        BY <2>4, <3>7, <4>1, <4>2, DropGuardIs
    <3>8. CASE PoolStep
      <4>1. UNCHANGED <<txn, todo, scope>> /\ pc \notin {"sending", "waiting"} /\ pc' # "waiting"
        BY <1>2, <3>8 DEF PoolStep, ReturnCheck, Reset, KeepIdle, Evict, Standing, clientVars, serverVars
      <4>2. ~Within /\ ~Leaving
        BY <2>4, <4>1 DEF Within, Leaving
      <4> QED
        BY <3>1, <4>1, <4>2
    <3>9. CASE Submit
      <4>1. UNCHANGED <<txn, scope, op>> /\ pc = "sending" /\ pc' = "waiting"
        BY <3>9 DEF Submit, clientVars, serverVars
      <4>2. Len(todo') = Len(todo) + 1 /\ \A i \in 1..Len(todo) : todo'[i] = todo[i]
        BY <3>9, SubmitIs DEF Pushed
      <4>3. todo'[Len(todo) + 1].stmt = Stmt(op)
        BY <3>9, SubmittedBy
      <4>4. CASE op \in {"commit", "rollback", "succeed", "fail"}
        <5>1. Stmt(op) \in Ends
          BY <4>4 DEF Stmt, Ends
        <5>2. Len(todo) + 1 \in 1..Len(todo')
          BY <1>0, <4>2
        <5> QED
          BY <4>3, <5>1, <5>2 DEF Ending
      <4>5. CASE op \notin {"commit", "rollback", "succeed", "fail"}
        <5>1. ~Within /\ ~Leaving
          BY <2>4, <4>1, <4>5 DEF Within, Leaving
        <5>2. Ending
          BY <2>1, <2>4, <4>1, <5>1 DEF Restored
        <5>3. \A i \in 1..Len(todo) : i \in 1..Len(todo')
          BY <1>0, <4>2
        <5> QED
          BY <4>2, <5>2, <5>3 DEF Ending
      <4> QED
        BY <4>4, <4>5
    <3>10. CASE ReadAnswer
      <4>1. UNCHANGED <<txn, todo>>
        BY <3>10, ReadAnswerIs DEF serverVars
      <4>2. CASE ~answers[1].awaited
        <5>1. UNCHANGED <<pc, op, scope>>
          BY <3>10, <4>2, ReadAnswerIs DEF clientVars
        <5> QED
          BY <2>4, <3>1, <4>1, <5>1 DEF Within, Leaving
      <4>3. CASE answers[1].awaited
        <5>1. ~Within /\ ~Leaving
          BY <2>4, <3>10, <4>3, GivenOutOutside
        <5> QED
          BY <3>1, <4>1, <5>1
      <4> QED
        BY <4>2, <4>3
    <3>11. CASE Closed \/ Lose
      BY <1>2, <3>2, <3>11 DEF Closed, Lose
    <3>12. CASE Execute
      <4>1. /\ Len(todo) # 0 /\ Len(todo') = Len(todo) - 1 /\ \A i \in 1..Len(todo') : todo'[i] = todo[i + 1]
            /\ UNCHANGED <<scope, op, pc>>
        BY <3>12, ExecuteIs DEF Popped, clientVars
      <4>2. ~Within /\ ~Leaving /\ ~abandoned /\ ~struck /\ ~broken
        BY <2>1, <2>4, <4>1 DEF Within, Leaving
      <4>3. todo[1].stmt \notin Ends
        BY <2>4, <3>12, ExecuteTxn
      <4>4. todo[1].stmt # "BEGIN"
        <5>1. ASSUME todo[1].stmt = "BEGIN" PROVE FALSE
          <6>1. pc = "waiting" /\ Stmt(op) = "BEGIN" /\ op \in Calls \cup {"reset"}
            BY <3>12, <4>2, <5>1, ExecutedFor DEF Controls
          <6>2. op \in {"begin", "atomic"}
            BY <6>1, StmtIs
          <6> QED
            BY <4>2, <6>1, <6>2 DEF Within
        <5> QED
          BY <5>1
      <4>5. txn # "idle"
        BY <2>4, <3>12, <4>3, <4>4, ExecuteTxn
      <4>6. PICK j \in 1..Len(todo) : todo[j].stmt \in Ends
        BY <4>2, <4>5 DEF Restored, Ending
      <4>7. j # 1
        BY <4>3, <4>6
      <4>8. j - 1 \in 1..Len(todo') /\ (j - 1) + 1 = j
        BY <1>0, <4>1, <4>7
      <4> QED
        BY <4>1, <4>6, <4>8 DEF Ending
    <3> QED
      BY <3>3, <3>4, <3>5, <3>6, <3>7, <3>8, <3>9, <3>10, <3>11, <3>12 DEF Next, ClientStep, ConnStep, ServerStep
  <2> QED
    BY <2>2, <2>3, <2>4 DEF Restored
<1> QED
  BY <1>1, <1>2

LEMMA RestoredAlways == Spec => [](Shape /\ Controlled /\ Restored)
<1>1. Init => Shape /\ Controlled /\ Restored
  <2> SUFFICES ASSUME Init PROVE Shape /\ Controlled /\ Restored
    OBVIOUS
  <2>1. Len(todo) = 0 /\ txn = "idle" /\ ~broken /\ rejected = {}
    BY EmptySeq DEF Init
  <2> QED
    BY <2>1, ShapeInit DEF Controlled, Restored, GuardDropRestores
<1>2. (Shape /\ Controlled /\ Restored) /\ [Next]_vars => (Shape /\ Controlled /\ Restored)'
  BY ShapeStep, ControlledStep, RestoredStep
<1> QED
  BY <1>1, <1>2, PTL DEF Spec

\* DISCARD ALL is rejected only if the future of a begin, commit, rollback or atomic was
\* dropped on the way, or a cancel request came late: dropping a transaction guard, with or
\* without a queued ROLLBACK, never leads to it (pooled.rs:307-316).
THEOREM GuardDropRestoresAlways == Spec => []GuardDropRestores
<1>1. Restored => GuardDropRestores
  BY DEF Restored
<1> QED
  BY <1>1, RestoredAlways, PTL

-----------------------------------------------------------------------------
(* Whose work is committed.                                                *)

\* Neither of these has happened: then no transaction is left open to be joined.
Plainly == ~abandoned /\ ~broken /\ "BEGIN" \notin rejected

Entering == op \in {"begin", "atomic"} /\ pc = "waiting"

\* Work that may become permanent; work of the open scopes; work that a savepoint does not undo.
Kept  == {0} \cup asked
Reach == Kept \cup {scope[i] : i \in 1..Len(scope)}
Outer == Kept \cup {scope[i] : i \in 1..Len(scope) \cap {1}}

\* A transaction that its holder has left or enters will be ended by what is queued.
LeftOpen ==
  txn = "open" =>
    /\ ~Within /\ ~Leaving => Ending
    /\ Entering /\ Len(todo) # 0 => Ending

Accounted ==
  /\ committed \subseteq Kept
  /\ LeftOpen
  /\ Entering /\ Len(todo) = 0 => dirty = {} /\ saved = NoSavepoint
  /\ scope # <<>> \/ op = "commit" =>
       /\ txn = "open" => dirty \subseteq Reach
       /\ \A i \in 1..Len(todo) : todo[i].stmt = "work" => todo[i].scope \in Reach
  /\ scope # <<>> => saved.dirty \subseteq Outer
  /\ op = "undo" /\ pc = "waiting" /\ Len(todo) = 0 /\ txn = "open" => dirty \subseteq Outer

\* A scope that is being closed was asked to be kept.
Asked ==
  /\ op = "succeed" => scope[1] \in asked
  /\ op = "release" => scope[2] \in asked

Committing == Asked /\ (Plainly => Accounted)

LEMMA AskedStep ==
  ASSUME Shape, Asked, [Next]_vars
  PROVE  Asked'
<1> USE DEF Shape
<1>0. op \in Calls \cup {"reset", None}
  BY DEF HolderTyped
<1>1. ASSUME op' \in {None, "reset"} PROVE Asked'
  BY <1>1, CallsAre DEF Asked, Calls
<1>2. ASSUME UNCHANGED <<op, scope>>, asked \subseteq asked' PROVE Asked'
  BY <1>2 DEF Asked
<1>3. CASE Destroy \/ DropCall \/ DropScope \/ Reset
  BY <1>1, <1>2, <1>3 DEF Destroy, DropCall, DropScope, Reset, KeepIdle, clientVars
<1>4. CASE DropGuard
  BY <1>1, <1>4 DEF DropGuard, Standing
<1>5. CASE Checkout \/ Release \/ SendCancel \/ Submit \/ Lose \/ NoticeDead \/ CancelMisses \/ Execute \/ UNCHANGED vars
  BY <1>2, <1>5
  DEF Checkout, Release, SendCancel, Submit, Lose, NoticeDead, CancelMisses, Execute, vars, clientVars
<1>6. CASE ReturnCheck
  BY <1>2, <1>3, <1>6 DEF ReturnCheck, clientVars
<1>7. ASSUME NEW o \in Calls, Start(o) PROVE Asked'
  <2>1. CASE o = "succeed"
    <3>1. op' = o /\ UNCHANGED scope /\ asked' = asked \cup {Here}
      BY <1>7, <2>1 DEF Start
    <3>2. Len(scope) = 1
      BY <2>1, <3>1, ShapeStep DEF Nested
    <3> QED
      BY <2>1, <3>1, <3>2, HereIs DEF Asked
  <2>2. CASE o = "release"
    <3>1. op' = o /\ UNCHANGED scope /\ asked' = asked \cup {Here}
      BY <1>7, <2>2 DEF Start
    <3>2. Len(scope) = 2
      BY <2>2, <3>1, ShapeStep DEF Nested
    <3> QED
      BY <2>2, <3>1, <3>2, HereIs DEF Asked
  <2>3. CASE o \notin {"succeed", "release"}
    BY <1>7, <2>3 DEF Start, Asked
  <2> QED
    BY <2>1, <2>2, <2>3
<1>8. CASE ReadAnswer
  <2>1. CASE answers[1].awaited
    BY <1>1, <1>8, <2>1, GivenOutIs, ReturnsIs
  <2>2. CASE ~answers[1].awaited
    BY <1>2, <1>8, <2>2, ReadAnswerIs DEF clientVars
  <2> QED
    BY <2>1, <2>2
<1>9. CASE Closed
  BY <1>1, <1>3, <1>9 DEF Closed, Returns
<1>10. CASE Evict
  BY <1>3, <1>10 DEF Evict
<1> QED
  BY <1>3, <1>4, <1>5, <1>6, <1>7, <1>8, <1>9, <1>10 DEF Next, ClientStep, PoolStep, ConnStep, ServerStep

\* Nothing is executed, and the scopes that count are still there.
LEMMA AccountedKept ==
  ASSUME Shape, Accounted, UNCHANGED <<txn, dirty, saved, committed>>, asked \subseteq asked',
         Len(todo') = Len(todo),
         \A i \in 1..Len(todo) : todo'[i].stmt = todo[i].stmt /\ todo'[i].scope = todo[i].scope,
         ~Within' /\ ~Leaving' => ~Within /\ ~Leaving,
         Entering' => Entering,
         scope' # <<>> \/ op' = "commit" => (scope # <<>> \/ op = "commit") /\ Reach \subseteq Reach',
         scope' # <<>> => scope # <<>> /\ Outer \subseteq Outer',
         op' = "undo" /\ pc' = "waiting" => op = "undo" /\ pc = "waiting" /\ Outer \subseteq Outer'
  PROVE  Accounted'
<1>1. committed' \subseteq Kept'
  BY DEF Accounted, Kept
<1>2. LeftOpen'
  <2>1. Ending => Ending'
    BY DEF Ending
  <2> QED
    BY <2>1 DEF Accounted, LeftOpen
<1>3. (Entering /\ Len(todo) = 0 => dirty = {} /\ saved = NoSavepoint)'
  BY DEF Accounted, NoSavepoint
<1>4. ASSUME scope' # <<>> \/ op' = "commit"
      PROVE  /\ txn' = "open" => dirty' \subseteq Reach'
             /\ \A i \in 1..Len(todo') : todo'[i].stmt = "work" => todo'[i].scope \in Reach'
  <2>1. scope # <<>> \/ op = "commit"
    BY <1>4
  <2>2. Reach \subseteq Reach'
    BY <1>4
  <2>3. txn = "open" => dirty \subseteq Reach
    BY <2>1 DEF Accounted
  <2>4. \A i \in 1..Len(todo) : todo[i].stmt = "work" => todo[i].scope \in Reach
    BY <2>1 DEF Accounted
  <2> QED
    BY <2>2, <2>3, <2>4
<1>5. scope' # <<>> => saved'.dirty \subseteq Outer'
  BY DEF Accounted
<1>6. op' = "undo" /\ pc' = "waiting" /\ Len(todo') = 0 /\ txn' = "open" => dirty' \subseteq Outer'
  BY DEF Accounted
<1> QED
  BY <1>1, <1>2, <1>3, <1>4, <1>5, <1>6 DEF Accounted

\* What counts inside a scope, by its depth.
LEMMA ReachIs ==
  ASSUME Shape
  PROVE  /\ Kept \subseteq Outer /\ Outer \subseteq Reach
         /\ scope = <<>> => Reach = Kept
         /\ Len(scope) = 1 => Reach = Kept \cup {scope[1]} /\ Outer = Reach
         /\ Len(scope) = 2 => Reach = Kept \cup {scope[1], scope[2]} /\ Outer = Kept \cup {scope[1]}
         /\ Here \in Reach
<1> USE DEF Shape
<1>1. Len(scope) \in Nat /\ (scope = <<>> <=> Len(scope) = 0) /\ Len(scope) \in {0, 1, 2}
  <2>1. kind \in {"none", "guard", "atomic"} /\ Len(scope) \in Nat /\ (scope = <<>> <=> Len(scope) = 0)
    BY ScopeIs DEF HolderTyped
  <2> QED
    BY <2>1 DEF Nested
<1>2. CASE Len(scope) = 0
  <2>1. 1..Len(scope) = {} /\ 1..Len(scope) \cap {1} = {}
    BY <1>2
  <2>2. Reach = Kept /\ Outer = Kept
    BY <2>1 DEF Reach, Outer
  <2> QED
    BY <1>1, <1>2, <2>2, HereIs DEF Kept
<1>3. CASE Len(scope) = 1
  <2>1. 1..Len(scope) = {1} /\ 1..Len(scope) \cap {1} = {1}
    BY <1>3
  <2>2. Reach = Kept \cup {scope[1]} /\ Outer = Kept \cup {scope[1]}
    BY <2>1 DEF Reach, Outer
  <2> QED
    BY <1>1, <1>3, <2>2, HereIs
<1>4. CASE Len(scope) = 2
  <2>1. 1..Len(scope) = {1, 2} /\ 1..Len(scope) \cap {1} = {1}
    BY <1>4
  <2>2. Reach = Kept \cup {scope[1], scope[2]} /\ Outer = Kept \cup {scope[1]}
    BY <2>1 DEF Reach, Outer
  <2> QED
    BY <1>1, <1>4, <2>2, HereIs
<1> QED
  BY <1>1, <1>2, <1>3, <1>4

\* What the execution of a request does to the work of the open transaction.
LEMMA ExecuteWork ==
  ASSUME Shape, InTransaction, Controlled, Asked, Accounted, Execute, Plainly, Plainly'
  PROVE  /\ txn' = "open" => txn = "open" \/ dirty' = {} \/ (todo[1].stmt = "ROLLBACK TO" /\ dirty' = saved.dirty)
         /\ dirty' \subseteq dirty \cup {todo[1].scope} \/ (todo[1].stmt = "ROLLBACK TO" /\ dirty' = saved.dirty)
         /\ todo[1].stmt # "work" => dirty' \subseteq dirty \/ (todo[1].stmt = "ROLLBACK TO" /\ dirty' = saved.dirty)
         /\ todo[1].stmt = "ROLLBACK TO" /\ txn' = "open" => dirty' = saved.dirty
         /\ \/ saved' = saved
            \/ saved' = NoSavepoint
            \/ todo[1].stmt = "SAVEPOINT" /\ txn = "open" /\ saved'.dirty = dirty
         /\ todo[1].stmt = "BEGIN" => (dirty' = {} /\ saved' = NoSavepoint) \/ txn = "open"
         /\ \/ committed' = {}
            \/ todo[1].stmt = "work" /\ txn = "idle" /\ committed' = {todo[1].scope}
            \/ todo[1].stmt = "COMMIT" /\ txn = "open" /\ committed' = dirty
<1> USE DEF Shape
<1> DEFINE r == todo[1]
<1>1. /\ r \in Requests
      /\ \/ ~Refuses(r) /\ Perform(r) /\ Answer(r, FALSE) /\ UNCHANGED <<cancel, struck>>
         \/ (Refuses(r) \/ MayFail(r)) /\ ~cancel /\ Spoil(r) /\ Answer(r, TRUE) /\ UNCHANGED <<cancel, struck>>
         \/ cancel /\ Spoil(r) /\ Answer(r, TRUE) /\ cancel' = FALSE /\ struck' = TRUE
  BY ExecuteIs
<1>2. r.stmt \in Statements
  BY <1>1 DEF Requests
<1>3. txn \in {"idle", "open", "failed"} /\ (txn = "idle" => dirty = {} /\ saved = NoSavepoint)
  BY DEF ServerTyped, Idle
<1> HIDE DEF r
<1>4. CASE ~Refuses(r) /\ Perform(r) /\ Answer(r, FALSE)
  <2>1. CASE r.stmt = "work"
    <3>1. /\ dirty' = (IF txn = "idle" THEN {} ELSE dirty \cup {r.scope}) /\ UNCHANGED <<txn, saved>>
          /\ committed' = (IF txn = "idle" THEN {r.scope} ELSE {})
      BY <1>4, <2>1 DEF Perform
    <3> QED
      BY <1>3, <2>1, <3>1 DEF r
  <2>2. CASE r.stmt \in {"lock", "DISCARD", "RELEASE"}
    <3>1. UNCHANGED <<txn, dirty>> /\ committed' = {} /\ (saved' = saved \/ saved' = NoSavepoint)
      BY <1>4, <2>2 DEF Perform
    <3> QED
      BY <1>3, <2>2, <3>1 DEF r
  <2>3. CASE r.stmt = "BEGIN"
    <3>1. UNCHANGED <<dirty, saved>> /\ committed' = {} /\ (txn # "idle" => UNCHANGED txn)
      BY <1>4, <2>3 DEF Perform
    <3>2. txn # "failed"
      BY <1>4, <2>3 DEF Refuses
    <3> QED
      BY <1>3, <2>3, <3>1, <3>2 DEF r
  <2>4. CASE r.stmt \in {"COMMIT", "ROLLBACK"}
    <3>1. txn' = "idle" /\ dirty' = {} /\ saved' = NoSavepoint
      BY <1>4, <2>4 DEF Perform, EndTransaction
    <3>2. committed' = (IF r.stmt = "COMMIT" /\ txn = "open" THEN dirty ELSE {})
      BY <1>4, <2>4 DEF Perform
    <3> QED
      BY <1>3, <2>4, <3>1, <3>2 DEF r
  <2>5. CASE r.stmt = "SAVEPOINT"
    <3>1. /\ saved' = [scope |-> r.scope, dirty |-> dirty] /\ UNCHANGED <<txn, dirty>> /\ committed' = {}
      BY <1>4, <2>5 DEF Perform
    <3>2. txn = "open"
      BY <1>3, <1>4, <2>5 DEF Refuses
    <3>3. saved'.dirty = dirty
      BY <3>1
    <3> QED
      BY <2>5, <3>1, <3>2, <3>3 DEF r
  <2>6. CASE r.stmt = "ROLLBACK TO"
    <3>1. dirty' = saved.dirty /\ UNCHANGED saved /\ committed' = {}
      BY <1>4, <2>6 DEF Perform
    <3> QED
      BY <2>6, <3>1 DEF r
  <2> QED
    BY <1>2, <2>1, <2>2, <2>3, <2>4, <2>5, <2>6 DEF Statements, Plain, Controls
<1>5. CASE Spoil(r) /\ Answer(r, TRUE)
  <2>1. r.stmt # "BEGIN"
    <3>1. r.stmt = "BEGIN" => "BEGIN" \in rejected'
      BY <1>5 DEF Answer
    <3> QED
      BY <3>1 DEF Plainly
  <2>2. committed' = {}
    BY <1>5 DEF Spoil
  <2>3. CASE r.stmt = "COMMIT" /\ ~cancel
    <3>1. txn' = "idle" /\ dirty' = {} /\ saved' = NoSavepoint
      BY <1>5, <2>3 DEF Spoil, EndTransaction
    <3> QED
      BY <2>2, <2>3, <3>1 DEF r
  <2>4. CASE ~(r.stmt = "COMMIT" /\ ~cancel)
    <3>1. txn' # "open" /\ UNCHANGED <<dirty, saved>>
      BY <1>5, <2>4 DEF Spoil
    <3> QED
      BY <2>1, <2>2, <3>1 DEF r
  <2> QED
    BY <2>3, <2>4
<1> QED
  BY <1>1, <1>4, <1>5

\* A request is executed.
LEMMA AccountedExecute ==
  ASSUME Shape, InTransaction, Controlled, Asked, Accounted, Execute, Plainly, Plainly'
  PROVE  Accounted'
<1> USE DEF Shape
<1>0. Len(todo) \in Nat \ {0} /\ 1 \in 1..Len(todo)
  <2>1. Len(todo) \in Nat \ {0}
    BY ExecuteIs
  <2> QED
    BY <2>1
<1>1. /\ Len(todo') = Len(todo) - 1 /\ \A i \in 1..Len(todo') : todo'[i] = todo[i + 1]
      /\ UNCHANGED <<scope, op, pc, asked>>
  BY ExecuteIs DEF Popped, clientVars
<1>2. \A i \in 1..Len(todo') : i + 1 \in 1..Len(todo)
  BY <1>0, <1>1
<1>3. /\ Reach' = Reach /\ Outer' = Outer /\ Kept' = Kept
      /\ Within' = Within /\ Leaving' = Leaving /\ Entering' = Entering
  BY <1>1 DEF Reach, Outer, Kept, Within, Leaving, Entering
<1>4. ~abandoned /\ ~lost
  BY ExecuteIs DEF Plainly
\* Whose the control statements are.
<1>5. todo[1].stmt \in Controls \ {"ROLLBACK"} =>
        pc = "waiting" /\ Len(todo) = 1 /\ Stmt(op) = todo[1].stmt /\ op \in Calls \cup {"reset"}
  BY <1>4, ExecutedFor
<1>6. /\ todo[1].stmt = "BEGIN" => pc = "waiting" /\ Len(todo) = 1 /\ op \in {"begin", "atomic"}
      /\ todo[1].stmt = "ROLLBACK TO" => op = "undo" /\ Len(scope) = 2 /\ scope # <<>>
      /\ todo[1].stmt = "SAVEPOINT" => op = "nest" /\ Len(scope) = 1 /\ scope # <<>>
      /\ todo[1].stmt = "COMMIT" => op = "commit" \/ (op = "succeed" /\ Len(scope) = 1 /\ scope # <<>>)
  <2>1. CASE todo[1].stmt = "BEGIN"
    <3>1. pc = "waiting" /\ Len(todo) = 1 /\ Stmt(op) = "BEGIN" /\ op \in Calls \cup {"reset"}
      BY <1>5, <2>1 DEF Controls
    <3>2. op \in {"begin", "atomic"}
      BY <3>1, StmtIs
    <3> QED
      BY <2>1, <3>1, <3>2
  <2>2. CASE todo[1].stmt = "ROLLBACK TO"
    <3>0. Stmt(op) = "ROLLBACK TO" /\ op \in Calls \cup {"reset"}
      BY <1>5, <2>2 DEF Controls
    <3>1. op = "undo"
      BY <3>0, StmtIs
    <3>2. Len(scope) = 2
      BY <3>1 DEF Nested
    <3>3. scope # <<>>
      BY <3>2, ScopeIs
    <3> QED
      BY <2>2, <3>1, <3>2, <3>3
  <2>3. CASE todo[1].stmt = "SAVEPOINT"
    <3>0. Stmt(op) = "SAVEPOINT" /\ op \in Calls \cup {"reset"}
      BY <1>5, <2>3 DEF Controls
    <3>1. op = "nest"
      BY <3>0, StmtIs
    <3>2. Len(scope) = 1
      BY <3>1 DEF Nested
    <3>3. scope # <<>>
      BY <3>2, ScopeIs
    <3> QED
      BY <2>3, <3>1, <3>2, <3>3
  <2>4. CASE todo[1].stmt = "COMMIT"
    <3>0. Stmt(op) = "COMMIT" /\ op \in Calls \cup {"reset"}
      BY <1>5, <2>4 DEF Controls
    <3>1. op \in {"commit", "succeed"}
      BY <3>0, StmtIs
    <3>2. op = "succeed" => Len(scope) = 1
      BY DEF Nested
    <3>3. Len(scope) = 1 => scope # <<>>
      BY ScopeIs
    <3> QED
      BY <2>4, <3>1, <3>2, <3>3
  <2> QED
    BY <2>1, <2>2, <2>3, <2>4
<1>7. committed' \subseteq Kept'
  <2>1. CASE todo[1].stmt = "work" /\ txn = "idle" /\ committed' = {todo[1].scope}
    <3>1. Unspoilt
      BY <1>4 DEF Unspoilt, Plainly
    <3>2. todo[1].scope # 0 => Inside(1 - 1)
      BY <1>0, <2>1, <3>1 DEF InTransaction
    <3>3. \A j \in 1..(1 - 1) : FALSE
      OBVIOUS
    <3>4. todo[1].scope = 0
      BY <2>1, <3>2, <3>3 DEF Inside
    <3> QED
      BY <1>3, <2>1, <3>4 DEF Kept
  <2>2. CASE todo[1].stmt = "COMMIT" /\ txn = "open" /\ committed' = dirty
    <3>1. dirty \subseteq Reach
      BY <1>6, <2>2 DEF Accounted
    <3>2. CASE op = "commit"
      BY <1>3, <2>2, <3>1, <3>2, ReachIs DEF Nested
    <3>3. CASE op = "succeed" /\ Len(scope) = 1
      BY <1>3, <2>2, <3>1, <3>3, ReachIs DEF Asked, Kept
    <3> QED
      BY <1>6, <2>2, <3>2, <3>3
  <2> QED
    BY <2>1, <2>2, ExecuteWork
<1>8. LeftOpen'
  <2> SUFFICES ASSUME txn' = "open"
               PROVE  /\ ~Within /\ ~Leaving => Ending'
                      /\ Entering /\ Len(todo') # 0 => Ending'
    BY <1>3 DEF LeftOpen
  <2>1. ASSUME Ending PROVE Ending'
    <3>1. PICK j \in 1..Len(todo) : todo[j].stmt \in Ends
      BY <2>1 DEF Ending
    <3>2. todo[1].stmt \notin Ends
      BY ExecuteTxn
    <3>3. j - 1 \in 1..Len(todo') /\ (j - 1) + 1 = j
      BY <1>0, <1>1, <3>1, <3>2
    <3> QED
      BY <1>1, <3>1, <3>3 DEF Ending
  <2>2. CASE txn = "open"
    <3>1. Len(todo) # 0
      BY <1>0
    <3> QED
      BY <2>1, <2>2, <3>1 DEF Accounted, LeftOpen
  <2>3. CASE todo[1].stmt = "BEGIN"
    <3>1. Within /\ Len(todo) = 1
      BY <1>6, <2>3 DEF Within
    <3> QED
      BY <1>1, <3>1
  <2>4. CASE todo[1].stmt = "ROLLBACK TO"
    BY <1>6, <2>4 DEF Within, Entering
  <2> QED
    BY <2>2, <2>3, <2>4, ExecuteTxn
<1>9. ASSUME Entering, Len(todo') = 0 PROVE dirty' = {} /\ saved' = NoSavepoint
  <2>1. Len(todo) = 1
    BY <1>0, <1>1, <1>9
  <2>2. todo[1].stmt = "BEGIN"
    <3>1. todo[1].awaited
      BY <1>0, <1>9, <2>1 DEF Awaited, Entering
    <3>2. todo[1].stmt = Stmt(op) /\ op \in Calls
      BY <1>0, <1>9, <3>1, CallsAre DEF Awaited, Entering, Calls
    <3> QED
      BY <1>9, <3>2, StmtIs DEF Entering
  <2>3. txn # "open"
    <3>1. ASSUME txn = "open" PROVE FALSE
      <4>1. Ending
        BY <1>9, <2>1, <3>1 DEF Accounted, LeftOpen
      <4> QED
        BY <2>1, <2>2, <4>1 DEF Ending, Ends
    <3> QED
      BY <3>1
  <2> QED
    BY <2>2, <2>3, ExecuteWork
<1>10. ASSUME scope # <<>> \/ op = "commit"
       PROVE  /\ txn' = "open" => dirty' \subseteq Reach
              /\ \A i \in 1..Len(todo') : todo'[i].stmt = "work" => todo'[i].scope \in Reach
  <2>1. \A i \in 1..Len(todo) : todo[i].stmt = "work" => todo[i].scope \in Reach
    BY <1>10 DEF Accounted
  <2>2. txn = "open" => dirty \subseteq Reach
    BY <1>10 DEF Accounted
  <2>3. CASE todo[1].stmt = "ROLLBACK TO"
    <3>1. saved.dirty \subseteq Outer
      BY <1>6, <2>3 DEF Accounted
    <3>2. txn' = "open" => dirty' = saved.dirty
      BY <2>3, ExecuteWork
    <3>3. txn' = "open" => dirty' \subseteq Reach
      BY <3>1, <3>2, ReachIs
    <3> QED
      BY <1>1, <1>2, <2>1, <3>3
  <2>4. CASE todo[1].stmt # "ROLLBACK TO"
    <3>1. txn' = "open" => txn = "open" \/ dirty' = {}
      BY <2>4, ExecuteWork
    <3>2. dirty' \subseteq dirty \cup {todo[1].scope} /\ (todo[1].stmt # "work" => dirty' \subseteq dirty)
      BY <2>4, ExecuteWork
    <3>3. todo[1].stmt = "work" => todo[1].scope \in Reach
      BY <1>0, <2>1
    <3>4. txn' = "open" => dirty' \subseteq Reach
      BY <2>2, <3>1, <3>2, <3>3
    <3> QED
      BY <1>1, <1>2, <2>1, <3>4
  <2> QED
    BY <2>3, <2>4
<1>11. ASSUME scope # <<>> PROVE saved'.dirty \subseteq Outer
  <2>1. saved.dirty \subseteq Outer /\ (txn = "open" => dirty \subseteq Reach)
    BY <1>11 DEF Accounted
  <2>2. CASE saved' = saved
    BY <2>1, <2>2
  <2>3. CASE saved' = NoSavepoint
    BY <2>3 DEF NoSavepoint
  <2>4. CASE todo[1].stmt = "SAVEPOINT" /\ txn = "open" /\ saved'.dirty = dirty
    BY <1>6, <2>1, <2>4, ReachIs
  <2> QED
    BY <2>2, <2>3, <2>4, ExecuteWork
<1>12. ASSUME op = "undo", pc = "waiting", Len(todo') = 0, txn' = "open" PROVE dirty' \subseteq Outer
  <2>1. todo[1].stmt = "ROLLBACK TO"
    <3>1. Len(todo) = 1
      BY <1>0, <1>1, <1>12
    <3>2. todo[1].awaited
      BY <1>0, <1>12, <3>1 DEF Awaited
    <3>3. todo[1].stmt = Stmt(op) /\ op \in Calls
      BY <1>0, <1>12, <3>2 DEF Awaited, Calls
    <3> QED
      BY <1>12, <3>3, StmtIs
  <2>2. saved.dirty \subseteq Outer
    BY <1>6, <2>1 DEF Accounted
  <2> QED
    BY <1>12, <2>1, <2>2, ExecuteWork
<1> QED
  BY <1>1, <1>3, <1>7, <1>8, <1>9, <1>10, <1>11, <1>12 DEF Accounted

\* A call returns: a transaction that is entered is empty, a scope that is left was asked
\* to be kept or is undone.
LEMMA AccountedReturns ==
  ASSUME Shape, Asked, Accounted, ReadAnswer, answers[1].awaited
  PROVE  Accounted'
<1> USE DEF Shape
<1>1. /\ UNCHANGED <<txn, dirty, saved, committed, todo, asked>>
      /\ Len(todo') = Len(todo) /\ Len(todo) = 0 /\ pc = "waiting"
      /\ op \in Calls \cup {"reset"}
  <2>1. UNCHANGED <<txn, dirty, saved, committed, todo>>
    BY ReadAnswerIs DEF serverVars
  <2>2. UNCHANGED asked
    BY ReadAnswerIs DEF Returns
  <2> QED
    BY <2>1, <2>2, GivenOutIs
<1>2. PICK ok \in BOOLEAN : Returns(ok) /\ (op \notin Plain => ok)
  BY GivenOutIs
<1>3. op' = None /\ pc' = "ready" /\ op' # "commit" /\ ~Entering' /\ op' # "undo"
  <2>1. op' = None /\ pc' = "ready"
    BY <1>1, <1>2, ReturnsIs
  <2> QED
    BY <2>1, CallsAre DEF Entering, Calls
<1>4. /\ UNCHANGED <<txn, dirty, saved, committed>> /\ asked \subseteq asked' /\ Len(todo') = Len(todo)
      /\ \A i \in 1..Len(todo) : todo'[i].stmt = todo[i].stmt /\ todo'[i].scope = todo[i].scope
      /\ ~Within' /\ ~Leaving' => ~Within /\ ~Leaving
      /\ Kept' = Kept
  BY <1>1, GivenOutOutside DEF Kept
<1>5. ASSUME scope' # <<>> => scope # <<>> /\ Reach \subseteq Reach' /\ Outer \subseteq Outer'
      PROVE  Accounted'
  BY <1>3, <1>4, <1>5, AccountedKept
\* The call has opened or undone scope s: all that is left of the transaction counts in it.
<1>6. ASSUME scope' # <<>>, txn = "open" => dirty \subseteq Reach', saved.dirty \subseteq Outer' PROVE Accounted'
  <2>1. committed' \subseteq Kept'
    BY <1>4 DEF Accounted
  <2>2. LeftOpen'
    BY <1>3, <1>6 DEF LeftOpen, Within
  <2>3. \A i \in 1..Len(todo') : FALSE
    BY <1>1
  <2> QED
    BY <1>1, <1>3, <1>6, <2>1, <2>2, <2>3 DEF Accounted
<1>7. CASE op \in {"begin", "atomic"}
  <2>1. scope' = <<scopes>> /\ scopes \in Scopes
    BY <1>1, <1>2, <1>7, ReturnsIs DEF Plain, Nested, HolderTyped, Scopes
  <2>2. scope' # <<>>
    BY <2>1, ScopeIs
  <2>3. dirty = {} /\ saved = NoSavepoint
    BY <1>1, <1>7 DEF Accounted, Entering
  <2>4. saved.dirty = {}
    BY <2>3 DEF NoSavepoint
  <2> QED
    BY <1>6, <2>2, <2>3, <2>4
<1>8. CASE op = "nest"
  <2>1. scope' = Append(scope, scopes) /\ scopes \in Scopes /\ Len(scope) = 1
    BY <1>1, <1>2, <1>8, ReturnsIs DEF Plain, Nested, HolderTyped, Scopes
  <2>2. Len(scope') = 2 /\ scope'[1] = scope[1] /\ scope # <<>>
    BY <2>1, ScopeIs
  <2>3. Reach = Kept \cup {scope[1]} /\ Outer = Reach
    BY <2>1, ReachIs
  <2>4. 1..Len(scope') = {1, 2} /\ 1..Len(scope') \cap {1} = {1}
    BY <2>2
  <2>5. Reach' = Kept' \cup {scope'[1], scope'[2]} /\ Outer' = Kept' \cup {scope'[1]}
    BY <2>4 DEF Reach, Outer
  <2> QED
    BY <1>4, <1>5, <2>2, <2>3, <2>5
<1>9. CASE op \in {"release", "undo"}
  <2>1. Len(scope) = 2
    BY <1>9 DEF Nested
  <2>2. scope # <<>> /\ scope[1] \in Scopes
    BY <2>1, ScopeIs
  <2>3. scope' = <<scope[1]>>
    BY <1>1, <1>2, <1>9, ReturnsIs
  <2>4. Len(scope') = 1 /\ scope'[1] = scope[1] /\ scope' # <<>>
    BY <2>2, <2>3, ScopeIs
  <2>5. 1..Len(scope') = {1} /\ 1..Len(scope') \cap {1} = {1}
    BY <2>4
  <2>6. Reach' = Kept' \cup {scope'[1]} /\ Outer' = Kept' \cup {scope'[1]}
    BY <2>5 DEF Reach, Outer
  <2>7. Reach = Kept \cup {scope[1], scope[2]} /\ Outer = Kept \cup {scope[1]}
    BY <2>1, ReachIs
  <2>8. CASE op = "release"
    <3>1. scope[2] \in Kept
      BY <2>8 DEF Asked, Kept
    <3> QED
      BY <1>4, <1>5, <2>2, <2>4, <2>6, <2>7, <3>1
  <2>9. CASE op = "undo"
    <3>1. (txn = "open" => dirty \subseteq Outer) /\ saved.dirty \subseteq Outer
      BY <1>1, <2>2, <2>9 DEF Accounted
    <3>2. Outer = Reach' /\ Outer = Outer'
      BY <1>4, <2>4, <2>6, <2>7
    <3> QED
      BY <1>6, <2>4, <3>1, <3>2
  <2> QED
    BY <1>9, <2>8, <2>9
<1>10. CASE op \in {"succeed", "fail"}
  BY <1>1, <1>2, <1>5, <1>10, ReturnsIs
<1>11. CASE op \notin {"begin", "atomic", "nest", "release", "undo", "succeed", "fail"}
  <2>1. UNCHANGED scope
    BY <1>1, <1>2, <1>11, ReturnsIs
  <2>2. Reach' = Reach /\ Outer' = Outer
    BY <1>1, <2>1 DEF Reach, Outer, Kept
  <2> QED
    BY <1>5, <2>1, <2>2
<1> QED
  BY <1>7, <1>8, <1>9, <1>10, <1>11

\* A request is queued.
LEMMA AccountedSubmit ==
  ASSUME Shape, Accounted, Submit
  PROVE  Accounted'
<1> USE DEF Shape
<1>1. UNCHANGED <<txn, dirty, saved, committed, scope, op, asked>> /\ pc = "sending" /\ pc' = "waiting"
  BY DEF Submit, clientVars, serverVars
<1>2. /\ Len(todo') = Len(todo) + 1 /\ Len(todo) \in Nat /\ \A i \in 1..Len(todo) : todo'[i] = todo[i]
  BY SubmitIs DEF Pushed
<1>3. /\ Len(todo) + 1 \in 1..Len(todo') /\ Len(todo') # 0
      /\ \A i \in 1..Len(todo') : i \in 1..Len(todo) \/ i = Len(todo) + 1
      /\ \A i \in 1..Len(todo) : i \in 1..Len(todo')
  BY <1>2
<1> DEFINE r == todo'[Len(todo) + 1]
<1>4. r.stmt = Stmt(op) /\ op \in Calls \cup {"reset"} /\ r.scope = (IF op = "nest" THEN scopes ELSE Here)
  BY SubmittedBy, SubmitIs
<1>5. Reach' = Reach /\ Outer' = Outer /\ Kept' = Kept
  BY <1>1 DEF Reach, Outer, Kept
<1>6. Ending => Ending'
  BY <1>2, <1>3 DEF Ending
<1>7. LeftOpen'
  <2>1. CASE op \in {"commit", "rollback", "succeed", "fail"}
    <3>1. r.stmt \in Ends
      BY <1>4, <2>1 DEF Stmt, Ends
    <3>2. Ending'
      BY <1>3, <3>1 DEF Ending
    <3> QED
      BY <3>2 DEF LeftOpen
  <2>2. CASE op \in {"begin", "atomic"}
    <3>1. scope = <<>>
      BY <2>2 DEF Nested
    <3>2. ~Within /\ ~Leaving
      BY <1>1, <2>2, <3>1 DEF Within, Leaving
    <3> QED
      BY <1>1, <1>6, <3>2 DEF Accounted, LeftOpen
  <2>3. CASE op \notin {"commit", "rollback", "succeed", "fail", "begin", "atomic"}
    <3>1. ~Within' => ~Within /\ ~Leaving
      BY <1>1, <2>3 DEF Within, Leaving
    <3>2. ~Entering'
      BY <1>1, <2>3 DEF Entering
    <3> QED
      BY <1>1, <1>6, <3>1, <3>2 DEF Accounted, LeftOpen
  <2> QED
    BY <2>1, <2>2, <2>3
<1>8. r.stmt = "work" => r.scope \in Reach
  <2>1. r.stmt = "work" => op = "work"
    BY <1>4, StmtIs
  <2> QED
    BY <1>4, <2>1, ReachIs
<1> HIDE DEF r
<1>9. ASSUME scope # <<>> \/ op = "commit"
      PROVE  \A i \in 1..Len(todo') : todo'[i].stmt = "work" => todo'[i].scope \in Reach
  <2>1. \A i \in 1..Len(todo) : todo[i].stmt = "work" => todo[i].scope \in Reach
    BY <1>9 DEF Accounted
  <2> QED
    BY <1>2, <1>3, <1>8, <2>1 DEF r
<1>10. scope # <<>> \/ op = "commit" => (txn' = "open" => dirty' \subseteq Reach)
  BY <1>1 DEF Accounted
<1>11. committed' \subseteq Kept' /\ (scope # <<>> => saved'.dirty \subseteq Outer)
  BY <1>1, <1>5 DEF Accounted
<1> QED
  BY <1>1, <1>3, <1>5, <1>7, <1>9, <1>10, <1>11 DEF Accounted

LEMMA AccountedStep ==
  ASSUME Shape, InTransaction, Controlled, Committing, [Next]_vars, Plainly'
  PROVE  Accounted'
<1> USE DEF Shape
<1>1. CASE Destroy
  <2>1. /\ Len(todo') = 0 /\ scope' = <<>> /\ pc' = "ready" /\ op' = None
        /\ txn' = "idle" /\ committed' = {}
    BY <1>1, EmptySeq DEF Destroy, Clean
  <2>2. op' # "commit" /\ ~Entering'
    BY <2>1, CallsAre DEF Entering, Calls
  <2> QED
    BY <2>1, <2>2 DEF Accounted, LeftOpen
<1>2. CASE ~Destroy
  <2>1. Plainly /\ Asked /\ Accounted /\ asked \subseteq asked'
    <3>1. Plainly /\ asked \subseteq asked'
      BY <1>2, HistoryKept DEF Plainly
    <3> QED
      BY <3>1 DEF Committing
  <2>2. ASSUME lost' PROVE Accounted'
    <3>1. txn' = "idle" /\ committed' = {} /\ dirty' = {} /\ saved' = NoSavepoint
      BY <2>2, ShapeStep DEF Dead, Idle
    <3>2. \A i \in 1..Len(todo') : todo'[i].stmt = "ROLLBACK"
      BY <2>2, ShapeStep DEF Dead
    <3>3. saved'.dirty = {}
      BY <3>1 DEF NoSavepoint
    <3> QED
      BY <3>1, <3>2, <3>3 DEF Accounted, LeftOpen, NoSavepoint
  \* Nothing is queued or executed, and the holder stays where it is.
  <2>3. ASSUME UNCHANGED <<txn, dirty, saved, committed, todo, scope>>,
               ~Within' /\ ~Leaving' => ~Within /\ ~Leaving,
               Entering' => Entering,
               op' = "commit" => op = "commit",
               op' = "undo" /\ pc' = "waiting" => op = "undo" /\ pc = "waiting"
        PROVE  Accounted'
    <3>1. Reach \subseteq Reach' /\ Outer \subseteq Outer'
      BY <2>1, <2>3 DEF Reach, Outer, Kept
    <3> QED
      BY <2>1, <2>3, <3>1, AccountedKept
  <2>4. CASE Checkout \/ Release \/ SendCancel \/ CancelMisses \/ NoticeDead \/ UNCHANGED vars
    <3>1. /\ UNCHANGED <<txn, dirty, saved, committed, todo, scope, op>>
          /\ (pc' = "waiting" <=> pc = "waiting") /\ (pc' = "sending" <=> pc = "sending")
      BY <2>4 DEF Checkout, Release, SendCancel, CancelMisses, NoticeDead, vars, clientVars, serverVars
    <3> QED
      BY <2>3, <3>1 DEF Within, Leaving, Entering
  <2>5. ASSUME NEW o \in Calls, Start(o) PROVE Accounted'
    <3>1. /\ UNCHANGED <<txn, dirty, saved, committed, todo>>
          /\ pc = "ready" /\ pc' = "sending" /\ op' = o
      BY <2>5 DEF Start, serverVars
    <3>2. ~Entering' /\ (op' = "undo" /\ pc' = "waiting" => FALSE)
      BY <3>1 DEF Entering
    <3>3. CASE o \notin {"commit", "rollback"}
      <4>1. UNCHANGED scope
        BY <2>5, <3>3 DEF Start
      <4> QED
        BY <2>3, <3>1, <3>2, <3>3, <4>1 DEF Within, Leaving
    <3>4. CASE o \in {"commit", "rollback"}
      <4>1. scope' = <<>> /\ Leaving'
        BY <2>5, <3>1, <3>4 DEF Start, Leaving
      <4>2. o = "commit" => scope # <<>> /\ Reach \subseteq Reach'
        <5> SUFFICES ASSUME o = "commit" PROVE scope # <<>> /\ Reach \subseteq Reach'
          OBVIOUS
        <5>1. o \in Allowed /\ asked' = asked \cup {Here}
          BY <2>5 DEF Start
        <5>2. kind # "none" /\ kind # "atomic" /\ Len(scope) # 2
          BY <5>1 DEF Allowed, Plain
        <5>3. kind \in {"none", "guard", "atomic"}
          BY DEF HolderTyped
        <5>4. Len(scope) = 1
          BY <5>2, <5>3 DEF Nested
        <5>5. Reach = Kept \cup {scope[1]} /\ Here = scope[1] /\ scope # <<>>
          BY <5>4, ReachIs, HereIs, ScopeIs
        <5>6. Kept' = Kept \cup {Here}
          BY <5>1 DEF Kept
        <5>7. Kept' \subseteq Reach'
          BY DEF Reach
        <5> QED
          BY <5>5, <5>6, <5>7
      <4>3. scope' # <<>> \/ op' = "commit" => (scope # <<>> \/ op = "commit") /\ Reach \subseteq Reach'
        BY <3>1, <4>1, <4>2
      <4>4. \A i \in 1..Len(todo) : todo'[i].stmt = todo[i].stmt /\ todo'[i].scope = todo[i].scope
        BY <3>1
      <4> QED
        BY <2>1, <3>1, <3>2, <4>1, <4>3, <4>4, AccountedKept
    <3> QED
      BY <3>3, <3>4
  <2>6. CASE DropCall
    <3>1. /\ UNCHANGED <<txn, dirty, saved, committed, scope, asked>> /\ Len(todo') = Len(todo)
          /\ op \in Plain /\ op' = None /\ pc' = "ready"
          /\ \A i \in 1..Len(todo) : todo'[i].stmt = todo[i].stmt /\ todo'[i].scope = todo[i].scope
      BY <2>6, QuietTodo DEF DropCall, serverVars, clientVars
    <3>2. Reach' = Reach /\ Outer' = Outer /\ op' # "commit" /\ ~Entering'
      BY <3>1, CallsAre DEF Reach, Outer, Kept, Entering, Calls
    <3>3. ~Within' => ~Within /\ ~Leaving
      BY <3>1 DEF Within, Leaving, Plain
    <3> QED
      BY <2>1, <3>1, <3>2, <3>3, AccountedKept
  <2>7. CASE DropScope
    BY <2>7 DEF DropScope, Plainly
  <2>8. CASE DropGuard
    <3>1. CASE Pushed(todo, todo', Request(visit, "ROLLBACK", Here, FALSE))
      <4>1. Len(todo) \in Nat /\ Len(todo') = Len(todo) + 1 /\ todo'[Len(todo) + 1].stmt = "ROLLBACK"
        BY <2>8, <3>1, DropGuardIs DEF Pushed, Request
      <4>2. Len(todo) + 1 \in 1..Len(todo')
        BY <4>1
      <4>3. Ending'
        BY <4>1, <4>2 DEF Ending, Ends
      <4>4. UNCHANGED <<committed, asked, op>> /\ scope' = <<>> /\ pc' = "ready" /\ op = None
        BY <2>8 DEF DropGuard, Standing, serverVars
      <4>5. op' # "commit" /\ ~Entering'
        BY <4>4, CallsAre DEF Entering, Calls
      <4>6. committed' \subseteq Kept'
        BY <2>1, <4>4 DEF Accounted, Kept
      <4> QED
        BY <4>3, <4>4, <4>5, <4>6 DEF Accounted, LeftOpen
    <3>2. CASE ~alive
      <4>1. lost'
        BY <2>8, <3>2 DEF Dead, DropGuard
      <4> QED
        BY <2>2, <4>1
    <3>3. CASE broken' = TRUE
      BY <3>3 DEF Plainly
    <3> QED
      BY <2>8, <3>1, <3>2, <3>3, DropGuardIs
  <2>9. CASE PoolStep
    <3>1. /\ UNCHANGED <<txn, dirty, saved, committed, todo, scope>>
          /\ pc \notin {"sending", "waiting"} /\ pc' # "waiting" /\ (op' = op \/ op' = None \/ op' = "reset")
      BY <1>2, <2>9 DEF PoolStep, ReturnCheck, Reset, KeepIdle, Evict, Standing, clientVars, serverVars
    <3>2. op' = "commit" => op = "commit"
      BY <3>1, CallsAre DEF Calls
    <3>3. ~Within' => ~Within /\ ~Leaving
      BY <3>1 DEF Within, Leaving
    <3> QED
      BY <2>3, <3>1, <3>2, <3>3 DEF Entering
  <2>10. CASE Submit
    BY <2>1, <2>10, AccountedSubmit
  <2>11. CASE ReadAnswer
    <3>1. CASE answers[1].awaited
      BY <2>1, <2>11, <3>1, AccountedReturns
    <3>2. CASE ~answers[1].awaited
      <4>1. UNCHANGED <<txn, dirty, saved, committed, todo, scope, op, pc>>
        BY <2>11, <3>2, ReadAnswerIs DEF clientVars, serverVars
      <4> QED
        BY <2>3, <4>1 DEF Within, Leaving, Entering
    <3> QED
      BY <3>1, <3>2
  <2>12. CASE Closed \/ Lose
    <3>1. lost'
      BY <1>2, <2>12 DEF Closed, Lose
    <3> QED
      BY <2>2, <3>1
  <2>13. CASE Execute
    BY <2>1, <2>13, AccountedExecute
  <2> QED
    BY <1>2, <2>4, <2>5, <2>6, <2>7, <2>8, <2>9, <2>10, <2>11, <2>12, <2>13
    DEF Next, ClientStep, ConnStep, ServerStep
<1> QED
  BY <1>1, <1>2

LEMMA CommittingAlways == Spec => [](Shape /\ InTransaction /\ Controlled /\ Committing)
<1>1. Init => Committing
  <2> SUFFICES ASSUME Init PROVE Committing
    OBVIOUS
  <2>1. /\ Len(todo) = 0 /\ scope = <<>> /\ pc = "ready" /\ op = None
        /\ txn = "idle" /\ committed = {}
    BY EmptySeq DEF Init
  <2>2. op \notin {"commit", "succeed", "release", "undo", "begin", "atomic"}
    BY <2>1, CallsAre DEF Calls
  <2>3. Asked
    BY <2>2 DEF Asked
  <2>4. Accounted
    BY <2>1, <2>2 DEF Accounted, LeftOpen, Entering
  <2> QED
    BY <2>3, <2>4 DEF Committing
<1>2. Shape /\ InTransaction /\ Controlled /\ Committing /\ [Next]_vars => Committing'
  BY AskedStep, AccountedStep DEF Committing
<1>3. Spec => [](Shape /\ Controlled)
  BY RestoredAlways, PTL
<1> QED
  BY <1>1, <1>2, <1>3, InTransactionAlways, PTL DEF Spec

\* The work of a transaction is committed only if its commit was called, and of a savepoint
\* only if its closure had succeeded, unless a future was dropped on the way, a BEGIN was
\* rejected, or the ROLLBACK of an earlier guard could not be queued (pooled.rs:383-405,
\* executor.rs:379-533).
THEOREM OnlyCommitCommitsAlways == Spec => []OnlyCommitCommits
<1>1. Committing => OnlyCommitCommits
  BY DEF Committing, Accounted, Plainly, Kept, OnlyCommitCommits
<1> QED
  BY <1>1, CommittingAlways, PTL
=============================================================================
