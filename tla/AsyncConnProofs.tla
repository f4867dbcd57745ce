--------------------------- MODULE AsyncConnProofs ---------------------------
(***************************************************************************)
(* What TLAPS proves of the multiplexed connection, for any number of      *)
(* calls, requests and rows and channels of any size: types, that every    *)
(* request is in one place, and that the order of the pending queue is     *)
(* enough to tell responses apart.                                         *)
(***************************************************************************)
EXTENDS AsyncConnProperties, SequenceTheorems, TLAPS

-----------------------------------------------------------------------------
(* Sequences.                                                              *)

Inj(s) == \A i, j \in DOMAIN s : s[i] = s[j] => i = j

LEMMA MembersDef == \A s, x : x \in Members(s) <=> \E i \in DOMAIN s : s[i] = x
BY DEF Members

LEMMA AppendMembers ==
  ASSUME NEW S, NEW s \in Seq(S), NEW x \in S
  PROVE  /\ Append(s, x) \in Seq(S)
         /\ Members(Append(s, x)) = Members(s) \cup {x}
         /\ Inj(s) /\ x \notin Members(s) => Inj(Append(s, x))
<1> DEFINE u == Append(s, x)
           n == Len(s)
<1>1. /\ u \in Seq(S) /\ n \in Nat /\ Len(u) = n + 1
      /\ DOMAIN s = 1..n /\ DOMAIN u = 1..(n + 1)
      /\ \A i \in 1..n : u[i] = s[i]
      /\ u[n + 1] = x
  BY AppendProperties, LenProperties
<1> HIDE DEF u, n
<1>2. \A i \in 1..(n + 1) : i \in 1..n \/ i = n + 1
  BY <1>1
<1>3. \A i \in 1..n : i \in 1..(n + 1)
  BY <1>1
<1>4. n + 1 \in 1..(n + 1)
  BY <1>1
<1>5. ASSUME NEW y PROVE y \in Members(u) <=> y \in Members(s) \cup {x}
  BY <1>1, <1>2, <1>3, <1>4, MembersDef
<1>6. Members(u) = Members(s) \cup {x}
  BY <1>5
<1>7. ASSUME Inj(s), x \notin Members(s)
      PROVE  Inj(u)
  <2>1. \A i \in 1..n : s[i] # x
    BY <1>1, <1>7, MembersDef
  <2> QED
    BY <1>1, <1>2, <1>7, <2>1 DEF Inj
<1> QED
  BY <1>1, <1>6, <1>7 DEF u

LEMMA HeadMembers ==
  ASSUME NEW S, NEW s \in Seq(S), s # <<>>
  PROVE  /\ Head(s) \in S /\ Tail(s) \in Seq(S)
         /\ Head(s) \in Members(s)
         /\ Members(s) = Members(Tail(s)) \cup {Head(s)}
         /\ Inj(s) => Inj(Tail(s)) /\ Head(s) \notin Members(Tail(s))
<1> DEFINE u == Tail(s)
           n == Len(s)
<1>1. /\ u \in Seq(S) /\ Len(u) = n - 1
      /\ \A i \in 1..Len(u) : u[i] = s[i + 1]
  BY HeadTailProperties
<1>2. /\ DOMAIN s = 1..n /\ DOMAIN u = 1..(n - 1)
      /\ \A i \in 1..(n - 1) : u[i] = s[i + 1]
      /\ n \in Nat \ {0}
  BY <1>1, LenProperties, EmptySeq
<1>3. Head(s) = s[1] /\ s[1] \in S
  BY <1>2
<1> HIDE DEF u, n
<1>4. /\ 1 \in 1..n
      /\ \A i \in 1..n : i = 1 \/ (i - 1 \in 1..(n - 1) /\ (i - 1) + 1 = i)
      /\ \A i \in 1..(n - 1) : i + 1 \in 1..n /\ i + 1 # 1
      /\ \A i, j \in 1..(n - 1) : i + 1 = j + 1 => i = j
  BY <1>2
<1>5. ASSUME NEW i \in 1..n PROVE s[i] \in Members(u) \cup {s[1]}
  <2>1. CASE i # 1
    <3>1. i - 1 \in DOMAIN u /\ u[i - 1] = s[i]
      BY <1>2, <1>4, <2>1
    <3> QED
      BY <3>1, MembersDef
  <2> QED
    BY <2>1
<1>6. Members(s) = Members(u) \cup {s[1]}
  <2>1. \A y \in Members(s) : y \in Members(u) \cup {s[1]}
    BY <1>2, <1>5, MembersDef
  <2>2. \A y \in Members(u) \cup {s[1]} : y \in Members(s)
    BY <1>2, <1>4, MembersDef
  <2> QED
    BY <2>1, <2>2
<1>7. ASSUME Inj(s)
      PROVE  Inj(u) /\ s[1] \notin Members(u)
  <2>1. \A i \in 1..(n - 1) : u[i] # s[1]
    BY <1>2, <1>4, <1>7, SMTT(40) DEF Inj
  <2>2. Inj(u)
    BY <1>2, <1>4, <1>7, SMTT(40) DEF Inj
  <2> QED
    BY <1>2, <2>1, <2>2, MembersDef
<1> QED
  BY <1>1, <1>3, <1>6, <1>7 DEF u

LEMMA ConcatMembers ==
  ASSUME NEW S, NEW s \in Seq(S), NEW t \in Seq(S)
  PROVE  /\ s \o t \in Seq(S)
         /\ Members(s \o t) = Members(s) \cup Members(t)
         /\ Inj(s) /\ Inj(t) /\ Members(s) \cap Members(t) = {} <=> Inj(s \o t)
<1> DEFINE m == Len(s)
           n == Len(t)
           u == s \o t
<1>1. /\ u \in Seq(S) /\ m \in Nat /\ n \in Nat /\ Len(u) = m + n
      /\ DOMAIN s = 1..m /\ DOMAIN t = 1..n /\ DOMAIN u = 1..(m + n)
      /\ \A i \in 1..(m + n) : u[i] = IF i <= m THEN s[i] ELSE t[i - m]
  BY ConcatProperties, LenProperties
<1> HIDE DEF m, n, u
<1>2. /\ \A i \in 1..m : i \in 1..(m + n) /\ u[i] = s[i]
      /\ \A i \in 1..n : m + i \in 1..(m + n) /\ u[m + i] = t[i]
  BY <1>1
<1>3. \A i \in 1..(m + n) : (i \in 1..m /\ u[i] = s[i])
                              \/ (i - m \in 1..n /\ u[i] = t[i - m] /\ m + (i - m) = i)
  BY <1>1
<1>4. ASSUME NEW y PROVE y \in Members(u) <=> y \in Members(s) \cup Members(t)
  BY <1>1, <1>2, <1>3, MembersDef
<1>5. Members(u) = Members(s) \cup Members(t)
  BY <1>4
<1>6. ASSUME Inj(s), Inj(t), Members(s) \cap Members(t) = {}
      PROVE  Inj(u)
  <2> SUFFICES ASSUME NEW i \in 1..(m + n), NEW j \in 1..(m + n), u[i] = u[j]
               PROVE  i = j
    BY <1>1 DEF Inj
  <2>1. CASE i \in 1..m /\ j \in 1..m
    BY <1>1, <1>2, <1>6, <2>1 DEF Inj
  <2>2. CASE i - m \in 1..n /\ j - m \in 1..n
    <3>1. t[i - m] = t[j - m]
      BY <1>1, <1>2, <2>2
    <3>2. i - m = j - m
      BY <1>1, <1>6, <2>2, <3>1 DEF Inj
    <3> QED
      BY <1>1, <3>2
  <2>3. ASSUME NEW k \in 1..m, NEW l \in 1..n
        PROVE  s[k] # t[l]
    BY <1>1, <1>6, MembersDef
  <2>4. (i \in 1..m /\ j \in 1..m) \/ (i - m \in 1..n /\ j - m \in 1..n)
    BY <1>3, <2>3
  <2> QED
    BY <2>1, <2>2, <2>4
<1>7. ASSUME Inj(u)
      PROVE  Inj(s) /\ Inj(t) /\ Members(s) \cap Members(t) = {}
  <2>1. Inj(s)
    BY <1>1, <1>2, <1>7 DEF Inj
  <2>2. Inj(t)
    <3> SUFFICES ASSUME NEW i \in 1..n, NEW j \in 1..n, t[i] = t[j]
                 PROVE  i = j
      BY <1>1 DEF Inj
    <3>1. m + i = m + j
      BY <1>1, <1>2, <1>7, ZenonT(40) DEF Inj
    <3> QED
      BY <1>1, <3>1
  <2>3. ASSUME NEW k \in 1..m, NEW l \in 1..n, s[k] = t[l]
        PROVE  FALSE
    <3>1. k = m + l
      BY <1>1, <1>2, <1>7, <2>3 DEF Inj
    <3> QED
      BY <1>1, <3>1
  <2>4. Members(s) \cap Members(t) = {}
    BY <1>1, <2>3, MembersDef, SMTT(40)
  <2> QED
    BY <2>1, <2>2, <2>4
<1> QED
  BY <1>1, <1>5, <1>6, <1>7 DEF u

LEMMA EmptyMembers == Members(<<>>) = {} /\ Inj(<<>>)
BY DEF Members, Inj

-----------------------------------------------------------------------------
(* Types.                                                                  *)

LEMMA NextItem ==
  ASSUME TypeOK, NEW c \in Calls, sent[c] < Len(Items[c])
  PROVE  /\ Items[c] \in Seq(Reqs)
         /\ sent[c] + 1 \in DOMAIN Items[c]
         /\ Items[c][sent[c] + 1] \in Reqs
BY CallAssumption, LenProperties, ElementOfSeq DEF TypeOK

LEMMA FirstItem ==
  ASSUME NEW c \in Unawaited
  PROVE  Items[c][1] \in Reqs
BY CallAssumption, LenProperties, ElementOfSeq

LEMMA Appended == \A s \in Seq(Reqs), r \in Reqs : Append(s, r) \in Seq(Reqs) \ {<<>>}
BY AppendProperties

LEMMA ResponseType ==
  ASSUME NEW r \in Reqs, NEW s \in Response(r)
  PROVE  /\ s \in Seq(Msgs) \ {<<>>}
         /\ \A i \in DOMAIN s : s[i].req = r
         /\ \A i \in DOMAIN s : s[i].kind \in ReadyKinds <=> i = Len(s)
<1>1. PICK a \in Replies[r] :
        s = [i \in 1..a[1] |-> Msg(r, "row", i)] \o <<Msg(r, a[2], 0), Msg(r, a[3], 0)>>
  BY DEF Response
<1> DEFINE p == [i \in 1..a[1] |-> Msg(r, "row", i)]
           q == <<Msg(r, a[2], 0), Msg(r, a[3], 0)>>
<1>2. a[1] \in Nat /\ a[2] \in {"done", "error"} /\ a[3] \in ReadyKinds
  BY SizeAssumption
<1>3. \A i \in 1..a[1] : Msg(r, "row", i) \in Msgs
  BY <1>2 DEF Msgs, Msg, Kinds
<1>4. Msg(r, a[2], 0) \in Msgs /\ Msg(r, a[3], 0) \in Msgs
  BY <1>2 DEF Msgs, Msg, Kinds
<1>5. p \in Seq(Msgs) /\ Len(p) = a[1] /\ \A i \in 1..a[1] : p[i] = Msg(r, "row", i)
  BY <1>2, <1>3
<1>6. q \in Seq(Msgs) /\ Len(q) = 2 /\ q[1] = Msg(r, a[2], 0) /\ q[2] = Msg(r, a[3], 0)
  BY <1>4
<1>7. /\ s \in Seq(Msgs) /\ Len(s) = a[1] + 2 /\ DOMAIN s = 1..(a[1] + 2)
      /\ \A i \in 1..(a[1] + 2) : s[i] = IF i <= a[1] THEN p[i] ELSE q[i - a[1]]
  BY <1>1, <1>2, <1>5, <1>6, ConcatProperties, LenProperties
<1> HIDE DEF p, q
<1>8. ASSUME NEW i \in 1..(a[1] + 2)
      PROVE  s[i].req = r /\ (s[i].kind \in ReadyKinds <=> i = Len(s))
  <2>1. CASE i <= a[1]
    <3>1. s[i] = Msg(r, "row", i)
      BY <1>2, <1>5, <1>7, <2>1
    <3> QED
      BY <1>2, <1>7, <2>1, <3>1 DEF Msg, ReadyKinds
  <2>2. CASE i = a[1] + 1
    <3>1. s[i] = Msg(r, a[2], 0)
      BY <1>2, <1>6, <1>7, <2>2
    <3> QED
      BY <1>2, <1>7, <2>2, <3>1 DEF Msg, ReadyKinds
  <2>3. CASE i = a[1] + 2
    <3>1. s[i] = Msg(r, a[3], 0)
      BY <1>2, <1>6, <1>7, <2>3, SMTT(40)
    <3> QED
      BY <1>2, <1>7, <2>3, <3>1 DEF Msg
  <2> QED
    BY <1>2, <1>7, <2>1, <2>2, <2>3
<1> QED
  BY <1>2, <1>7, <1>8

\* What reading a message does to the reader's collection and the wire.
LEMMA ConsumeType ==
  ASSUME TypeOK, wire # <<>>
  PROVE  /\ Head(wire) \in Seq(Msgs) \ {<<>>}
         /\ Message \in Msgs
         /\ Append(got, Message) \in Seq(Msgs)
         /\ (IF Len(Head(wire)) = 1 THEN Tail(wire) ELSE [wire EXCEPT ![1] = Tail(@)])
              \in Seq(Seq(Msgs) \ {<<>>})
<1>1. wire \in Seq(Seq(Msgs) \ {<<>>}) /\ got \in Seq(Msgs)
  BY DEF TypeOK
<1>2. /\ Head(wire) \in Seq(Msgs) \ {<<>>} /\ Tail(wire) \in Seq(Seq(Msgs) \ {<<>>})
      /\ Head(wire) = wire[1] /\ 1 \in 1..Len(wire)
  BY <1>1, HeadTailProperties, LenProperties
<1>3. Message \in Msgs /\ Tail(Head(wire)) \in Seq(Msgs)
      /\ Len(Tail(Head(wire))) = Len(Head(wire)) - 1
  BY <1>2, HeadTailProperties DEF Message
<1>4. Len(Head(wire)) # 1 => Tail(Head(wire)) # <<>>
  <2>1. Len(Head(wire)) \in Nat \ {0}
    BY <1>2, EmptySeq
  <2>2. Len(Head(wire)) # 1 => Len(Tail(Head(wire))) # 0
    BY <1>3, <2>1
  <2> QED
    BY <2>2
<1>5. Len(Head(wire)) # 1 => [wire EXCEPT ![1] = Tail(wire[1])] \in Seq(Seq(Msgs) \ {<<>>})
  BY <1>1, <1>2, <1>3, <1>4, ExceptSeq
<1> QED
  BY <1>1, <1>2, <1>3, <1>5, AppendProperties

\* What the five ways in which a response is complete have in common.
ReadyHere ==
  /\ rpc \in {"collect", "drain"}
  /\ \E k \in ReadyKinds : Incoming(k) /\ Note(k)
  /\ Consume
  /\ IF rpc = "collect" /\ cur \in Streams THEN Header("ok") ELSE UNCHANGED head
  /\ rpc' = "answer"
  /\ UNCHANGED <<res, item>> /\ ReadOnly

LEMMA ReadReadyIs == ReadReady => ReadyHere
<1>1. Collector[cur] \in {"Rows", "CopyIn", "CopyOut"} => cur \notin Streams
  BY DEF Streams
<1>2. RowsReady \/ CopyInReady \/ CopyOutReady => ReadyHere
  BY <1>1 DEF RowsReady, CopyInReady, CopyOutReady, Ready, ReadyHere
<1>3. StreamReady => ReadyHere
  BY DEF StreamReady, Ready, ReadyHere
<1>4. DrainReady => ReadyHere
  BY DEF DrainReady, Ready, ReadyHere
<1> QED
  BY <1>2, <1>3, <1>4 DEF ReadReady

LEMMA FailType ==
  ASSUME TypeOK, NEW S, NEW how \in Endings, Fail(S, how)
  PROVE  resp' \in [Reqs -> Outcomes \cup {None}]
<1>1. Ended(how) \in Outcomes
  BY EmptySeq DEF Ended, Outcomes
<1> QED
  BY <1>1 DEF TypeOK, Fail

LEMMA SeverType ==
  ASSUME TypeOK, Sever
  PROVE  wire' \in Seq(Seq(Msgs) \ {<<>>})
<1>1. wire \in Seq(Seq(Msgs) \ {<<>>})
  BY DEF TypeOK
<1>2. CASE wire' = <<>>
  BY <1>2
<1>3. ASSUME NEW k \in 1..Len(wire), NEW n \in 1..Len(wire[k]),
             wire' = Append(SubSeq(wire, 1, k - 1), SubSeq(wire[k], 1, n))
      PROVE  wire' \in Seq(Seq(Msgs) \ {<<>>})
  <2>1. wire[k] \in Seq(Msgs)
    BY <1>1, ElementOfSeq
  <2>2. \A i \in 1..n : wire[k][i] \in Msgs
    BY <2>1, LenProperties, ElementOfSeq
  <2>3. SubSeq(wire[k], 1, n) \in Seq(Msgs) /\ Len(SubSeq(wire[k], 1, n)) = n
    BY <2>1, <2>2, LenProperties, SubSeqProperties
  <2>4. SubSeq(wire[k], 1, n) # <<>>
    BY <2>3
  <2>5. \A i \in 1..(k - 1) : wire[i] \in Seq(Msgs) \ {<<>>}
    BY <1>1, LenProperties, ElementOfSeq
  <2>6. SubSeq(wire, 1, k - 1) \in Seq(Seq(Msgs) \ {<<>>})
    BY <1>1, <2>5, LenProperties, SubSeqProperties
  <2> QED
    BY <1>3, <2>3, <2>4, <2>6, AppendProperties
<1> QED
  BY <1>2, <1>3 DEF Sever

LEMMA NoneApart == None \notin Reqs /\ None \notin RowItems /\ None \notin Outcomes /\ None # "ok"
BY CallAssumption

LEMMA TypeInit == Init => TypeOK
<1> SUFFICES ASSUME Init PROVE TypeOK
  OBVIOUS
<1>1. \A S : <<>> \in Seq(S)
  BY EmptySeq
<1> QED
  BY <1>1, NoneApart DEF Init, TypeOK, Endings, Streams

\* A step of the server or the network.
LEMMA ServerTyped ==
  ASSUME TypeOK, UNCHANGED <<callVars, chan, writerVars, pending, permit, readerVars, resp, streamVars>>,
         inbox' \in Seq(Reqs), eof' \in BOOLEAN,
         wire' \in Seq(Seq(Msgs) \ {<<>>}), served' \in [Reqs -> Seq(Msgs)]
  PROVE  TypeOK'
<1>1. UNCHANGED <<handle, sent, over, accepted, chan, wpc, batch, alive, pending, permit>>
  BY DEF callVars, writerVars
<1>2. UNCHANGED <<rpc, cur, got, res, item, state_mutated, resp, head, rows, taken, gone>>
  BY DEF readerVars, streamVars
<1>3. Streams' = Streams
  BY DEF Streams
<1> QED
  BY <1>1, <1>2, <1>3, ZenonT(40) DEF TypeOK

LEMMA TypeStep == TypeOK /\ [Next]_vars => TypeOK'
<1> SUFFICES ASSUME TypeOK, [Next]_vars PROVE TypeOK'
  OBVIOUS
<1> USE DEF TypeOK, callVars, writerVars, readerVars, streamVars, socketVars
<1>1. ASSUME NEW c \in Calls, Send(c) PROVE TypeOK'
  <2>1. Items[c][sent[c] + 1] \in Reqs
    BY <1>1, NextItem DEF Send, Sending
  <2>2. /\ chan' = Append(chan, Items[c][sent[c] + 1])
        /\ accepted' = Append(accepted, Items[c][sent[c] + 1])
        /\ sent' = [sent EXCEPT ![c] = @ + 1]
    BY <1>1 DEF Send, Queue
  <2>3. chan' \in Seq(Reqs) /\ accepted' \in Seq(Reqs) /\ sent' \in [Calls -> Nat]
    BY <2>1, <2>2, Appended, SMTT(40)
  <2>4. UNCHANGED <<handle, over, writerVars, pending, permit, readerVars, resp, streamVars, socketVars>>
    BY <1>1 DEF Send
  <2> QED
    BY <2>3, <2>4, SMTT(40)
<1>2. ASSUME NEW c \in Calls, SendErr(c) PROVE TypeOK'
  BY <1>2 DEF SendErr
<1>3. ASSUME NEW c \in Calls, EnqueueRollback(c) PROVE TypeOK'
  <2>1. Items[c][1] \in Reqs
    BY <1>3, FirstItem DEF EnqueueRollback
  <2>2. /\ chan' = Append(chan, Items[c][1]) /\ accepted' = Append(accepted, Items[c][1])
        /\ sent' = [sent EXCEPT ![c] = 1] /\ over' = over \cup {c}
    BY <1>3 DEF EnqueueRollback, Queue
  <2>3. /\ chan' \in Seq(Reqs) /\ accepted' \in Seq(Reqs)
        /\ sent' \in [Calls -> Nat] /\ over' \subseteq Calls
    BY <2>1, <2>2, Appended
  <2>4. UNCHANGED <<handle, writerVars, pending, permit, readerVars, resp, streamVars, socketVars>>
    BY <1>3 DEF EnqueueRollback
  <2> QED
    BY <2>3, <2>4, SMTT(40)
<1>4. ASSUME NEW c \in Calls, RollbackRefused(c) PROVE TypeOK'
  BY <1>4 DEF RollbackRefused
<1>5. ASSUME NEW c \in Calls, GiveUp(c) PROVE TypeOK'
  BY <1>5 DEF GiveUp
<1>6. ASSUME DropHandle PROVE TypeOK'
  <2>1. handle' = FALSE /\ UNCHANGED <<sent, over, accepted, chan, writerVars, pending, permit,
                                        readerVars, resp, streamVars, socketVars>>
    BY <1>6 DEF DropHandle
  <2>2. handle' \in BOOLEAN
    BY <2>1
  <2> QED
    BY <2>1, <2>2
<1>7. ASSUME NEW r \in Streams, StreamNext(r) PROVE TypeOK'
  BY <1>7, SMTT(40) DEF StreamNext
<1>8. ASSUME WriterRecv PROVE TypeOK'
  BY <1>8, HeadTailProperties, SMTT(40) DEF WriterRecv
<1>9. ASSUME WriterTryRecv PROVE TypeOK'
  <2>1. Head(chan) \in Reqs /\ Tail(chan) \in Seq(Reqs)
    BY <1>9, HeadTailProperties DEF WriterTryRecv
  <2>2. Append(batch, Head(chan)) \in Seq(Reqs) \ {<<>>}
    BY <2>1, Appended
  <2> QED
    BY <1>9, <2>1, <2>2 DEF WriterTryRecv
<1>10. ASSUME WriterNoMore PROVE TypeOK'
  BY <1>10 DEF WriterNoMore
<1>11. ASSUME WriterWrite PROVE TypeOK'
  BY <1>11, ConcatProperties DEF WriterWrite
<1>37. ASSUME WriterFlush PROVE TypeOK'
  BY <1>37 DEF WriterFlush
<1>12. ASSUME WriterWriteErr PROVE TypeOK'
  BY <1>12, FailType, SMTT(40) DEF WriterWriteErr, Endings
<1>13. ASSUME WriterPush PROVE TypeOK'
  BY <1>13, ConcatProperties, SMTT(40) DEF WriterPush
<1>14. ASSUME WriterNotify PROVE TypeOK'
  BY <1>14 DEF WriterNotify
<1>15. ASSUME WriterRecvNone PROVE TypeOK'
  BY <1>15 DEF WriterRecvNone
<1>16. ASSUME WriterDrain PROVE TypeOK'
  BY <1>16, FailType DEF WriterDrain, Endings
<1>17. ASSUME WriterLeave PROVE TypeOK'
  BY <1>17, FailType DEF WriterLeave, Endings
<1>18. ASSUME WriterExit PROVE TypeOK'
  BY <1>18 DEF WriterExit
<1>19. ASSUME ReaderPop PROVE TypeOK'
  <2>1. cur' \in Reqs /\ cur' # None /\ pending' \in Seq(Reqs)
    BY <1>19, NoneApart, HeadTailProperties DEF ReaderPop
  <2>2. rpc' \in {"collect", "drain"} /\ got' = <<>> /\ res' = "ok"
    BY <1>19 DEF ReaderPop
  <2>3. UNCHANGED <<callVars, chan, writerVars, permit, item, state_mutated, resp, streamVars, socketVars>>
    BY <1>19 DEF ReaderPop
  <2>4. rpc # "send"
    BY <1>19 DEF ReaderPop
  <2> QED
    BY <2>1, <2>2, <2>3, <2>4, SMTT(40) DEF Endings
<1>20. ASSUME ReaderPark PROVE TypeOK'
  BY <1>20 DEF ReaderPark
<1>21. ASSUME ReaderWake PROVE TypeOK'
  BY <1>21 DEF ReaderWake
<1>22. ASSUME CollectBuffered PROVE TypeOK'
  BY <1>22, ConsumeType, ZenonT(40) DEF CollectBuffered, ReadOnly, Incoming, Consume
<1>23. ASSUME CollectError PROVE TypeOK'
  BY <1>23, ConsumeType, ZenonT(40) DEF CollectError, ReadOnly, Incoming, Consume, Endings
<1>24. ASSUME StreamRow PROVE TypeOK'
  <2>1. got' \in Seq(Msgs) /\ wire' \in Seq(Seq(Msgs) \ {<<>>})
    BY <1>24, NoneApart, ConsumeType DEF StreamRow, Incoming, Consume
  <2>2. head' \in [Streams -> {None, "ok", "err"}]
    BY <1>24, NoneApart DEF StreamRow, Header
  <2>3. cur' = cur /\ cur # None /\ item = None
    BY <1>24, NoneApart DEF StreamRow, ReadOnly
  <2> QED
    BY <1>24, NoneApart, <2>1, <2>2, <2>3 DEF StreamRow, ReadOnly, RowItems
<1>25. ASSUME StreamDone PROVE TypeOK'
  BY <1>25, ConsumeType, ZenonT(40) DEF StreamDone, ReadOnly, Incoming, Consume, Header
<1>26. ASSUME StreamError PROVE TypeOK'
  <2>1. got' \in Seq(Msgs) /\ wire' \in Seq(Seq(Msgs) \ {<<>>})
    BY <1>26, NoneApart, ConsumeType DEF StreamError, Incoming, Consume
  <2>2. head' \in [Streams -> {None, "ok", "err"}]
    BY <1>26, NoneApart DEF StreamError, Header
  <2>3. cur' = cur /\ cur # None /\ item = None
    BY <1>26, NoneApart DEF StreamError, ReadOnly
  <2> QED
    BY <1>26, NoneApart, <2>1, <2>2, <2>3 DEF StreamError, ReadOnly, Endings, RowItems
<1>27. ASSUME DrainMsg PROVE TypeOK'
  BY <1>27, ConsumeType, ZenonT(40) DEF DrainMsg, ReadOnly, Incoming, Consume
<1>28. ASSUME ReadReady PROVE TypeOK'
  BY <1>28, NoneApart, ConsumeType, ZenonT(40), ReadReadyIs DEF ReadyHere, ReadOnly, Incoming, Consume, Header, Note
<1>29. ASSUME ReadEof PROVE TypeOK'
  <2>1. head' \in [Streams -> {None, "ok", "err"}]
    BY <1>29, NoneApart DEF ReadEof, ReadFails, Header
  <2>2. cur' = cur /\ cur # None /\ item = None /\ res' = "closed"
    BY <1>29, NoneApart DEF ReadEof, ReadFails, ReadOnly
  <2> QED
    BY <1>29, NoneApart, <2>1, <2>2 DEF ReadEof, ReadFails, ReadOnly, Endings, RowItems
<1>30. ASSUME StreamSend PROVE TypeOK'
  <2>1. cur # None /\ item \in RowItems
    BY <1>30, NoneApart DEF StreamSend
  <2>2. cur \in Streams => Append(rows[cur], item) \in Seq(RowItems)
    BY <2>1, AppendProperties
  <2>3. rows' \in [Streams -> Seq(RowItems)]
    BY <1>30, NoneApart, <2>2 DEF StreamSend
  <2> QED
    BY <1>30, NoneApart, <2>1, <2>3 DEF StreamSend, AfterSend
<1>31. ASSUME StreamSendErr PROVE TypeOK'
  BY <1>31, NoneApart DEF StreamSendErr, AfterSend
<1>32. ASSUME ReaderAnswer PROVE TypeOK'
  BY <1>32, NoneApart, SMTT(40) DEF ReaderAnswer, Endings, Outcomes
<1>33. ASSUME Reply PROVE TypeOK'
  <2>1. Head(inbox) \in Reqs /\ Tail(inbox) \in Seq(Reqs)
    BY <1>33, HeadTailProperties DEF Reply
  <2>2. PICK a \in Response(Head(inbox)) : /\ wire' = Append(wire, a)
                                           /\ served' = [served EXCEPT ![Head(inbox)] = a]
    BY <1>33 DEF Reply
  <2>3. a \in Seq(Msgs) \ {<<>>}
    BY <2>1, ResponseType
  <2>4. wire' \in Seq(Seq(Msgs) \ {<<>>}) /\ served' \in [Reqs -> Seq(Msgs)]
    BY <2>2, <2>3, AppendProperties
  <2>5. inbox' \in Seq(Reqs) /\ eof' \in BOOLEAN
    BY <1>33, <2>1 DEF Reply
  <2>6. UNCHANGED <<callVars, chan, writerVars, pending, permit, readerVars, resp, streamVars>>
    BY <1>33 DEF Reply
  <2> HIDE DEF TypeOK
  <2> QED
    BY <2>4, <2>5, <2>6, ServerTyped
<1>34. ASSUME HangUp PROVE TypeOK'
  <2>1. UNCHANGED <<callVars, chan, writerVars, pending, permit, readerVars, resp, streamVars>>
    BY <1>34 DEF HangUp
  <2>2. UNCHANGED <<wire, served>> /\ eof' = TRUE /\ inbox' = <<>>
    BY <1>34 DEF HangUp
  <2>3. /\ inbox' \in Seq(Reqs) /\ eof' \in BOOLEAN
        /\ wire' \in Seq(Seq(Msgs) \ {<<>>}) /\ served' \in [Reqs -> Seq(Msgs)]
    BY <2>2, EmptySeq
  <2> HIDE DEF TypeOK
  <2> QED
    BY <2>1, <2>3, ServerTyped
<1>35. ASSUME Sever PROVE TypeOK'
  <2>1. wire' \in Seq(Seq(Msgs) \ {<<>>})
    BY <1>35, SeverType
  <2>2. inbox' \in Seq(Reqs) /\ eof' \in BOOLEAN /\ served' \in [Reqs -> Seq(Msgs)]
    BY <1>35, EmptySeq DEF Sever
  <2>3. UNCHANGED <<callVars, chan, writerVars, pending, permit, readerVars, resp, streamVars>>
    BY <1>35 DEF Sever
  <2> HIDE DEF TypeOK
  <2> QED
    BY <2>1, <2>2, <2>3, ServerTyped
<1>36. CASE UNCHANGED vars
  BY <1>36 DEF vars
<1> QED
  BY <1>1, <1>2, <1>3, <1>4, <1>5, <1>6, <1>7, <1>8, <1>9, <1>10, <1>11, <1>12, <1>13, <1>14, <1>15, <1>16, <1>17, <1>18, <1>19, <1>20, <1>21, <1>22, <1>23, <1>24, <1>25, <1>26, <1>27, <1>28, <1>29, <1>30, <1>31, <1>32, <1>33, <1>34, <1>35, <1>36, <1>37
     DEF Next, CallerStep, WriterStep, ReaderStep, ServerStep

\* The types hold, whatever the calls and their requests (async_conn.rs:1027-1213).
THEOREM Typed == Spec => []TypeOK
<1>1. TypeOK /\ [Next]_vars => TypeOK'
  BY TypeStep
<1> QED
  BY TypeInit, <1>1, PTL DEF Spec

-----------------------------------------------------------------------------
(* Places.                                                                 *)

\* The channel has taken the first requests of every call, each once.
Queued ==
  /\ \A c \in Calls : sent[c] <= Len(Items[c])
  /\ \A r \in Reqs : r \in Members(accepted) <=> \E c \in Calls : \E i \in 1..sent[c] : Items[c][i] = r
  /\ Inj(accepted)

\* OneHome, with a conjunct for each pair of places.
Homes ==
  /\ Inj(chan) /\ Inj(batch) /\ Inj(pending)
  /\ Members(chan) \cap Members(batch) = {}
  /\ Members(chan) \cap Members(pending) = {}
  /\ Members(batch) \cap Members(pending) = {}
  /\ cur \notin Members(chan) \cup Members(batch) \cup Members(pending)
  /\ \A r \in Reqs : (r \in Members(accepted) /\ resp[r] = None)
                       <=> r \in Members(chan) \cup Members(batch) \cup Members(pending) \cup InHand
  /\ \A r \in Reqs : resp[r] # None => r \in Members(accepted)

Placed == Queued /\ Homes

LEMMA MembersType == \A s \in Seq(Reqs) : Members(s) \subseteq Reqs
BY ElementOfSeq, LenProperties DEF Members

\* The next request of a call has not been queued before.
LEMMA NextIsNew ==
  ASSUME TypeOK, Queued, NEW c \in Calls, sent[c] < Len(Items[c]),
         sent' = [sent EXCEPT ![c] = sent[c] + 1], Queue(Items[c][sent[c] + 1])
  PROVE  /\ Items[c][sent[c] + 1] \in Reqs \ Members(accepted)
         /\ Members(accepted') = Members(accepted) \cup {Items[c][sent[c] + 1]}
         /\ Queued'
<1> DEFINE n == sent[c]
           x == Items[c][n + 1]
<1>1. /\ x \in Reqs /\ Items[c] \in Seq(Reqs) /\ n \in Nat /\ n + 1 <= Len(Items[c])
      /\ \A d \in Calls : Items[d] \in Seq(Reqs) /\ sent[d] \in Nat /\ sent[d] <= Len(Items[d])
      /\ accepted \in Seq(Reqs)
  <2>1. x \in Reqs
    BY NextItem
  <2>2. \A d \in Calls : Items[d] \in Seq(Reqs)
    BY CallAssumption
  <2>3. accepted \in Seq(Reqs) /\ \A d \in Calls : sent[d] \in Nat
    BY DEF TypeOK
  <2>4. n + 1 <= Len(Items[c])
    BY <2>2, <2>3, LenProperties
  <2> QED
    BY <2>1, <2>2, <2>3, <2>4 DEF Queued
<1>2. \A d \in Calls : DOMAIN Items[d] = 1..Len(Items[d])
  BY <1>1, LenProperties
<1>3. ASSUME NEW d \in Calls, NEW i \in 1..sent[d]
      PROVE  Items[d][i] # x
  <2>1. i \in DOMAIN Items[d] /\ n + 1 \in DOMAIN Items[c]
    BY <1>1, <1>2
  <2>2. CASE d # c
    BY <2>1, <2>2, CallAssumption
  <2>3. CASE d = c
    <3>1. i # n + 1
      BY <1>1, <2>3
    <3> QED
      BY <2>1, <2>3, <3>1, CallAssumption
  <2> QED
    BY <2>2, <2>3
<1>4. x \notin Members(accepted)
  BY <1>1, <1>3 DEF Queued
<1>5. accepted' = Append(accepted, x)
  BY DEF Queue
<1>6. /\ Members(accepted') = Members(accepted) \cup {x}
      /\ Inj(accepted')
  BY <1>1, <1>4, <1>5, AppendMembers DEF Queued
<1>7. sent' \in [Calls -> Nat] /\ sent'[c] = n + 1 /\ \A d \in Calls : d # c => sent'[d] = sent[d]
  BY <1>1, SMTT(40) DEF TypeOK
<1> HIDE DEF x, n
<1>8. \A d \in Calls : sent'[d] <= Len(Items[d])
  BY <1>1, <1>7 DEF Queued, n
<1>9. ASSUME NEW r \in Reqs
      PROVE  r \in Members(accepted') <=> \E d \in Calls : \E i \in 1..sent'[d] : Items[d][i] = r
  <2>1. ASSUME r \in Members(accepted)
        PROVE  \E d \in Calls : \E i \in 1..sent'[d] : Items[d][i] = r
    <3>1. PICK d \in Calls : \E i \in 1..sent[d] : Items[d][i] = r
      BY <2>1 DEF Queued
    <3>2. 1..sent[d] \subseteq 1..sent'[d]
      BY <1>1, <1>7 DEF n
    <3> QED
      BY <3>1, <3>2
  <2>2. ASSUME r = x
        PROVE  \E d \in Calls : \E i \in 1..sent'[d] : Items[d][i] = r
    <3>1. n + 1 \in 1..sent'[c]
      BY <1>1, <1>7
    <3> QED
      BY <2>2, <3>1 DEF x
  <2>3. ASSUME NEW d \in Calls, NEW i \in 1..sent'[d], Items[d][i] = r
        PROVE  r \in Members(accepted) \/ r = x
    <3>1. i \in 1..sent[d] \/ (d = c /\ i = n + 1)
      BY <1>1, <1>7 DEF n
    <3> QED
      BY <2>3, <3>1 DEF Queued, x
  <2> QED
    BY <1>6, <2>1, <2>2, <2>3
<1> QED
  BY <1>1, <1>4, <1>6, <1>8, <1>9 DEF Queued, x, n

\* A request enters the channel.
LEMMA HomesQueue ==
  ASSUME TypeOK, Homes, NEW r \in Reqs \ Members(accepted), Queue(r),
         Members(accepted') = Members(accepted) \cup {r},
         UNCHANGED <<batch, pending, cur, resp>>
  PROVE  Homes'
<1>1. chan' = Append(chan, r) /\ chan \in Seq(Reqs)
  BY DEF Queue, TypeOK
<1>2. resp[r] = None
  BY DEF Homes
<1>3. r \notin Members(chan) \cup Members(batch) \cup Members(pending) \cup InHand
  BY DEF Homes
<1>4. r # cur
  BY <1>3, CallAssumption DEF InHand
<1>5. Members(chan') = Members(chan) \cup {r} /\ Inj(chan')
  BY <1>1, <1>3, AppendMembers DEF Homes
<1> QED
  BY <1>2, <1>3, <1>4, <1>5 DEF Homes, InHand

\* Requests that are in S, and nowhere else, are answered by the writer.
LEMMA HomesFail ==
  ASSUME TypeOK, Homes, NEW S, NEW how \in Endings, Fail(S, how),
         Members(chan') \subseteq Members(chan), Inj(chan'),
         Members(batch') \subseteq Members(batch), Inj(batch'),
         Members(pending') \subseteq Members(pending), Inj(pending'),
         UNCHANGED <<accepted, cur>>,
         S = (Members(chan) \cup Members(batch) \cup Members(pending))
               \ (Members(chan') \cup Members(batch') \cup Members(pending'))
  PROVE  Homes'
<1>1. S \subseteq Members(accepted) /\ S \cap InHand = {}
  <2>1. S \subseteq Reqs
    BY MembersType DEF TypeOK
  <2> QED
    BY <2>1 DEF Homes, InHand
<1>2. \A r \in Reqs : r \in S => resp'[r] # None
  <2>1. Ended(how) \in Outcomes
    BY EmptySeq DEF Ended, Outcomes
  <2> QED
    BY <2>1, CallAssumption DEF Fail
<1>3. \A r \in Reqs : r \notin S => resp'[r] = resp[r]
  BY DEF Fail
<1>4. InHand' = InHand
  BY DEF InHand
<1>5. ASSUME NEW r \in Reqs
      PROVE  (r \in Members(accepted') /\ resp'[r] = None)
               <=> r \in Members(chan') \cup Members(batch') \cup Members(pending') \cup InHand'
  BY <1>1, <1>2, <1>3, <1>4 DEF Homes
<1>6. \A r \in Reqs : resp'[r] # None => r \in Members(accepted')
  BY <1>1, <1>3 DEF Homes
<1>7. /\ Members(chan') \cap Members(batch') = {}
      /\ Members(chan') \cap Members(pending') = {}
      /\ Members(batch') \cap Members(pending') = {}
      /\ cur' \notin Members(chan') \cup Members(batch') \cup Members(pending')
  BY DEF Homes
<1> QED
  BY <1>5, <1>6, <1>7 DEF Homes

\* The variables that Placed reads.
placeVars == <<sent, accepted, chan, batch, pending, cur, resp>>

LEMMA PlacedFrame == Placed /\ UNCHANGED placeVars => Placed'
BY SMTT(40) DEF Placed, Queued, Homes, placeVars, Members, Inj, InHand

LEMMA PlacedCaller ==
  ASSUME TypeOK, Placed, CallerStep
  PROVE  Placed'
<1>1. ASSUME NEW c \in Calls, Send(c) PROVE Placed'
  <2>1. sent[c] < Len(Items[c]) /\ Queue(Items[c][sent[c] + 1]) /\ sent' = [sent EXCEPT ![c] = sent[c] + 1]
    BY <1>1 DEF Send, Sending
  <2>2. UNCHANGED <<batch, pending, cur, resp>>
    BY <1>1 DEF Send, writerVars, readerVars
  <2> QED
    BY <2>1, <2>2, NextIsNew, HomesQueue DEF Placed
<1>2. ASSUME NEW c \in Calls, EnqueueRollback(c) PROVE Placed'
  <2>1. sent[c] < Len(Items[c]) /\ Len(Items[c]) = 1
    BY <1>2, CallAssumption DEF EnqueueRollback, Sending
  <2>2. sent[c] = 0
    BY <2>1 DEF TypeOK
  <2>3. Queue(Items[c][sent[c] + 1]) /\ sent' = [sent EXCEPT ![c] = sent[c] + 1]
    BY <1>2, <2>2 DEF EnqueueRollback
  <2>4. UNCHANGED <<batch, pending, cur, resp>>
    BY <1>2 DEF EnqueueRollback, writerVars, readerVars
  <2> QED
    BY <2>1, <2>3, <2>4, NextIsNew, HomesQueue DEF Placed
<1>3. ASSUME NEW c \in Calls, SendErr(c) \/ RollbackRefused(c) \/ GiveUp(c)
      PROVE  UNCHANGED placeVars
  BY <1>3 DEF SendErr, RollbackRefused, GiveUp, placeVars, callVars, writerVars, readerVars
<1>4. DropHandle \/ (\E r \in Streams : StreamNext(r)) => UNCHANGED placeVars
  BY DEF DropHandle, StreamNext, placeVars, callVars, writerVars, readerVars
<1> QED
  BY <1>1, <1>2, <1>3, <1>4, PlacedFrame DEF CallerStep

LEMMA PlacedWriter ==
  ASSUME TypeOK, Placed, WriterStep
  PROVE  Placed'
<1>t. chan \in Seq(Reqs) /\ batch \in Seq(Reqs) /\ pending \in Seq(Reqs)
  BY DEF TypeOK
<1>s. UNCHANGED <<sent, accepted, cur>>
  BY DEF WriterStep, WriterRecv, WriterTryRecv, WriterNoMore, WriterWrite, WriterFlush, WriterWriteErr, WriterPush,
         WriterNotify, WriterRecvNone, WriterDrain, WriterLeave, WriterExit, callVars, readerVars
<1>q. Queued'
  BY <1>s DEF Placed, Queued, Members, Inj
<1>i. InHand' = InHand
  BY <1>s DEF InHand
<1>1. CASE WriterRecv
  <2>1. batch = <<>> /\ chan # <<>> /\ batch' = <<Head(chan)>> /\ chan' = Tail(chan)
    BY <1>1 DEF WriterRecv, TypeOK
  <2>2. UNCHANGED <<pending, resp>>
    BY <1>1 DEF WriterRecv
  <2>3. /\ Members(chan) = Members(chan') \cup {Head(chan)} /\ Inj(chan')
        /\ Head(chan) \notin Members(chan')
    BY <1>t, <2>1, HeadMembers DEF Placed, Homes
  <2>4. Members(batch) = {}
    BY <2>1, EmptyMembers
  <2>5. Members(batch') = {Head(chan)} /\ Inj(batch')
    BY <2>1 DEF Members, Inj
  <2> QED
    BY <1>s, <1>q, <1>i, <2>2, <2>3, <2>4, <2>5 DEF Placed, Homes
<1>2. CASE WriterTryRecv
  <2>1. chan # <<>> /\ batch' = Append(batch, Head(chan)) /\ chan' = Tail(chan)
    BY <1>2 DEF WriterTryRecv
  <2>2. UNCHANGED <<pending, resp>>
    BY <1>2 DEF WriterTryRecv
  <2>3. /\ Members(chan) = Members(chan') \cup {Head(chan)} /\ Inj(chan')
        /\ Head(chan) \notin Members(chan') /\ Head(chan) \in Reqs
    BY <1>t, <2>1, HeadMembers DEF Placed, Homes
  <2>4. Head(chan) \notin Members(batch)
    BY <2>3 DEF Placed, Homes
  <2>5. Members(batch') = Members(batch) \cup {Head(chan)} /\ Inj(batch')
    BY <1>t, <2>1, <2>3, <2>4, AppendMembers DEF Placed, Homes
  <2> QED
    BY <1>s, <1>q, <1>i, <2>2, <2>3, <2>4, <2>5 DEF Placed, Homes
<1>3. CASE WriterWriteErr
  <2>1. Fail(Members(batch), "io") /\ batch' = <<>> /\ UNCHANGED <<chan, pending>>
    BY <1>3 DEF WriterWriteErr
  <2>2. Members(batch') = {} /\ Inj(batch')
    BY <2>1, EmptyMembers
  <2>3. Members(batch) = (Members(chan) \cup Members(batch) \cup Members(pending))
                           \ (Members(chan') \cup Members(batch') \cup Members(pending'))
    BY <2>1, <2>2 DEF Placed, Homes
  <2>4. Homes'
    BY <1>s, <2>1, <2>2, <2>3, HomesFail DEF Placed, Homes, Endings
  <2> QED
    BY <1>q, <2>4 DEF Placed
<1>4. CASE WriterDrain
  <2>1. Fail(Members(pending), "closed") /\ pending' = <<>> /\ UNCHANGED <<chan, batch>>
    BY <1>4 DEF WriterDrain
  <2>2. Members(pending') = {} /\ Inj(pending')
    BY <2>1, EmptyMembers
  <2>3. Members(pending) = (Members(chan) \cup Members(batch) \cup Members(pending))
                           \ (Members(chan') \cup Members(batch') \cup Members(pending'))
    BY <2>1, <2>2 DEF Placed, Homes
  <2>4. Homes'
    BY <1>s, <2>1, <2>2, <2>3, HomesFail DEF Placed, Homes, Endings
  <2> QED
    BY <1>q, <2>4 DEF Placed
<1>5. CASE WriterLeave
  <2>1. Fail(Members(chan), "closed") /\ chan' = <<>> /\ UNCHANGED <<batch, pending>>
    BY <1>5 DEF WriterLeave, writerVars
  <2>2. Members(chan') = {} /\ Inj(chan')
    BY <2>1, EmptyMembers
  <2>3. Members(chan) = (Members(chan) \cup Members(batch) \cup Members(pending))
                           \ (Members(chan') \cup Members(batch') \cup Members(pending'))
    BY <2>1, <2>2 DEF Placed, Homes
  <2>4. Homes'
    BY <1>s, <2>1, <2>2, <2>3, HomesFail DEF Placed, Homes, Endings
  <2> QED
    BY <1>q, <2>4 DEF Placed
<1>6. CASE WriterPush
  <2>1. pending' = pending \o batch /\ batch' = <<>> /\ UNCHANGED <<chan, resp>>
    BY <1>6 DEF WriterPush
  <2>2. Members(pending') = Members(pending) \cup Members(batch) /\ Inj(pending')
    BY <1>t, <2>1, ConcatMembers DEF Placed, Homes
  <2>3. Members(batch') = {} /\ Inj(batch')
    BY <2>1, EmptyMembers
  <2> QED
    BY <1>s, <1>q, <1>i, <2>1, <2>2, <2>3 DEF Placed, Homes
<1>7. CASE WriterNoMore \/ WriterWrite \/ WriterFlush \/ WriterNotify \/ WriterRecvNone \/ WriterExit
  <2>1. UNCHANGED placeVars
    BY <1>s, <1>7 DEF WriterNoMore, WriterWrite, WriterFlush, WriterNotify, WriterRecvNone, WriterExit, placeVars
  <2> QED
    BY <2>1, PlacedFrame
<1> QED
  BY <1>1, <1>2, <1>3, <1>4, <1>5, <1>6, <1>7 DEF WriterStep

LEMMA PlacedReader ==
  ASSUME TypeOK, Placed, ReaderStep
  PROVE  Placed'
<1>1. CASE ReaderPop
  <2>1. /\ cur = None /\ pending # <<>> /\ cur' = Head(pending) /\ pending' = Tail(pending)
        /\ UNCHANGED <<sent, accepted, chan, batch, resp>>
    BY <1>1 DEF ReaderPop, TypeOK, callVars, writerVars
  <2>2. /\ Members(pending) = Members(pending') \cup {Head(pending)} /\ Inj(pending')
        /\ Head(pending) \notin Members(pending') /\ Head(pending) \in Reqs
    BY <2>1, HeadMembers DEF TypeOK, Placed, Homes
  <2>3. InHand = {} /\ InHand' = {Head(pending)}
    BY <2>1, <2>2, CallAssumption DEF InHand
  <2>4. Queued'
    BY <2>1 DEF Placed, Queued, Members, Inj
  <2>5. Members(chan') = Members(chan) /\ Members(batch') = Members(batch) /\ Members(accepted') = Members(accepted)
    BY <2>1
  <2> QED
    BY <2>1, <2>2, <2>3, <2>4, <2>5 DEF Placed, Homes
<1>2. CASE ReaderAnswer
  <2>1. /\ cur \in Reqs /\ cur' = None
        /\ resp' = [resp EXCEPT ![cur] = [res |-> res, msgs |-> got]]
        /\ UNCHANGED <<sent, accepted, chan, batch, pending>>
    BY <1>2 DEF ReaderAnswer, TypeOK, callVars, writerVars
  <2>2. [res |-> res, msgs |-> got] # None
    BY CallAssumption DEF TypeOK, Outcomes
  <2>3. /\ resp'[cur] # None
        /\ \A r \in Reqs \ {cur} : resp'[r] = resp[r]
    BY <2>1, <2>2 DEF TypeOK
  <2>4. InHand = {cur} /\ InHand' = {}
    BY <2>1, CallAssumption DEF InHand
  <2>5. Queued'
    BY <2>1 DEF Placed, Queued, Members, Inj
  <2>6. /\ Members(chan') = Members(chan) /\ Members(batch') = Members(batch)
        /\ Members(pending') = Members(pending) /\ Members(accepted') = Members(accepted)
    BY <2>1
  <2>7. None \notin Members(chan) \cup Members(batch) \cup Members(pending)
    BY MembersType, CallAssumption DEF TypeOK
  <2>8. cur \in Members(accepted)
    BY <2>1, <2>4 DEF Placed, Homes
  <2> QED
    BY <2>1, <2>3, <2>4, <2>5, <2>6, <2>7, <2>8 DEF Placed, Homes
<1>3. CASE ReaderPark \/ ReaderWake \/ StreamSend \/ StreamSendErr
  <2>1. UNCHANGED placeVars
    BY <1>3 DEF ReaderPark, ReaderWake, StreamSend, StreamSendErr, placeVars, callVars, writerVars
  <2> QED
    BY <2>1, PlacedFrame
<1>4. CASE CollectBuffered \/ CollectError \/ StreamRow \/ StreamDone \/ StreamError \/ DrainMsg
             \/ ReadReady \/ ReadEof
  <2>1. UNCHANGED placeVars
    BY <1>4, ReadReadyIs DEF CollectBuffered, CollectError, StreamRow, StreamDone, StreamError, DrainMsg, ReadyHere,
                ReadEof, ReadOnly, placeVars, callVars, writerVars
  <2> QED
    BY <2>1, PlacedFrame
<1> QED
  BY <1>1, <1>2, <1>3, <1>4 DEF ReaderStep

LEMMA PlacedStep == TypeOK /\ Placed /\ [Next]_vars => Placed'
<1> SUFFICES ASSUME TypeOK, Placed, [Next]_vars PROVE Placed'
  OBVIOUS
<1>1. ServerStep \/ Sever => UNCHANGED placeVars
  BY DEF ServerStep, Reply, HangUp, Sever, placeVars, callVars, writerVars, readerVars
<1>2. UNCHANGED vars => UNCHANGED placeVars
  BY DEF vars, placeVars, callVars, writerVars, readerVars
<1> QED
  BY <1>1, <1>2, PlacedFrame, PlacedCaller, PlacedWriter, PlacedReader DEF Next

LEMMA PlacedInit == Init => Placed
<1> SUFFICES ASSUME Init PROVE Placed
  OBVIOUS
<1>1. Members(<<>>) = {} /\ Inj(<<>>)
  BY EmptyMembers
<1>2. \A c \in Calls : Len(Items[c]) \in Nat
  BY CallAssumption, LenProperties
<1>3. Queued
  BY <1>1, <1>2 DEF Init, Queued
<1>4. Homes
  BY <1>1 DEF Init, Homes, InHand
<1> QED
  BY <1>3, <1>4 DEF Placed

LEMMA PlacedImplies == TypeOK /\ Placed => OneHome
<1> SUFFICES ASSUME TypeOK, Placed PROVE OneHome
  OBVIOUS
<1>1. /\ chan \in Seq(Reqs) /\ batch \in Seq(Reqs) /\ pending \in Seq(Reqs) /\ chan \o batch \in Seq(Reqs)
  BY ConcatProperties DEF TypeOK
<1>2. Members(chan \o batch) = Members(chan) \cup Members(batch) /\ Inj(chan \o batch)
  BY <1>1, ConcatMembers DEF Placed, Homes
<1>3. /\ Members(Travelling) = Members(chan) \cup Members(batch) \cup Members(pending)
      /\ Inj(Travelling)
  <2>1. Travelling = (chan \o batch) \o pending
    BY DEF Travelling
  <2>2. Members(chan \o batch) \cap Members(pending) = {} /\ Inj(pending)
    BY <1>2 DEF Placed, Homes
  <2>3. /\ Members((chan \o batch) \o pending) = Members(chan \o batch) \cup Members(pending)
        /\ Inj((chan \o batch) \o pending)
    BY <1>1, <1>2, <2>2, ConcatMembers
  <2> QED
    BY <1>2, <2>1, <2>3
<1>4. Members(Travelling) \cap InHand = {}
  BY <1>3 DEF Placed, Homes, InHand
<1>5. Members(Travelling) \subseteq Reqs /\ InHand \subseteq Reqs /\ Members(accepted) \subseteq Reqs
  BY <1>1, <1>3, MembersType DEF TypeOK, InHand
<1>6. Members(Travelling) \cup InHand = {r \in Members(accepted) : resp[r] = None}
  BY <1>3, <1>5 DEF Placed, Homes
<1> QED
  BY <1>3, <1>4, <1>6 DEF OneHome, Inj

\* Every request has one home, for any calls and any capacity
\* (async_conn.rs:1027-1213: the moves from the channel to the answer).
THEOREM NoneLostOrDoubled == Spec => []OneHome
<1>1. Init => TypeOK /\ Placed
  BY TypeInit, PlacedInit
<1>2. TypeOK /\ Placed /\ [Next]_vars => (TypeOK /\ Placed)'
  BY TypeStep, PlacedStep
<1>3. TypeOK /\ Placed => OneHome
  BY PlacedImplies
<1> QED
  BY <1>1, <1>2, <1>3, PTL DEF Spec

-----------------------------------------------------------------------------
(* Order.  What the server still owes and what the reader still expects    *)
(* are the same requests in the same order, but for those that a dead      *)
(* socket will not bring or a writer that left has given up.  From that:   *)
(* answers and streams are whole, and the connection implements            *)
(* PipelineContract.                                                       *)

Unwritten == Members(chan) \cup (IF wpc \in {"more", "write"} THEN Members(batch) ELSE {})

\* The server has or had every request at most once, and none that is not written.
Fresh ==
  /\ eof => inbox = <<>>
  /\ Inj(inbox)
  /\ \A r \in Members(inbox) : served[r] = <<>>
  /\ \A r \in Unwritten \cup (Reqs \ Members(accepted)) : served[r] = <<>> /\ r \notin Members(inbox)

\* A response is for its request, and ends with its only ReadyForQuery.
Shaped ==
  \A r \in Reqs : \A i \in DOMAIN served[r] :
    /\ served[r][i].req = r
    /\ served[r][i].kind \in ReadyKinds <=> i = Len(served[r])

\* The reader has not come to the end of the response of cur.
Reading == rpc \in {"collect", "drain"} \/ (rpc = "send" /\ item \in {"row", "err"})

\* The requests whose responses, or the rest of them, will come in, in this order;
\* and those whose responses the reader will look for, in this order.
Fronts   == [i \in 1..Len(wire) |-> wire[i][1].req]
Owed     == Fronts \o inbox
Expected == ((IF Reading THEN <<cur>> ELSE <<>>) \o pending) \o (IF wpc \in {"flush", "push"} THEN batch ELSE <<>>)
Working  == wpc \in {"recv", "more", "write", "flush", "push", "notify"}

Compatible(s, t) == \A i \in DOMAIN s \cap DOMAIN t : s[i] = t[i]

Aligned ==
  /\ Compatible(Owed, Expected)
  /\ Working => Len(Owed) <= Len(Expected)
  /\ ~eof => Len(Expected) <= Len(Owed)

StartOf(s, t) == Len(s) <= Len(t) /\ \A i \in DOMAIN s : s[i] = t[i]

\* What has been read of the response that wire[i] is the rest of, and that rest.
Segment(i) == IF Reading /\ i = 1 THEN got \o wire[1] ELSE wire[i]

Segments ==
  /\ \A i \in 1..Len(wire) :
       /\ StartOf(Segment(i), served[wire[i][1].req])
       /\ i < Len(wire) \/ ~eof => wire[i][Len(wire[i])].kind \in ReadyKinds
  /\ Reading /\ wire = <<>> /\ ~eof => got = <<>>

\* An answer is ready when the response is, or is none because the socket closed.
Ends ==
  /\ rpc = "send" /\ item \in {"closed", "protocol"} => res = "closed"
  /\ rpc = "answer" /\ res \in {"ok", "err"} => got = served[cur] /\ got # <<>>

Lockstep == Fresh /\ Shaped /\ Aligned /\ Segments /\ Ends /\ OwnAnswer

\* No response that leaves a transaction open goes unnoticed.
LeavesOpen(msgs) == \E m \in Members(msgs) : m.kind = "ready_in_transaction"
Flagged ==
  /\ LeavesOpen(got) => state_mutated
  /\ OpenTransactionFlagged

-----------------------------------------------------------------------------
(* Sequences.                                                              *)

LEMMA CompatibleTail ==
  ASSUME NEW S, NEW s \in Seq(S), NEW t \in Seq(S), s # <<>>, t # <<>>, Compatible(s, t)
  PROVE  Compatible(Tail(s), Tail(t)) /\ s[1] = t[1]
<1>1. /\ Len(Tail(s)) = Len(s) - 1 /\ Tail(s) \in Seq(S)
      /\ \A i \in 1..Len(Tail(s)) : Tail(s)[i] = s[i + 1]
      /\ Len(Tail(t)) = Len(t) - 1 /\ Tail(t) \in Seq(S)
      /\ \A i \in 1..Len(Tail(t)) : Tail(t)[i] = t[i + 1]
  BY HeadTailProperties
<1>2. Len(s) \in Nat \ {0} /\ Len(t) \in Nat \ {0}
  BY EmptySeq
<1>3. /\ DOMAIN s = 1..Len(s) /\ DOMAIN t = 1..Len(t)
      /\ DOMAIN Tail(s) = 1..(Len(s) - 1) /\ DOMAIN Tail(t) = 1..(Len(t) - 1)
  BY <1>1, LenProperties
<1>4. ASSUME NEW i \in 1..(Len(s) - 1), i \in 1..(Len(t) - 1)
      PROVE  Tail(s)[i] = Tail(t)[i]
  <2>1. i + 1 \in 1..Len(s) /\ i + 1 \in 1..Len(t)
    BY <1>2, <1>4
  <2>2. s[i + 1] = t[i + 1]
    BY <1>3, <2>1 DEF Compatible
  <2> QED
    BY <1>1, <1>4, <2>2
<1>5. s[1] = t[1]
  BY <1>2, <1>3 DEF Compatible
<1> QED
  BY <1>3, <1>4, <1>5 DEF Compatible

LEMMA CompatibleStart ==
  ASSUME NEW S, NEW s \in Seq(S), NEW t \in Seq(S), NEW u \in Seq(S), StartOf(u, s)
  PROVE  /\ Compatible(s, t) => Compatible(u, t)
         /\ Compatible(t, s) => Compatible(t, u)
<1>1. /\ DOMAIN s = 1..Len(s) /\ DOMAIN u = 1..Len(u) /\ Len(s) \in Nat /\ Len(u) \in Nat
      /\ Len(u) <= Len(s)
  BY LenProperties DEF StartOf
<1>2. DOMAIN u \subseteq DOMAIN s /\ \A i \in DOMAIN u : u[i] = s[i]
  BY <1>1 DEF StartOf
<1> HIDE DEF StartOf
<1> QED
  BY <1>2 DEF Compatible

LEMMA StartOfConcat ==
  ASSUME NEW S, NEW s \in Seq(S), NEW t \in Seq(S)
  PROVE  StartOf(s, s \o t) /\ StartOf(s, s) /\ StartOf(<<>>, s)
<1>1. s \o t \in Seq(S) /\ Len(s \o t) = Len(s) + Len(t) /\ \A i \in 1..Len(s) + Len(t) : (s \o t)[i] =
                     IF i <= Len(s) THEN s[i] ELSE t[i - Len(s)]
  BY ConcatProperties
<1>2. Len(s) \in Nat /\ Len(t) \in Nat /\ DOMAIN s = 1..Len(s) /\ Len(<<>>) = 0 /\ DOMAIN <<>> = {}
  BY LenProperties, EmptySeq
<1>3. \A i \in 1..Len(s) : (s \o t)[i] = s[i]
  BY <1>1, <1>2
<1> QED
  BY <1>1, <1>2, <1>3 DEF StartOf

LEMMA CompatibleConcat ==
  ASSUME NEW S, NEW s \in Seq(S), NEW t \in Seq(S), NEW u \in Seq(S), Compatible(s, t)
  PROVE  /\ Len(s) = Len(t) => Compatible(s \o u, t \o u)
         /\ Len(s) <= Len(t) => Compatible(s, t \o u)
<1>1. /\ s \o u \in Seq(S) /\ Len(s \o u) = Len(s) + Len(u)
      /\ \A i \in 1..Len(s) + Len(u) : (s \o u)[i] = IF i <= Len(s) THEN s[i] ELSE u[i - Len(s)]
  BY ConcatProperties
<1>2. /\ t \o u \in Seq(S) /\ Len(t \o u) = Len(t) + Len(u)
      /\ \A i \in 1..Len(t) + Len(u) : (t \o u)[i] = IF i <= Len(t) THEN t[i] ELSE u[i - Len(t)]
  BY ConcatProperties
<1>3. /\ Len(s) \in Nat /\ Len(t) \in Nat /\ Len(u) \in Nat
      /\ DOMAIN s = 1..Len(s) /\ DOMAIN t = 1..Len(t)
      /\ DOMAIN (s \o u) = 1..Len(s) + Len(u) /\ DOMAIN (t \o u) = 1..Len(t) + Len(u)
  BY <1>1, <1>2, LenProperties
<1>4. \A i \in 1..Len(s) : i \in 1..Len(t) => s[i] = t[i]
  BY <1>3 DEF Compatible
<1>5. ASSUME Len(s) = Len(t), NEW i \in 1..Len(s) + Len(u)
      PROVE  (s \o u)[i] = (t \o u)[i]
  <2>1. CASE i <= Len(s)
    BY <1>1, <1>2, <1>3, <1>4, <1>5, <2>1
  <2>2. CASE ~(i <= Len(s))
    BY <1>1, <1>2, <1>3, <1>5, <2>2
  <2> QED
    BY <2>1, <2>2
<1>6. ASSUME Len(s) <= Len(t), NEW i \in 1..Len(s)
      PROVE  s[i] = (t \o u)[i]
  BY <1>2, <1>3, <1>4, <1>6
<1> QED
  BY <1>3, <1>5, <1>6 DEF Compatible

LEMMA AppendNew ==
  ASSUME NEW S, NEW s \in Seq(S), NEW x \in S, Inj(Append(s, x))
  PROVE  x \notin Members(s)
<1>1. /\ Append(s, x) \in Seq(S) /\ Len(Append(s, x)) = Len(s) + 1 /\ Len(s) \in Nat
      /\ DOMAIN s = 1..Len(s) /\ DOMAIN Append(s, x) = 1..(Len(s) + 1)
      /\ \A i \in 1..Len(s) : Append(s, x)[i] = s[i]
      /\ Append(s, x)[Len(s) + 1] = x
  BY AppendProperties, LenProperties
<1>2. \A i \in 1..Len(s) : i \in 1..(Len(s) + 1) /\ i # Len(s) + 1
  BY <1>1
<1>3. Len(s) + 1 \in 1..(Len(s) + 1)
  BY <1>1
<1>4. \A i \in 1..Len(s) : s[i] # x
  BY <1>1, <1>2, <1>3 DEF Inj
<1> QED
  BY <1>1, <1>4, MembersDef

LEMMA TailConcat ==
  ASSUME NEW S, NEW s \in Seq(S), NEW t \in Seq(S), s # <<>>
  PROVE  s \o t # <<>> /\ Tail(s \o t) = Tail(s) \o t /\ Head(s \o t) = Head(s)
BY HeadTailProperties, ConcatProperties, EmptySeq, SeqEqual

-----------------------------------------------------------------------------
(* The sequences of the invariant.                                         *)

LEMMA WireType ==
  ASSUME TypeOK
  PROVE  /\ wire \in Seq(Seq(Msgs) \ {<<>>}) /\ Len(wire) \in Nat /\ DOMAIN wire = 1..Len(wire)
         /\ \A i \in 1..Len(wire) : /\ wire[i] \in Seq(Msgs) /\ wire[i] # <<>>
                                    /\ Len(wire[i]) \in Nat \ {0} /\ DOMAIN wire[i] = 1..Len(wire[i])
                                    /\ wire[i][1] \in Msgs /\ wire[i][1].req \in Reqs
<1>1. wire \in Seq(Seq(Msgs) \ {<<>>})
  BY DEF TypeOK
<1>2. Len(wire) \in Nat /\ DOMAIN wire = 1..Len(wire)
  BY <1>1, LenProperties
<1>3. ASSUME NEW i \in 1..Len(wire)
      PROVE  /\ wire[i] \in Seq(Msgs) /\ wire[i] # <<>>
             /\ Len(wire[i]) \in Nat \ {0} /\ DOMAIN wire[i] = 1..Len(wire[i])
             /\ wire[i][1] \in Msgs /\ wire[i][1].req \in Reqs
  <2>1. wire[i] \in Seq(Msgs) /\ wire[i] # <<>>
    BY <1>1, ElementOfSeq
  <2>2. Len(wire[i]) \in Nat \ {0} /\ DOMAIN wire[i] = 1..Len(wire[i])
    BY <2>1, EmptySeq, LenProperties
  <2>3. wire[i][1] \in Msgs
    BY <2>1, <2>2, ElementOfSeq
  <2>4. wire[i][1].req \in Reqs
    BY <2>3 DEF Msgs
  <2> QED
    BY <2>1, <2>2, <2>3, <2>4
<1> QED
  BY <1>1, <1>2, <1>3

LEMMA FrontsType ==
  ASSUME TypeOK
  PROVE  /\ Fronts \in Seq(Reqs) /\ Len(Fronts) = Len(wire)
         /\ \A i \in 1..Len(wire) : Fronts[i] = wire[i][1].req
         /\ inbox \in Seq(Reqs) /\ Owed \in Seq(Reqs) /\ Len(Owed) = Len(wire) + Len(inbox)
<1>1. Fronts \in Seq(Reqs) /\ Len(Fronts) = Len(wire)
      /\ \A i \in 1..Len(wire) : Fronts[i] = wire[i][1].req
  BY WireType DEF Fronts
<1>2. inbox \in Seq(Reqs)
  BY DEF TypeOK
<1> QED
  BY <1>1, <1>2, ConcatProperties DEF Owed

LEMMA ExpectedType ==
  ASSUME TypeOK
  PROVE  /\ (IF Reading THEN <<cur>> ELSE <<>>) \in Seq(Reqs)
         /\ (IF wpc \in {"flush", "push"} THEN batch ELSE <<>>) \in Seq(Reqs)
         /\ pending \in Seq(Reqs) /\ batch \in Seq(Reqs)
         /\ ((IF Reading THEN <<cur>> ELSE <<>>) \o pending) \in Seq(Reqs)
         /\ Expected \in Seq(Reqs)
<1>1. Reading => cur \in Reqs
  BY DEF TypeOK, Reading
<1>2. (IF Reading THEN <<cur>> ELSE <<>>) \in Seq(Reqs)
  BY <1>1, EmptySeq
<1>3. pending \in Seq(Reqs) /\ batch \in Seq(Reqs)
  BY DEF TypeOK
<1>4. (IF wpc \in {"flush", "push"} THEN batch ELSE <<>>) \in Seq(Reqs)
  BY <1>3, EmptySeq
<1>5. ((IF Reading THEN <<cur>> ELSE <<>>) \o pending) \in Seq(Reqs)
  BY <1>2, <1>3, ConcatProperties
<1> QED
  BY <1>2, <1>3, <1>4, <1>5, ConcatProperties DEF Expected

\* While the reader reads, the request in its hands is the first it expects.
LEMMA ReadingExpects ==
  ASSUME TypeOK, Reading
  PROVE  /\ Expected # <<>> /\ Expected[1] = cur
         /\ Tail(Expected) = pending \o (IF wpc \in {"flush", "push"} THEN batch ELSE <<>>)
<1>1. cur \in Reqs
  BY DEF TypeOK, Reading
<1>2. /\ <<cur>> \in Seq(Reqs) /\ <<cur>> # <<>> /\ Tail(<<cur>>) = <<>> /\ Head(<<cur>>) = cur
      /\ <<cur>> \o pending \in Seq(Reqs) /\ pending \in Seq(Reqs)
      /\ (IF wpc \in {"flush", "push"} THEN batch ELSE <<>>) \in Seq(Reqs)
  BY <1>1, ExpectedType
<1>3. /\ <<cur>> \o pending # <<>> /\ Tail(<<cur>> \o pending) = <<>> \o pending
      /\ Head(<<cur>> \o pending) = cur
  BY <1>2, TailConcat
<1>4. <<>> \o pending = pending
  BY <1>2, ConcatEmptySeq
<1>5. Expected = (<<cur>> \o pending) \o (IF wpc \in {"flush", "push"} THEN batch ELSE <<>>)
  BY DEF Expected
<1>6. /\ Expected # <<>> /\ Head(Expected) = cur
      /\ Tail(Expected) = pending \o (IF wpc \in {"flush", "push"} THEN batch ELSE <<>>)
  <2> DEFINE p == <<cur>> \o pending
             b == IF wpc \in {"flush", "push"} THEN batch ELSE <<>>
  <2>1. p \in Seq(Reqs) /\ b \in Seq(Reqs) /\ p # <<>> /\ Expected = p \o b
        /\ Tail(p) = pending /\ Head(p) = cur
    BY <1>2, <1>3, <1>4, <1>5
  <2> HIDE DEF p, b
  <2>2. p \o b # <<>> /\ Tail(p \o b) = Tail(p) \o b /\ Head(p \o b) = Head(p)
    BY <2>1, TailConcat
  <2> QED
    BY <2>1, <2>2 DEF b
<1>7. Head(Expected) = Expected[1]
  BY <1>6, ExpectedType
<1> QED
  BY <1>6, <1>7

\* The response that comes in first is the one that is being read.
LEMMA ReadingFirst ==
  ASSUME TypeOK, Aligned, Reading, wire # <<>>
  PROVE  wire[1][1].req = cur
<1>1. Len(wire) \in Nat \ {0} /\ Len(inbox) \in Nat
  BY WireType, EmptySeq, FrontsType, LenProperties
<1>2. Owed[1] = Fronts[1] /\ Fronts[1] = wire[1][1].req /\ Owed # <<>>
  BY <1>1, FrontsType, ConcatProperties DEF Owed
<1>3. Owed[1] = Expected[1]
  BY <1>2, FrontsType, ExpectedType, ReadingExpects, CompatibleTail DEF Aligned
<1> QED
  BY <1>2, <1>3, ReadingExpects

LEMMA NoStallHolds ==
  ASSUME TypeOK, Aligned, rpc \in {"collect", "drain"}, wire = <<>>, ~eof
  PROVE  inbox # <<>> /\ Head(inbox) = cur
<1>1. Reading /\ Expected \in Seq(Reqs) /\ Owed \in Seq(Reqs)
  BY ExpectedType, FrontsType DEF Reading
<1>2. Len(Expected) \in Nat \ {0} /\ Expected[1] = cur
  BY <1>1, ReadingExpects, EmptySeq
<1>3. Len(Owed) \in Nat \ {0} /\ Owed # <<>>
  BY <1>1, <1>2, LenProperties DEF Aligned
<1>4. Owed = inbox
  BY FrontsType, ConcatEmptySeq, EmptySeq DEF Owed
<1>5. Owed[1] = Expected[1]
  BY <1>1, <1>3, ReadingExpects, CompatibleTail DEF Aligned
<1> QED
  BY <1>2, <1>3, <1>4, <1>5

-----------------------------------------------------------------------------
(* Fresh.                                                                  *)

LEMMA FreshInit == Init => Fresh
BY EmptyMembers DEF Init, Fresh, Unwritten

\* What Fresh reads.
LEMMA FreshFrame ==
  ASSUME Fresh, UNCHANGED <<eof, inbox, served>>,
         Unwritten' \cup (Reqs \ Members(accepted')) \subseteq Unwritten \cup (Reqs \ Members(accepted))
  PROVE  Fresh'
<1>1. Members(inbox') = Members(inbox) /\ (Inj(inbox) => Inj(inbox'))
  BY DEF Inj, Members
<1> QED
  BY <1>1 DEF Fresh

LEMMA FreshStep ==
  ASSUME TypeOK, Placed, Fresh, [Next]_vars
  PROVE  Fresh'
<1>t. chan \in Seq(Reqs) /\ batch \in Seq(Reqs) /\ pending \in Seq(Reqs) /\ inbox \in Seq(Reqs)
  BY DEF TypeOK
<1>1. ASSUME NEW c \in Calls, Send(c) \/ EnqueueRollback(c) PROVE Fresh'
  <2>1. PICK r \in Reqs : chan' = Append(chan, r) /\ accepted' = Append(accepted, r)
    BY <1>1, NextItem, FirstItem DEF Send, EnqueueRollback, Sending, Queue
  <2>2. /\ Members(chan') = Members(chan) \cup {r}
        /\ Members(accepted') = Members(accepted) \cup {r}
    BY <1>t, <2>1, AppendMembers DEF TypeOK
  <2>3. UNCHANGED <<eof, inbox, served, wpc, batch>>
    BY <1>1 DEF Send, EnqueueRollback, writerVars, socketVars
  <2>4. r \in Unwritten \cup (Reqs \ Members(accepted))
    <3>1. r \notin Members(accepted)
      <4>1. Placed'
        BY <1>1, PlacedCaller DEF CallerStep
      <4>2. Inj(Append(accepted, r)) /\ accepted \in Seq(Reqs)
        BY <2>1, <4>1 DEF Placed, Queued, TypeOK
      <4> QED
        BY <4>2, AppendNew
    <3> QED
      BY <3>1
  <2>5. Members(batch') = Members(batch)
    BY <2>3
  <2> QED
    BY <2>2, <2>3, <2>4, <2>5, FreshFrame DEF Unwritten
<1>2. CASE WriterRecv
  <2>1. /\ chan # <<>> /\ wpc = "recv" /\ wpc' = "more" /\ batch' = <<Head(chan)>> /\ chan' = Tail(chan)
        /\ UNCHANGED <<eof, inbox, served, accepted>>
    BY <1>2 DEF WriterRecv, callVars, socketVars
  <2>2. Members(chan) = Members(chan') \cup {Head(chan)}
    BY <1>t, <2>1, HeadMembers
  <2>3. Members(batch') = {Head(chan)}
    BY <2>1 DEF Members
  <2>4. Members(accepted') = Members(accepted)
    BY <2>1
  <2> QED
    BY <2>1, <2>2, <2>3, <2>4, FreshFrame DEF Unwritten
<1>3. CASE WriterTryRecv
  <2>1. /\ chan # <<>> /\ wpc = "more" /\ batch' = Append(batch, Head(chan)) /\ chan' = Tail(chan)
        /\ UNCHANGED <<eof, inbox, served, accepted, wpc>>
    BY <1>3 DEF WriterTryRecv, callVars, socketVars
  <2>2. Members(chan) = Members(chan') \cup {Head(chan)} /\ Head(chan) \in Reqs
    BY <1>t, <2>1, HeadMembers
  <2>3. Members(batch') = Members(batch) \cup {Head(chan)}
    BY <1>t, <2>1, <2>2, AppendMembers
  <2>4. Members(accepted') = Members(accepted)
    BY <2>1
  <2> QED
    BY <2>1, <2>2, <2>3, <2>4, FreshFrame DEF Unwritten
<1>4. CASE WriterWrite
  <2>1. /\ wpc = "write" /\ wpc' = "flush" /\ inbox' = IF eof THEN inbox ELSE inbox \o batch
        /\ UNCHANGED <<eof, served, accepted, chan, batch>>
    BY <1>4 DEF WriterWrite, callVars
  <2>2. Members(accepted') = Members(accepted) /\ Members(chan') = Members(chan)
    BY <2>1
  <2>3. /\ \A r \in Members(batch) : served[r] = <<>> /\ r \notin Members(inbox)
        /\ Members(batch) \subseteq Members(accepted) /\ Members(batch) \cap Members(chan) = {}
        /\ Inj(batch)
    <3>1. Members(batch) \subseteq Reqs
      BY <1>t, MembersType
    <3> QED
      BY <2>1, <3>1 DEF Fresh, Unwritten, Placed, Homes
  <2>4. CASE eof
    BY <2>1, <2>2, <2>4, FreshFrame DEF Unwritten
  <2>5. CASE ~eof
    <3>1. Members(inbox') = Members(inbox) \cup Members(batch) /\ Inj(inbox')
      <4>1. Members(inbox) \cap Members(batch) = {} /\ Inj(inbox)
        BY <2>3 DEF Fresh
      <4> QED
        BY <1>t, <2>1, <2>3, <2>5, <4>1, ConcatMembers
    <3>2. Unwritten' = Members(chan)
      BY <2>1, <2>2 DEF Unwritten
    <3>3. Members(chan) \subseteq Unwritten
      BY DEF Unwritten
    <3> QED
      BY <2>1, <2>2, <2>3, <2>5, <3>1, <3>2, <3>3 DEF Fresh
  <2> QED
    BY <2>4, <2>5
<1>5. CASE \/ WriterNoMore \/ WriterFlush \/ WriterWriteErr \/ WriterPush \/ WriterNotify \/ WriterRecvNone
           \/ WriterDrain \/ WriterLeave \/ WriterExit
  <2>1. UNCHANGED <<eof, inbox, served, accepted>>
    BY <1>5 DEF WriterNoMore, WriterFlush, WriterWriteErr, WriterPush, WriterNotify, WriterRecvNone,
                WriterDrain, WriterLeave, WriterExit, callVars, socketVars
  <2>2. \/ chan' = chan /\ batch' = batch /\ wpc = "more"
        \/ chan' = chan /\ wpc' \notin {"more", "write"}
        \/ chan' = <<>> /\ wpc' = "left"
    BY <1>5 DEF WriterNoMore, WriterFlush, WriterWriteErr, WriterPush, WriterNotify, WriterRecvNone,
                WriterDrain, WriterLeave, WriterExit
  <2>3. Members(accepted') = Members(accepted)
    BY <2>1
  <2>4. Unwritten' \subseteq Unwritten
    BY <2>2, EmptyMembers DEF Unwritten
  <2> QED
    BY <2>1, <2>3, <2>4, FreshFrame
<1>6. CASE Reply
  <2>1. /\ ~eof /\ inbox # <<>> /\ inbox' = Tail(inbox) /\ UNCHANGED <<eof, accepted, chan, wpc, batch>>
        /\ \A r \in Reqs : r # Head(inbox) => served'[r] = served[r]
    BY <1>6 DEF Reply, TypeOK, callVars, writerVars
  <2>2. /\ Members(inbox) = Members(inbox') \cup {Head(inbox)} /\ Inj(inbox')
        /\ Head(inbox) \notin Members(inbox') /\ Members(inbox') \subseteq Reqs
    BY <1>t, <2>1, HeadMembers, MembersType DEF Fresh
  <2>3. Unwritten' = Unwritten /\ Members(accepted') = Members(accepted)
    BY <2>1 DEF Unwritten, Members
  <2>4. Unwritten \subseteq Reqs
    BY <1>t, MembersType DEF Unwritten
  <2> QED
    BY <2>1, <2>2, <2>3, <2>4 DEF Fresh
<1>7. CASE HangUp \/ Sever
  <2>1. inbox' = <<>> /\ UNCHANGED <<accepted, chan, wpc, batch, served>>
    BY <1>7 DEF HangUp, Sever, callVars, writerVars
  <2>2. Unwritten' = Unwritten /\ Members(accepted') = Members(accepted)
    BY <2>1 DEF Unwritten, Members
  <2> QED
    BY <2>1, <2>2, EmptyMembers DEF Fresh
<1>8. ASSUME \/ ReaderStep \/ UNCHANGED vars \/ DropHandle \/ (\E r \in Streams : StreamNext(r))
             \/ \E c \in Calls : SendErr(c) \/ RollbackRefused(c) \/ GiveUp(c)
      PROVE  Fresh'
  <2>1. UNCHANGED <<eof, inbox, served, accepted, chan, wpc, batch>>
    BY <1>8, ReadReadyIs DEF ReaderStep, ReaderPop, ReaderPark, ReaderWake, CollectBuffered, CollectError, StreamRow,
                StreamDone, StreamError, DrainMsg, ReadyHere, ReadEof, ReadOnly, StreamSend, StreamSendErr,
                ReaderAnswer, DropHandle, StreamNext, SendErr, RollbackRefused, GiveUp,
                vars, callVars, writerVars, socketVars
  <2>2. Unwritten' = Unwritten /\ Members(accepted') = Members(accepted)
    BY <2>1 DEF Unwritten, Members
  <2> QED
    BY <2>1, <2>2, FreshFrame
<1> QED
  BY <1>1, <1>2, <1>3, <1>4, <1>5, <1>6, <1>7, <1>8 DEF Next, CallerStep, WriterStep, ServerStep

-----------------------------------------------------------------------------
(* Reading one message.                                                    *)

LEMMA OneOrMore ==
  /\ \A n \in Nat \ {0} : (n = 1 \/ n >= 2) /\ (~(1 < n) => n = 1)
  /\ \A g \in Nat, n \in Nat \ {0} : g + n <= g + 1 => n = 1
OBVIOUS

\* The message at hand is the one after those that have been read.
LEMMA MessageAt ==
  ASSUME TypeOK, Shaped, Aligned, Segments, rpc \in {"collect", "drain"}, wire # <<>>
  PROVE  /\ Reading /\ cur \in Reqs /\ wire[1][1].req = cur
         /\ got \in Seq(Msgs) /\ Len(got) \in Nat /\ served[cur] \in Seq(Msgs)
         /\ Len(wire) \in Nat \ {0}
         /\ wire[1] \in Seq(Msgs) /\ Len(wire[1]) \in Nat \ {0}
         /\ Head(wire) = wire[1] /\ Message = wire[1][1]
         /\ Len(got) + Len(wire[1]) <= Len(served[cur])
         /\ \A i \in 1..Len(got) : got[i] = served[cur][i]
         /\ \A i \in 1..Len(wire[1]) : /\ wire[1][i] = served[cur][Len(got) + i]
                                       /\ wire[1][i].req = cur
                                       /\ wire[1][i].kind \in ReadyKinds <=> Len(got) + i = Len(served[cur])
<1>1. Reading /\ cur \in Reqs /\ wire[1][1].req = cur
  BY ReadingFirst DEF Reading, TypeOK
<1>2. got \in Seq(Msgs) /\ Len(got) \in Nat /\ served[cur] \in Seq(Msgs) /\ Len(served[cur]) \in Nat
  BY <1>1, LenProperties DEF TypeOK
<1>3. Len(wire) \in Nat \ {0} /\ wire[1] \in Seq(Msgs) /\ Len(wire[1]) \in Nat \ {0}
  BY WireType, EmptySeq
<1>4. Head(wire) = wire[1] /\ Message = wire[1][1]
  BY <1>3, WireType DEF Message
<1> DEFINE u == got \o wire[1]
<1>5. StartOf(u, served[cur])
  <2>1. StartOf(Segment(1), served[cur]) /\ Segment(1) = u
    BY <1>1, <1>3 DEF Segments, Segment
  <2> QED
    BY <2>1
<1>6. /\ u \in Seq(Msgs) /\ Len(u) = Len(got) + Len(wire[1])
      /\ DOMAIN u = 1..(Len(got) + Len(wire[1]))
      /\ \A i \in 1..Len(got) + Len(wire[1]) : u[i] = IF i <= Len(got) THEN got[i] ELSE wire[1][i - Len(got)]
  BY <1>2, <1>3, ConcatProperties, LenProperties
<1> HIDE DEF u
<1>7. /\ Len(got) + Len(wire[1]) <= Len(served[cur])
      /\ \A i \in 1..Len(got) + Len(wire[1]) : u[i] = served[cur][i]
  BY <1>5, <1>6 DEF StartOf
<1>8. \A i \in 1..Len(got) : got[i] = served[cur][i]
  BY <1>2, <1>3, <1>6, <1>7
<1>9. ASSUME NEW i \in 1..Len(wire[1])
      PROVE  /\ wire[1][i] = served[cur][Len(got) + i]
             /\ wire[1][i].req = cur
             /\ wire[1][i].kind \in ReadyKinds <=> Len(got) + i = Len(served[cur])
  <2>1. /\ Len(got) + i \in 1..Len(got) + Len(wire[1]) /\ Len(got) + i \in 1..Len(served[cur])
        /\ ~(Len(got) + i <= Len(got)) /\ (Len(got) + i) - Len(got) = i
    BY <1>2, <1>3, <1>7
  <2>2. wire[1][i] = served[cur][Len(got) + i]
    BY <1>6, <1>7, <2>1
  <2>3. Len(got) + i \in DOMAIN served[cur]
    BY <1>2, <2>1, LenProperties
  <2> QED
    BY <1>1, <2>2, <2>3 DEF Shaped
<1> QED
  BY <1>1, <1>2, <1>3, <1>4, <1>7, <1>8, <1>9

\* ReadyForQuery is the end of the response, and of what is left of it.
LEMMA ConsumeReady ==
  ASSUME TypeOK, Shaped, Aligned, Segments, rpc \in {"collect", "drain"}, wire # <<>>,
         Consume, Message.kind \in ReadyKinds
  PROVE  wire' = Tail(wire) /\ got' = served[cur] /\ got' # <<>>
<1>1. Len(got) + 1 = Len(served[cur]) /\ Len(wire[1]) = 1
  <2>1. Len(got) \in Nat /\ Len(wire[1]) \in Nat \ {0} /\ Len(got) + Len(wire[1]) <= Len(served[cur])
    BY MessageAt
  <2>2. 1 \in 1..Len(wire[1])
    BY <2>1
  <2>3. Len(got) + 1 = Len(served[cur])
    BY <2>2, MessageAt
  <2> QED
    BY <2>1, <2>3, OneOrMore
<1>2. wire' = Tail(wire) /\ got' = Append(got, Message)
  BY <1>1, MessageAt DEF Consume
<1>3. /\ got' \in Seq(Msgs) /\ got' # <<>> /\ Len(got') = Len(served[cur])
      /\ \A i \in 1..Len(got) : got'[i] = got[i]
      /\ got'[Len(got) + 1] = Message
  <2>1. Message \in Msgs
    BY ConsumeType
  <2> QED
    BY <1>1, <1>2, <2>1, MessageAt, AppendProperties
<1>4. \A i \in 1..Len(got') : got'[i] = served[cur][i]
  <2>1. \A i \in 1..Len(got') : i \in 1..Len(got) \/ i = Len(got) + 1
    BY <1>1, <1>3, MessageAt
  <2>2. Message = served[cur][Len(got) + 1]
    BY MessageAt
  <2> QED
    BY <1>3, <2>1, <2>2, MessageAt
<1>5. got' = served[cur]
  BY <1>3, <1>4, MessageAt, SeqEqual
<1> QED
  BY <1>2, <1>3, <1>5

\* Any other message is followed by the rest, unless the socket has died.
LEMMA ConsumeOther ==
  ASSUME TypeOK, Shaped, Aligned, Segments, rpc \in {"collect", "drain"}, wire # <<>>,
         Consume, Message.kind \notin ReadyKinds
  PROVE  \/ wire' = <<>> /\ eof
         \/ /\ wire' = [wire EXCEPT ![1] = Tail(wire[1])]
            /\ Tail(wire[1])[1].req = cur
            /\ got' \o Tail(wire[1]) = got \o wire[1]
            /\ Tail(wire[1])[Len(Tail(wire[1]))] = wire[1][Len(wire[1])]
<1>1. CASE Len(wire[1]) = 1
  <2>1. Len(wire) \in Nat \ {0} /\ wire[1][Len(wire[1])].kind \notin ReadyKinds
    BY <1>1, MessageAt
  <2>2. Len(wire) = 1 /\ eof
    <3>1. 1 \in 1..Len(wire)
      BY <2>1
    <3>2. ~(1 < Len(wire)) /\ eof
      BY <2>1, <3>1 DEF Segments
    <3> QED
      BY <2>1, <3>2, OneOrMore
  <2>3. wire' = Tail(wire)
    BY <1>1, MessageAt DEF Consume
  <2>4. Len(Tail(wire)) = 0 /\ Tail(wire) \in Seq(Seq(Msgs) \ {<<>>})
    BY <2>2, WireType, HeadTailProperties
  <2>5. Tail(wire) = <<>>
    BY <2>4, EmptySeq
  <2> QED
    BY <2>2, <2>3, <2>5
<1>2. CASE Len(wire[1]) # 1
  <2> DEFINE w == wire[1]
             t == Tail(w)
  <2>1. wire' = [wire EXCEPT ![1] = t] /\ got' = Append(got, w[1])
    BY <1>2, MessageAt DEF Consume
  <2>2. /\ w \in Seq(Msgs) /\ w # <<>> /\ Len(w) \in Nat /\ Len(w) >= 2 /\ got \in Seq(Msgs) /\ Len(got) \in Nat
        /\ w[1] \in Msgs /\ \A i \in 1..Len(w) : w[i].req = cur
    <3>1. /\ w \in Seq(Msgs) /\ Len(w) \in Nat \ {0} /\ got \in Seq(Msgs) /\ Len(got) \in Nat
          /\ \A i \in 1..Len(w) : w[i].req = cur
      BY MessageAt
    <3>2. w # <<>>
      BY <3>1, EmptySeq
    <3>3. Len(w) >= 2
      BY <1>2, <3>1, OneOrMore
    <3>4. w[1] \in Msgs
      BY MessageAt, ConsumeType
    <3> QED
      BY <3>1, <3>2, <3>3, <3>4
  <2>3. t \in Seq(Msgs) /\ Len(t) = Len(w) - 1 /\ \A i \in 1..Len(t) : t[i] = w[i + 1]
    BY <2>2, HeadTailProperties
  <2> HIDE DEF w, t
  <2>4. t[1] = w[2] /\ t[Len(t)] = w[Len(w)] /\ w[2].req = cur
    <3>1. 1 \in 1..Len(t) /\ Len(t) \in 1..Len(t) /\ Len(t) + 1 = Len(w) /\ 2 \in 1..Len(w) /\ 1 + 1 = 2
      BY <2>2, <2>3
    <3> QED
      BY <2>2, <2>3, <3>1
  <2> DEFINE g == Append(got, w[1])
  <2>5. /\ g \in Seq(Msgs) /\ Len(g) = Len(got) + 1
        /\ \A i \in 1..Len(got) : g[i] = got[i]
        /\ g[Len(got) + 1] = w[1]
    BY <2>2, AppendProperties
  <2> HIDE DEF g
  <2>6. /\ g \o t \in Seq(Msgs) /\ Len(g \o t) = Len(g) + Len(t)
        /\ \A i \in 1..Len(g) + Len(t) : (g \o t)[i] = IF i <= Len(g) THEN g[i] ELSE t[i - Len(g)]
    BY <2>3, <2>5, ConcatProperties
  <2>7. /\ got \o w \in Seq(Msgs) /\ Len(got \o w) = Len(got) + Len(w)
        /\ \A i \in 1..Len(got) + Len(w) : (got \o w)[i] = IF i <= Len(got) THEN got[i] ELSE w[i - Len(got)]
    BY <2>2, ConcatProperties
  <2>8. Len(g \o t) = Len(got \o w)
    BY <2>2, <2>3, <2>5, <2>6, <2>7
  <2>9. ASSUME NEW i \in 1..(Len(got) + Len(w))
        PROVE  (g \o t)[i] = (got \o w)[i]
    <3>1. CASE i <= Len(got)
      BY <2>2, <2>3, <2>5, <2>6, <2>7, <3>1
    <3>2. CASE i = Len(got) + 1
      <4>1. (g \o t)[i] = w[1]
        BY <2>2, <2>3, <2>5, <2>6, <3>2
      <4>2. i - Len(got) = 1 /\ ~(i <= Len(got))
        BY <2>2, <3>2
      <4> QED
        BY <2>7, <4>1, <4>2
    <3>3. CASE i > Len(got) + 1
      <4>1. /\ i \in 1..Len(g) + Len(t) /\ ~(i <= Len(g)) /\ i - Len(g) \in 1..Len(t)
            /\ (i - Len(g)) + 1 = i - Len(got) /\ ~(i <= Len(got))
        BY <2>2, <2>3, <2>5, <3>3
      <4>2. (g \o t)[i] = w[(i - Len(g)) + 1]
        BY <2>3, <2>6, <4>1
      <4> QED
        BY <2>7, <4>1, <4>2
    <3>4. i <= Len(got) \/ i = Len(got) + 1 \/ i > Len(got) + 1
      BY <2>2
    <3> QED
      BY <3>1, <3>2, <3>3, <3>4
  <2>10. g \o t = got \o w
    BY <2>6, <2>7, <2>8, <2>9, SeqEqual
  <2> QED
    BY <2>1, <2>4, <2>10 DEF w, t, g
<1> QED
  BY <1>1, <1>2

-----------------------------------------------------------------------------
(* Aligned.                                                                *)

LEMMA Assoc == \A s, t, u \in Seq(Reqs) : (s \o t) \o u = s \o (t \o u)
BY ConcatAssociative

HandPart  == IF Reading THEN <<cur>> ELSE <<>>
BatchPart == IF wpc \in {"flush", "push"} THEN batch ELSE <<>>

\* The types of the parts, in the state before and after a step.
PartsTyped ==
  /\ HandPart \in Seq(Reqs) /\ BatchPart \in Seq(Reqs) /\ pending \in Seq(Reqs)
  /\ HandPart \o pending \in Seq(Reqs) /\ Expected = (HandPart \o pending) \o BatchPart
  /\ Expected \in Seq(Reqs)
  /\ Fronts \in Seq(Reqs) /\ Len(Fronts) = Len(wire) /\ Len(wire) \in Nat
  /\ \A i \in 1..Len(wire) : Fronts[i] = wire[i][1].req
  /\ Owed = Fronts \o inbox /\ inbox \in Seq(Reqs) /\ Owed \in Seq(Reqs)
  /\ Len(Owed) \in Nat /\ Len(Expected) \in Nat

LEMMA PartsType == TypeOK => PartsTyped
<1> SUFFICES ASSUME TypeOK PROVE PartsTyped
  OBVIOUS
<1>1. /\ HandPart \in Seq(Reqs) /\ BatchPart \in Seq(Reqs) /\ pending \in Seq(Reqs)
      /\ HandPart \o pending \in Seq(Reqs) /\ Expected = (HandPart \o pending) \o BatchPart
      /\ Expected \in Seq(Reqs)
  BY ExpectedType DEF HandPart, BatchPart, Expected
<1>2. Owed = Fronts \o inbox
  BY DEF Owed
<1>3. Len(Owed) \in Nat /\ Len(Expected) \in Nat
  BY <1>1, FrontsType, LenProperties
<1> QED
  BY <1>1, <1>2, <1>3, FrontsType, WireType DEF PartsTyped

LEMMA PartsTypeNext == TypeOK' => PartsTyped'
BY PartsType, PTL

LEMMA AlignedKeep ==
  ASSUME Aligned, Owed' = Owed, Expected' = Expected, eof' = eof, Working' => Working
  PROVE  Aligned'
<1>1. Compatible(Owed, Expected)' = Compatible(Owed', Expected')
  BY DEF Compatible
<1> QED
  BY <1>1 DEF Aligned

\* A step that changes neither the sequences nor what cuts them.
LEMMA AlignedFrame ==
  ASSUME Aligned, UNCHANGED <<wire, inbox, eof, pending>>, Reading' = Reading, Reading => cur' = cur,
         BatchPart' = BatchPart, Working' => Working
  PROVE  Aligned'
<1>1. Owed' = Owed
  BY DEF Owed, Fronts
<1>2. Expected' = Expected
  <2>1. HandPart' = HandPart /\ BatchPart' = BatchPart
    BY DEF HandPart, BatchPart
  <2>2. Expected = (HandPart \o pending) \o BatchPart
    BY DEF Expected, HandPart, BatchPart
  <2>3. Expected' = (HandPart' \o pending') \o BatchPart'
    BY DEF Expected, HandPart, BatchPart
  <2> QED
    BY <2>1, <2>2, <2>3
<1> QED
  BY <1>1, <1>2, AlignedKeep

LEMMA AlignedTail ==
  ASSUME PartsTyped, PartsTyped', Aligned, Owed # <<>>, Expected # <<>>,
         Owed' = Tail(Owed), Expected' = Tail(Expected), eof' = eof, Working' => Working
  PROVE  Aligned'
<1>1. Compatible(Tail(Owed), Tail(Expected))
  BY CompatibleTail DEF Aligned, PartsTyped
<1>2. /\ Len(Owed') = Len(Owed) - 1 /\ Len(Expected') = Len(Expected) - 1
      /\ Len(Owed) \in Nat /\ Len(Expected) \in Nat
  BY HeadTailProperties DEF PartsTyped
<1>3. Compatible(Owed, Expected)' = Compatible(Owed', Expected')
  BY DEF Compatible
<1> QED
  BY <1>1, <1>2, <1>3 DEF Aligned

LEMMA AlignedCaller ==
  ASSUME Aligned, CallerStep
  PROVE  Aligned'
<1>1. UNCHANGED <<wire, inbox, eof, pending, rpc, item, cur, wpc, batch>>
  BY DEF CallerStep, Send, SendErr, EnqueueRollback, RollbackRefused, GiveUp, DropHandle, StreamNext,
         writerVars, readerVars, socketVars
<1>2. Reading' = Reading /\ Working' = Working /\ BatchPart' = BatchPart
  BY <1>1 DEF Reading, Working, BatchPart
<1> QED
  BY <1>1, <1>2, AlignedFrame

LEMMA AlignedWriter ==
  ASSUME TypeOK, TypeOK', Aligned, WriterStep
  PROVE  Aligned'
<1>p. PartsTyped /\ PartsTyped'
  BY PartsType, PartsTypeNext
<1>t. /\ HandPart \in Seq(Reqs) /\ pending \in Seq(Reqs) /\ Fronts \in Seq(Reqs) /\ inbox \in Seq(Reqs)
      /\ Owed \in Seq(Reqs) /\ Expected \in Seq(Reqs) /\ batch \in Seq(Reqs)
  BY <1>p DEF PartsTyped, TypeOK
<1>n. Len(Owed) \in Nat /\ Len(Expected) \in Nat
  BY <1>p DEF PartsTyped
<1>r. UNCHANGED <<rpc, item, cur, eof, wire>> /\ Reading' = Reading /\ HandPart' = HandPart /\ Fronts' = Fronts
  <2>1. UNCHANGED <<rpc, item, cur, eof, wire>>
    BY DEF WriterStep, WriterRecv, WriterTryRecv, WriterNoMore, WriterWrite, WriterFlush, WriterWriteErr, WriterPush,
           WriterNotify, WriterRecvNone, WriterDrain, WriterLeave, WriterExit, readerVars, socketVars
  <2> QED
    BY <2>1 DEF Reading, HandPart, Fronts
<1>1. CASE \/ WriterRecv \/ WriterTryRecv \/ WriterNoMore \/ WriterFlush \/ WriterNotify
           \/ WriterRecvNone \/ WriterLeave \/ WriterExit
  <2>1. /\ UNCHANGED <<pending, inbox>> /\ (Working' => Working)
        /\ \/ wpc \notin {"flush", "push"} /\ wpc' \notin {"flush", "push"}
           \/ wpc = "flush" /\ wpc' = "push" /\ batch' = batch
    BY <1>1 DEF WriterRecv, WriterTryRecv, WriterNoMore, WriterFlush, WriterNotify, WriterRecvNone,
                WriterLeave, WriterExit, socketVars, Working
  <2>2. BatchPart' = BatchPart
    BY <2>1 DEF BatchPart
  <2> QED
    BY <1>r, <2>1, <2>2, AlignedFrame
<1>2. CASE WriterWrite
  <2>1. /\ wpc = "write" /\ wpc' = "flush" /\ UNCHANGED <<batch, pending>>
        /\ inbox' = IF eof THEN inbox ELSE inbox \o batch
        /\ Working /\ batch \in Seq(Reqs)
    BY <1>2 DEF WriterWrite, Working, TypeOK
  <2>2. Expected' = Expected \o batch
    <3>1. BatchPart = <<>> /\ BatchPart' = batch
      BY <2>1 DEF BatchPart
    <3>2. Expected = HandPart \o pending
      BY <1>p, <3>1, ConcatEmptySeq DEF PartsTyped
    <3> QED
      BY <1>p, <1>r, <2>1, <3>1, <3>2 DEF PartsTyped
  <2>3. /\ Compatible(Owed, Expected) /\ Len(Owed) <= Len(Expected)
        /\ ~eof => Len(Owed) = Len(Expected)
    BY <1>n, <2>1 DEF Aligned
  <2>4. Len(Expected') = Len(Expected) + Len(batch) /\ Len(batch) \in Nat
    <3>1. Expected \in Seq(Reqs) /\ batch \in Seq(Reqs)
      BY <1>t
    <3>2. Len(Expected \o batch) = Len(Expected) + Len(batch)
      BY <3>1, ConcatProperties
    <3> QED
      BY <2>2, <3>1, <3>2, LenProperties
  <2>5. CASE eof
    <3>1. Owed' = Owed
      BY <1>p, <1>r, <2>1, <2>5 DEF PartsTyped
    <3>2. Compatible(Owed', Expected')
      <4>1. Compatible(Owed, Expected \o batch)
        BY <1>t, <2>3, CompatibleConcat
      <4> QED
        BY <2>2, <3>1, <4>1
    <3>3. Len(Owed') <= Len(Expected')
      BY <1>p, <2>3, <2>4, <3>1 DEF PartsTyped
    <3>4. Compatible(Owed, Expected)' = Compatible(Owed', Expected')
      BY DEF Compatible
    <3> QED
      BY <1>r, <2>5, <3>2, <3>3, <3>4 DEF Aligned
  <2>6. CASE ~eof
    <3>1. Owed' = Owed \o batch
      <4>1. Owed = Fronts \o inbox /\ Owed' = Fronts \o (inbox \o batch)
        BY <1>p, <1>r, <2>1, <2>6 DEF PartsTyped
      <4>2. Fronts \in Seq(Reqs) /\ inbox \in Seq(Reqs) /\ batch \in Seq(Reqs)
        BY <1>t
      <4>3. (Fronts \o inbox) \o batch = Fronts \o (inbox \o batch)
        BY <4>2, Assoc
      <4> QED
        BY <4>1, <4>3
    <3>2. Compatible(Owed', Expected')
      BY <1>p, <2>1, <2>2, <2>3, <2>6, <3>1, CompatibleConcat DEF PartsTyped
    <3>3. Len(Owed') = Len(Expected')
      <4>1. Len(Owed') = Len(Owed) + Len(batch)
        BY <1>t, <2>1, <3>1, ConcatProperties
      <4> QED
        BY <2>3, <2>4, <2>6, <4>1
    <3>4. Compatible(Owed, Expected)' = Compatible(Owed', Expected')
      BY DEF Compatible
    <3>5. Len(Owed') \in Nat /\ Len(Expected') \in Nat
      BY <1>p DEF PartsTyped
    <3> QED
      BY <3>2, <3>3, <3>4, <3>5 DEF Aligned
  <2> QED
    BY <2>5, <2>6
<1>3. CASE WriterPush
  <2>1. /\ wpc = "push" /\ wpc' = "notify" /\ pending' = pending \o batch
        /\ batch \in Seq(Reqs) /\ inbox' = inbox
    BY <1>3 DEF WriterPush, TypeOK, socketVars
  <2>2. BatchPart = batch /\ BatchPart' = <<>>
    BY <2>1 DEF BatchPart
  <2>3. Expected' = HandPart \o (pending \o batch)
    <3>1. HandPart' \o pending' \in Seq(Reqs)
      BY <1>p, ConcatProperties DEF PartsTyped
    <3> QED
      BY <1>p, <1>r, <2>1, <2>2, <3>1, ConcatEmptySeq DEF PartsTyped
  <2>4. Expected' = Expected
    <3>1. Expected = (HandPart \o pending) \o batch
      BY <1>p, <2>2 DEF PartsTyped
    <3>2. HandPart \in Seq(Reqs) /\ pending \in Seq(Reqs) /\ batch \in Seq(Reqs)
      BY <1>t
    <3>3. (HandPart \o pending) \o batch = HandPart \o (pending \o batch)
      BY <3>2, Assoc
    <3> QED
      BY <2>3, <3>1, <3>3
  <2>5. Owed' = Owed
    BY <1>p, <1>r, <2>1 DEF PartsTyped
  <2>6. Working' => Working
    BY <2>1 DEF Working
  <2> QED
    BY <1>r, <2>4, <2>5, <2>6, AlignedKeep
<1>4. CASE WriterDrain
  <2>1. wpc = "drain" /\ wpc' = "leave" /\ pending' = <<>> /\ inbox' = inbox
    BY <1>4 DEF WriterDrain, socketVars
  <2>2. BatchPart = <<>> /\ BatchPart' = <<>>
    BY <2>1 DEF BatchPart
  <2>3. Expected = HandPart \o pending /\ Expected' = HandPart
    <3>1. Expected = HandPart \o pending
      BY <1>p, <2>2, ConcatEmptySeq DEF PartsTyped
    <3>2. HandPart \o <<>> = HandPart
      BY <1>p, ConcatEmptySeq DEF PartsTyped
    <3>3. Expected' = (HandPart \o <<>>) \o <<>>
      BY <1>p, <1>r, <2>1, <2>2 DEF PartsTyped
    <3> QED
      BY <1>p, <3>1, <3>2, <3>3 DEF PartsTyped
  <2>4. StartOf(HandPart, Expected)
    BY <1>p, <2>3, StartOfConcat DEF PartsTyped
  <2>5. Owed' = Owed
    BY <1>p, <1>r, <2>1 DEF PartsTyped
  <2>6. Compatible(Owed', Expected')
    <3>1. Compatible(Owed, HandPart)
      BY <1>t, <2>4, CompatibleStart DEF Aligned
    <3> QED
      BY <2>3, <2>5, <3>1
  <2>7. ~eof' => Len(Expected') <= Len(Owed')
    BY <1>p, <1>r, <2>3, <2>4, <2>5 DEF Aligned, StartOf, PartsTyped
  <2>8. ~Working'
    BY <2>1 DEF Working
  <2>9. Compatible(Owed, Expected)' = Compatible(Owed', Expected')
    BY DEF Compatible
  <2> QED
    BY <2>6, <2>7, <2>8, <2>9 DEF Aligned
<1>5. CASE WriterWriteErr
  <2>1. wpc = "flush" /\ wpc' = "drain" /\ eof /\ UNCHANGED <<pending, inbox, eof>>
    BY <1>5 DEF WriterWriteErr, socketVars
  <2>2. BatchPart' = <<>>
    BY <2>1 DEF BatchPart
  <2>3. HandPart \o pending \in Seq(Reqs) /\ BatchPart \in Seq(Reqs) /\ Expected = (HandPart \o pending) \o BatchPart
    BY <1>p DEF PartsTyped
  <2>4. Expected' = HandPart \o pending
    <3>1. Expected' = (HandPart \o pending) \o <<>>
      BY <1>p, <1>r, <2>1, <2>2 DEF PartsTyped
    <3> QED
      BY <2>3, <3>1, ConcatEmptySeq
  <2>5. StartOf(Expected', Expected)
    BY <2>3, <2>4, StartOfConcat
  <2>6. Owed' = Owed
    BY <1>p, <1>r, <2>1 DEF PartsTyped
  <2>7. Compatible(Owed', Expected')
    <3>1. Expected' \in Seq(Reqs)
      BY <1>p DEF PartsTyped
    <3>2. Compatible(Owed, Expected')
      BY <1>t, <2>5, <3>1, CompatibleStart DEF Aligned
    <3> QED
      BY <2>6, <3>2
  <2>8. ~Working'
    BY <2>1 DEF Working
  <2>9. Compatible(Owed, Expected)' = Compatible(Owed', Expected')
    BY DEF Compatible
  <2> QED
    BY <2>1, <2>7, <2>8, <2>9 DEF Aligned
<1> QED
  BY <1>1, <1>2, <1>3, <1>4, <1>5 DEF WriterStep

LEMMA HeadThenTail == \A s \in Seq(Reqs) : s # <<>> => <<Head(s)>> \o Tail(s) = s
<1> SUFFICES ASSUME NEW s \in Seq(Reqs), s # <<>>
             PROVE  <<Head(s)>> \o Tail(s) = s
  OBVIOUS
<1>1. /\ Head(s) \in Reqs /\ Tail(s) \in Seq(Reqs) /\ Len(Tail(s)) = Len(s) - 1 /\ Len(s) \in Nat \ {0}
      /\ \A i \in 1..Len(Tail(s)) : Tail(s)[i] = s[i + 1]
      /\ Head(s) = s[1]
  BY HeadTailProperties, EmptySeq
<1>2. <<Head(s)>> \in Seq(Reqs) /\ Len(<<Head(s)>>) = 1 /\ <<Head(s)>>[1] = s[1]
  BY <1>1
<1> DEFINE u == <<Head(s)>> \o Tail(s)
<1>3. /\ u \in Seq(Reqs) /\ Len(u) = Len(s)
      /\ \A i \in 1..Len(s) : u[i] = IF i <= 1 THEN <<Head(s)>>[i] ELSE Tail(s)[i - 1]
  BY <1>1, <1>2, ConcatProperties
<1>4. ASSUME NEW i \in 1..Len(s) PROVE u[i] = s[i]
  <2>1. CASE i = 1
    BY <1>1, <1>2, <1>3, <2>1
  <2>2. CASE i # 1
    <3>1. i - 1 \in 1..Len(Tail(s)) /\ (i - 1) + 1 = i /\ ~(i <= 1)
      BY <1>1, <2>2
    <3> QED
      BY <1>1, <1>3, <3>1
  <2> QED
    BY <2>1, <2>2
<1> QED
  BY <1>3, <1>4, SeqEqual

\* The response that was being read is complete, or will never be.
LEMMA AlignedAdvance ==
  ASSUME TypeOK, TypeOK', Aligned, Reading, ~Reading', UNCHANGED <<pending, wpc, batch, eof>>,
         \/ Owed # <<>> /\ Owed' = Tail(Owed)
         \/ eof /\ Owed' = <<>>
  PROVE  Aligned'
<1>p. PartsTyped /\ PartsTyped'
  BY PartsType, PartsTypeNext
<1>1. Expected # <<>> /\ Tail(Expected) = pending \o BatchPart
  BY ReadingExpects DEF BatchPart
<1>2. HandPart' = <<>> /\ BatchPart' = BatchPart /\ (Working' => Working)
  BY DEF HandPart, BatchPart, Working
<1>3. Expected' = pending \o BatchPart
  <2>1. pending \in Seq(Reqs) /\ Expected' = (HandPart' \o pending') \o BatchPart'
    BY <1>p DEF PartsTyped
  <2>2. <<>> \o pending = pending
    BY <2>1, ConcatEmptySeq
  <2> QED
    BY <1>2, <2>1, <2>2
<1>4. Expected' = Tail(Expected)
  BY <1>1, <1>3
<1>5. CASE Owed # <<>> /\ Owed' = Tail(Owed)
  BY <1>p, <1>1, <1>2, <1>4, <1>5, AlignedTail
<1>6. CASE eof /\ Owed' = <<>>
  <2>1. Compatible(Owed', Expected')
    BY <1>6 DEF Compatible
  <2>2. Len(Owed') = 0 /\ Len(Expected') \in Nat
    BY <1>p, <1>6 DEF PartsTyped
  <2>3. Compatible(Owed, Expected)' = Compatible(Owed', Expected')
    BY DEF Compatible
  <2>4. Len(Owed') <= Len(Expected')
    BY <2>2
  <2> QED
    BY <1>6, <2>1, <2>3, <2>4 DEF Aligned
<1> QED
  BY <1>5, <1>6

LEMMA AlignedPop ==
  ASSUME TypeOK, TypeOK', Aligned, ReaderPop
  PROVE  Aligned'
<1>p. PartsTyped /\ PartsTyped'
  BY PartsType, PartsTypeNext
<1>1. /\ ~Reading /\ Reading' /\ pending # <<>> /\ cur' = Head(pending) /\ pending' = Tail(pending)
      /\ UNCHANGED <<wpc, batch, wire, inbox, eof>>
  BY DEF ReaderPop, Reading, writerVars, socketVars
<1>2. HandPart = <<>> /\ HandPart' = <<Head(pending)>> /\ BatchPart' = BatchPart
  BY <1>1 DEF HandPart, BatchPart
<1>3. pending \in Seq(Reqs)
  BY DEF TypeOK
<1>4. <<>> \o pending = pending /\ <<Head(pending)>> \o Tail(pending) = pending
  BY <1>1, <1>3, ConcatEmptySeq, HeadThenTail
<1>5. Expected = (HandPart \o pending) \o BatchPart /\ Expected' = (HandPart' \o pending') \o BatchPart'
  BY <1>p DEF PartsTyped
<1>6. Expected' = Expected
  BY <1>1, <1>2, <1>4, <1>5
<1>7. Owed' = Owed /\ (Working' => Working)
  BY <1>1 DEF Owed, Fronts, Working
<1> QED
  BY <1>1, <1>6, <1>7, AlignedKeep

LEMMA OwedTail ==
  ASSUME TypeOK, wire # <<>>, wire' = Tail(wire), inbox' = inbox
  PROVE  Owed # <<>> /\ Owed' = Tail(Owed)
<1>1. /\ Fronts \in Seq(Reqs) /\ inbox \in Seq(Reqs) /\ Len(Fronts) = Len(wire) /\ Len(wire) \in Nat \ {0}
      /\ \A i \in 1..Len(wire) : Fronts[i] = wire[i][1].req
      /\ wire \in Seq(Seq(Msgs) \ {<<>>})
  BY FrontsType, WireType, EmptySeq
<1>2. Fronts # <<>>
  BY <1>1
<1>3. /\ Len(Tail(wire)) = Len(wire) - 1 /\ \A i \in 1..(Len(wire) - 1) : Tail(wire)[i] = wire[i + 1]
      /\ Len(Tail(Fronts)) = Len(wire) - 1 /\ \A i \in 1..(Len(wire) - 1) : Tail(Fronts)[i] = Fronts[i + 1]
      /\ Tail(Fronts) \in Seq(Reqs)
  BY <1>1, <1>2, HeadTailProperties
<1>4. Fronts' = [i \in 1..Len(Tail(wire)) |-> Tail(wire)[i][1].req]
  BY DEF Fronts
<1>5. \A i \in 1..(Len(wire) - 1) : i + 1 \in 1..Len(wire)
  BY <1>1
<1>6. Fronts' = [i \in 1..(Len(wire) - 1) |-> Fronts[i + 1]]
  BY <1>1, <1>3, <1>4, <1>5
<1>7. Fronts' = Tail(Fronts)
  <2>1. Tail(Fronts) \in [1..(Len(wire) - 1) -> Reqs]
    BY <1>3, LenProperties
  <2> QED
    BY <1>3, <1>6, <2>1
<1>8. Fronts \o inbox # <<>> /\ Tail(Fronts \o inbox) = Tail(Fronts) \o inbox
  BY <1>1, <1>2, TailConcat
<1>9. Owed' = Fronts' \o inbox
  BY DEF Owed
<1> QED
  BY <1>7, <1>8, <1>9 DEF Owed

\* The reader takes the next message of a response and stays with it.
LEMMA OwedOther ==
  ASSUME TypeOK, Fresh, Shaped, Aligned, Segments, rpc \in {"collect", "drain"}, wire # <<>>,
         Consume, Message.kind \notin ReadyKinds, inbox' = inbox
  PROVE  Owed' = Owed \/ (eof /\ Owed' = <<>>)
<1>1. CASE wire' = <<>> /\ eof
  <2>1. inbox = <<>>
    BY <1>1 DEF Fresh
  <2>2. Fronts' = <<>>
    BY <1>1 DEF Fronts
  <2>3. Owed' = <<>> \o <<>>
    BY <2>1, <2>2 DEF Owed
  <2> QED
    BY <1>1, <2>3
<1>2. CASE wire' = [wire EXCEPT ![1] = Tail(wire[1])] /\ Tail(wire[1])[1].req = cur
  <2>1. wire[1][1].req = cur /\ DOMAIN wire = 1..Len(wire)
    BY MessageAt, WireType
  <2>2. Len(wire') = Len(wire)
    BY <1>2
  <2>3. \A i \in 1..Len(wire) : wire'[i][1].req = wire[i][1].req
    BY <1>2, <2>1
  <2>4. Fronts' = Fronts
    BY <2>2, <2>3 DEF Fronts
  <2> QED
    BY <2>4 DEF Owed
<1> QED
  BY <1>1, <1>2, ConsumeOther

LEMMA AlignedReader ==
  ASSUME TypeOK, TypeOK', Fresh, Shaped, Aligned, Segments, ReaderStep
  PROVE  Aligned'
<1>r. UNCHANGED <<wpc, batch, inbox, eof>>
  BY ReadReadyIs DEF ReaderStep, ReaderPop, ReaderPark, ReaderWake, CollectBuffered, CollectError, StreamRow, StreamDone,
         StreamError, DrainMsg, ReadyHere, ReadEof, ReadOnly, StreamSend, StreamSendErr, ReaderAnswer,
         writerVars, socketVars
<1>1. CASE ReaderPop
  BY <1>1, AlignedPop
<1>2. CASE ReaderPark \/ ReaderWake \/ StreamSend \/ StreamSendErr \/ ReaderAnswer
  <2>1. UNCHANGED <<wire, pending>>
    BY <1>2 DEF ReaderPark, ReaderWake, StreamSend, StreamSendErr, ReaderAnswer, socketVars
  <2>2. Reading' = Reading /\ (Reading => cur' = cur)
    <3>1. CASE ReaderPark \/ ReaderWake \/ ReaderAnswer
      BY <3>1 DEF ReaderPark, ReaderWake, ReaderAnswer, Reading
    <3>2. CASE StreamSend \/ StreamSendErr
      <4>1. item \in RowItems /\ rpc = "send" /\ cur' = cur
        BY <3>2 DEF StreamSend, StreamSendErr, TypeOK
      <4>2. /\ item \in {"row", "err"} => rpc' \in {"collect", "drain"}
            /\ item \in {"closed", "protocol"} => rpc' = "answer"
        BY <3>2 DEF StreamSend, StreamSendErr, AfterSend
      <4> QED
        BY <4>1, <4>2 DEF Reading, RowItems
    <3> QED
      BY <1>2, <3>1, <3>2
  <2>3. (Working' => Working) /\ BatchPart' = BatchPart
    BY <1>r DEF Working, BatchPart
  <2> QED
    BY <1>r, <2>1, <2>2, <2>3, AlignedFrame
<1>3. CASE CollectBuffered \/ CollectError \/ StreamRow \/ StreamDone \/ StreamError \/ DrainMsg
  <2>1. /\ rpc \in {"collect", "drain"} /\ wire # <<>> /\ Consume /\ Message.kind \notin ReadyKinds
        /\ UNCHANGED <<pending, cur>>
    BY <1>3 DEF CollectBuffered, CollectError, StreamRow, StreamDone, StreamError, DrainMsg, ReadOnly,
                Incoming, ReadyKinds
  <2>2. Reading /\ Reading'
    BY <1>3 DEF CollectBuffered, CollectError, StreamRow, StreamDone, StreamError, DrainMsg, Reading
  <2>3. Expected' = Expected
    <3>1. HandPart' = HandPart /\ BatchPart' = BatchPart
      BY <1>r, <2>1, <2>2 DEF HandPart, BatchPart
    <3>2. Expected = (HandPart \o pending) \o BatchPart /\ Expected' = (HandPart' \o pending') \o BatchPart'
      BY PartsType, PartsTypeNext DEF PartsTyped
    <3> QED
      BY <2>1, <3>1, <3>2
  <2>4. Working' => Working
    BY <1>r DEF Working
  <2>5. CASE Owed' = Owed
    BY <1>r, <2>3, <2>4, <2>5, AlignedKeep
  <2>6. CASE eof /\ Owed' = <<>>
    <3>1. Compatible(Owed', Expected') /\ Len(Owed') = 0
      BY <2>6 DEF Compatible
    <3>2. Len(Expected') \in Nat
      BY PartsTypeNext DEF PartsTyped
    <3>3. Compatible(Owed, Expected)' = Compatible(Owed', Expected')
      BY DEF Compatible
    <3>4. Len(Owed') <= Len(Expected')
      BY <3>1, <3>2
    <3> QED
      BY <1>r, <2>6, <3>1, <3>3, <3>4 DEF Aligned
  <2> QED
    BY <1>r, <2>1, <2>5, <2>6, OwedOther
<1>4. CASE ReadReady
  <2>1. /\ rpc \in {"collect", "drain"} /\ wire # <<>> /\ Consume /\ Message.kind \in ReadyKinds
        /\ rpc' = "answer" /\ pending' = pending
    BY <1>4, ReadReadyIs DEF ReadyHere, ReadOnly, Incoming
  <2>2. Reading /\ ~Reading'
    BY <2>1 DEF Reading
  <2>3. wire' = Tail(wire)
    BY <2>1, ConsumeReady
  <2>4. Owed # <<>> /\ Owed' = Tail(Owed)
    BY <1>r, <2>1, <2>3, OwedTail
  <2> QED
    BY <1>r, <2>1, <2>2, <2>4, AlignedAdvance
<1>5. CASE ReadEof
  <2>1. /\ rpc \in {"collect", "drain"} /\ wire = <<>> /\ eof /\ UNCHANGED <<wire, pending>>
        /\ rpc' = "answer" \/ (rpc' = "send" /\ item' = "closed")
    BY <1>5 DEF ReadEof, ReadFails, ReadOnly
  <2>2. Reading /\ ~Reading'
    BY <2>1 DEF Reading
  <2>3. Fronts' = <<>> /\ inbox' = <<>>
    BY <1>r, <2>1 DEF Fronts, Fresh
  <2>4. Owed' = <<>> \o <<>>
    BY <2>3 DEF Owed
  <2>5. Owed' = <<>>
    BY <2>4
  <2> QED
    BY <1>r, <2>1, <2>2, <2>5, AlignedAdvance
<1> QED
  BY <1>1, <1>2, <1>3, <1>4, <1>5 DEF ReaderStep

\* What Sever leaves on the wire.
LEMMA SeverWire ==
  ASSUME TypeOK, Sever
  PROVE  \/ wire' = <<>>
         \/ \E k \in 1..Len(wire) : \E n \in 1..Len(wire[k]) :
              /\ Len(wire') = k /\ wire'[k] = SubSeq(wire[k], 1, n)
              /\ \A i \in 1..(k - 1) : wire'[i] = wire[i]
              /\ Len(wire'[k]) = n /\ wire'[k] \in Seq(Msgs) /\ \A j \in 1..n : wire'[k][j] = wire[k][j]
<1> SUFFICES ASSUME NEW k \in 1..Len(wire), NEW n \in 1..Len(wire[k]),
                    wire' = Append(SubSeq(wire, 1, k - 1), SubSeq(wire[k], 1, n))
             PROVE  /\ Len(wire') = k /\ wire'[k] = SubSeq(wire[k], 1, n)
                    /\ \A i \in 1..(k - 1) : wire'[i] = wire[i]
                    /\ Len(wire'[k]) = n /\ wire'[k] \in Seq(Msgs) /\ \A j \in 1..n : wire'[k][j] = wire[k][j]
  BY DEF Sever
<1>1. wire[k] \in Seq(Msgs) /\ Len(wire[k]) \in Nat /\ k \in Nat \ {0} /\ n \in Nat \ {0} /\ Len(wire) \in Nat
  BY WireType
<1>2. \A i \in 1..n : wire[k][i] \in Msgs
  BY <1>1, ElementOfSeq
<1>3. /\ SubSeq(wire[k], 1, n) \in Seq(Msgs) /\ Len(SubSeq(wire[k], 1, n)) = n
      /\ \A j \in 1..n : SubSeq(wire[k], 1, n)[j] = wire[k][j]
  BY <1>1, <1>2, SubSeqProperties
<1>4. \A i \in 1..(k - 1) : wire[i] \in Seq(Msgs)
  BY <1>1, WireType
<1>5. /\ SubSeq(wire, 1, k - 1) \in Seq(Seq(Msgs)) /\ Len(SubSeq(wire, 1, k - 1)) = k - 1
      /\ \A i \in 1..(k - 1) : SubSeq(wire, 1, k - 1)[i] = wire[i]
  BY <1>1, <1>4, SubSeqProperties
<1>6. /\ Len(wire') = (k - 1) + 1
      /\ \A i \in 1..(k - 1) : wire'[i] = SubSeq(wire, 1, k - 1)[i]
      /\ wire'[(k - 1) + 1] = SubSeq(wire[k], 1, n)
  BY <1>3, <1>5, AppendProperties
<1>7. (k - 1) + 1 = k
  BY <1>1
<1> QED
  BY <1>3, <1>5, <1>6, <1>7

LEMMA AlignedShorter ==
  ASSUME TypeOK, TypeOK', Aligned, StartOf(Owed', Owed), eof',
         UNCHANGED <<wpc, batch, pending, rpc, item, cur>>
  PROVE  Aligned'
<1>p. PartsTyped /\ PartsTyped'
  BY PartsType, PartsTypeNext
<1>1. Expected' = Expected /\ Working' = Working
  <2>1. HandPart' = HandPart /\ BatchPart' = BatchPart
    BY DEF HandPart, BatchPart, Reading
  <2>2. Expected = (HandPart \o pending) \o BatchPart /\ Expected' = (HandPart' \o pending') \o BatchPart'
    BY <1>p DEF PartsTyped
  <2> QED
    BY <2>1, <2>2 DEF Working
<1>2. Owed \in Seq(Reqs) /\ Owed' \in Seq(Reqs) /\ Expected \in Seq(Reqs)
  BY <1>p DEF PartsTyped
<1>3. Compatible(Owed', Expected)
  BY <1>2, CompatibleStart DEF Aligned
<1>4. Len(Owed') <= Len(Owed) /\ Len(Owed) \in Nat /\ Len(Owed') \in Nat /\ Len(Expected) \in Nat
  BY <1>2, LenProperties DEF StartOf
<1>5. Compatible(Owed, Expected)' = Compatible(Owed', Expected')
  BY DEF Compatible
<1> QED
  BY <1>1, <1>3, <1>4, <1>5 DEF Aligned

LEMMA AlignedServer ==
  ASSUME TypeOK, TypeOK', Aligned, ServerStep \/ Sever
  PROVE  Aligned'
<1>p. PartsTyped /\ PartsTyped'
  BY PartsType, PartsTypeNext
<1>r. UNCHANGED <<wpc, batch, pending, rpc, item, cur>>
  BY DEF ServerStep, Reply, HangUp, Sever, writerVars, readerVars
<1>t. Fronts \in Seq(Reqs) /\ inbox \in Seq(Reqs)
  BY <1>p DEF PartsTyped
<1>1. CASE Reply
  <2>1. PICK a \in Response(Head(inbox)) : wire' = Append(wire, a)
    BY <1>1 DEF Reply
  <2>2. inbox # <<>> /\ Head(inbox) \in Reqs /\ inbox' = Tail(inbox) /\ Tail(inbox) \in Seq(Reqs) /\ eof' = eof
    BY <1>1, <1>t, HeadTailProperties DEF Reply
  <2>3. a \in Seq(Msgs) \ {<<>>} /\ a[1].req = Head(inbox)
    <3>1. a \in Seq(Msgs) \ {<<>>} /\ \A i \in DOMAIN a : a[i].req = Head(inbox)
      BY <2>1, <2>2, ResponseType
    <3>2. 1 \in DOMAIN a
      BY <3>1, EmptySeq, LenProperties
    <3> QED
      BY <3>1, <3>2
  <2>4. Fronts' = Append(Fronts, Head(inbox))
    <3>1. /\ wire \in Seq(Seq(Msgs) \ {<<>>}) /\ Len(wire) \in Nat
          /\ Len(Fronts) = Len(wire) /\ \A i \in 1..Len(wire) : Fronts[i] = wire[i][1].req
      BY WireType, FrontsType
    <3>2. /\ Len(wire') = Len(wire) + 1 /\ \A i \in 1..Len(wire) : wire'[i] = wire[i]
          /\ wire'[Len(wire) + 1] = a
      BY <2>1, <2>3, <3>1, AppendProperties
    <3>3. /\ Fronts' \in Seq(Reqs) /\ Len(Fronts') = Len(wire) + 1
          /\ \A i \in 1..(Len(wire) + 1) : Fronts'[i] = wire'[i][1].req
      BY <1>p, <3>2 DEF PartsTyped
    <3> DEFINE v == Append(Fronts, Head(inbox))
    <3>4. /\ v \in Seq(Reqs) /\ Len(v) = Len(wire) + 1
          /\ \A i \in 1..Len(wire) : v[i] = Fronts[i]
          /\ v[Len(wire) + 1] = Head(inbox)
      BY <1>t, <2>2, <3>1, AppendProperties
    <3> HIDE DEF v
    <3>5. \A i \in 1..(Len(wire) + 1) : i \in 1..Len(wire) \/ i = Len(wire) + 1
      BY <3>1
    <3>6. \A i \in 1..Len(wire) : i \in 1..(Len(wire) + 1)
      BY <3>1
    <3>7. Len(wire) + 1 \in 1..(Len(wire) + 1)
      BY <3>1
    <3>8. \A i \in 1..(Len(wire) + 1) : Fronts'[i] = v[i]
      BY <2>3, <3>1, <3>2, <3>3, <3>4, <3>5, <3>6, <3>7
    <3>9. Fronts' = v
      BY <3>3, <3>4, <3>8, SeqEqual
    <3> QED
      BY <3>9 DEF v
  <2>5. Owed' = Append(Fronts, Head(inbox)) \o Tail(inbox)
    BY <2>2, <2>4 DEF Owed
  <2>6. Append(Fronts, Head(inbox)) = Fronts \o <<Head(inbox)>>
    BY <1>t, <2>2, AppendIsConcat
  <2>7. <<Head(inbox)>> \in Seq(Reqs) /\ <<Head(inbox)>> \o Tail(inbox) = inbox
    BY <1>t, <2>2, HeadThenTail
  <2>8. (Fronts \o <<Head(inbox)>>) \o Tail(inbox) = Fronts \o (<<Head(inbox)>> \o Tail(inbox))
    BY <1>t, <2>2, <2>7, Assoc
  <2>9. Owed' = Owed
    BY <2>5, <2>6, <2>7, <2>8 DEF Owed
  <2>10. Expected' = Expected /\ Working' = Working
    <3>1. HandPart' = HandPart /\ BatchPart' = BatchPart
      BY <1>r DEF HandPart, BatchPart, Reading
    <3>2. Expected = (HandPart \o pending) \o BatchPart /\ Expected' = (HandPart' \o pending') \o BatchPart'
      BY <1>p DEF PartsTyped
    <3> QED
      BY <1>r, <3>1, <3>2 DEF Working
  <2> QED
    BY <2>2, <2>9, <2>10, AlignedKeep
<1>2. CASE HangUp
  <2>1. Fronts' = Fronts /\ inbox' = <<>> /\ eof'
    BY <1>2 DEF HangUp, Fronts
  <2>2. Owed' = Fronts
    BY <1>t, <2>1, ConcatEmptySeq DEF Owed
  <2>3. StartOf(Owed', Owed)
    BY <1>t, <2>2, StartOfConcat DEF Owed
  <2> QED
    BY <1>r, <2>1, <2>3, AlignedShorter
<1>3. CASE Sever
  <2>1. inbox' = <<>> /\ eof'
    BY <1>3 DEF Sever
  <2>2. Owed' = Fronts' /\ Fronts' \in Seq(Reqs) /\ Len(Fronts') = Len(wire')
        /\ \A i \in 1..Len(wire') : Fronts'[i] = wire'[i][1].req
    <3>1. Fronts' \in Seq(Reqs) /\ Owed' = Fronts' \o inbox' /\ Len(Fronts') = Len(wire')
          /\ \A i \in 1..Len(wire') : Fronts'[i] = wire'[i][1].req
      BY <1>p DEF PartsTyped
    <3>2. Fronts' \o <<>> = Fronts'
      BY <3>1, ConcatEmptySeq
    <3> QED
      BY <2>1, <3>1, <3>2
  <2>3. Len(wire') <= Len(wire) /\ \A i \in 1..Len(wire') : wire'[i][1].req = wire[i][1].req
    <3>1. CASE wire' = <<>>
      BY <3>1, WireType
    <3>2. ASSUME NEW k \in 1..Len(wire), NEW n \in 1..Len(wire[k]),
                 Len(wire') = k, \A i \in 1..(k - 1) : wire'[i] = wire[i],
                 \A j \in 1..n : wire'[k][j] = wire[k][j]
          PROVE  Len(wire') <= Len(wire) /\ \A i \in 1..Len(wire') : wire'[i][1].req = wire[i][1].req
      <4>1. Len(wire) \in Nat /\ k \in Nat \ {0} /\ k <= Len(wire) /\ n \in Nat \ {0}
        BY <3>2, WireType
      <4>2. 1 \in 1..n /\ \A i \in 1..k : i \in 1..(k - 1) \/ i = k
        BY <4>1
      <4> QED
        BY <3>2, <4>1, <4>2
    <3> QED
      BY <1>3, <3>1, <3>2, SeverWire
  <2>4. /\ Owed \in Seq(Reqs) /\ Owed' \in Seq(Reqs) /\ Len(wire) <= Len(Owed)
        /\ \A i \in 1..Len(wire) : Owed[i] = wire[i][1].req
    <3>1. Len(Fronts) = Len(wire) /\ \A i \in 1..Len(wire) : Fronts[i] = wire[i][1].req
      BY FrontsType
    <3>2. StartOf(Fronts, Owed) /\ DOMAIN Fronts = 1..Len(Fronts)
      BY <1>t, StartOfConcat, LenProperties DEF Owed
    <3>3. Owed \in Seq(Reqs) /\ Owed' \in Seq(Reqs)
      BY <1>p DEF PartsTyped
    <3> QED
      BY <3>1, <3>2, <3>3 DEF StartOf
  <2>5. StartOf(Owed', Owed)
    <3>1. Len(wire) \in Nat /\ Len(Owed) \in Nat /\ Len(Owed') \in Nat /\ DOMAIN Owed' = 1..Len(Owed')
      BY <2>4, WireType, LenProperties
    <3>2. \A i \in 1..Len(wire') : i \in 1..Len(wire)
      BY <2>2, <2>3, <3>1
    <3>3. Len(Owed') <= Len(Owed)
      BY <2>2, <2>3, <2>4, <3>1
    <3> QED
      BY <2>2, <2>3, <2>4, <3>1, <3>2, <3>3 DEF StartOf
  <2> QED
    BY <1>r, <2>1, <2>5, AlignedShorter
<1> QED
  BY <1>1, <1>2, <1>3 DEF ServerStep

LEMMA AlignedStep ==
  ASSUME TypeOK, Fresh, Shaped, Aligned, Segments, [Next]_vars
  PROVE  Aligned'
<1>1. TypeOK'
  BY TypeStep
<1>2. CASE UNCHANGED vars
  <2>1. UNCHANGED <<wire, inbox, eof, pending, rpc, item, cur, wpc, batch>>
    BY <1>2 DEF vars, writerVars, readerVars, socketVars
  <2>2. Reading' = Reading /\ Working' = Working /\ BatchPart' = BatchPart
    BY <2>1 DEF Reading, Working, BatchPart
  <2> QED
    BY <2>1, <2>2, AlignedFrame
<1> QED
  BY <1>1, <1>2, AlignedCaller, AlignedWriter, AlignedReader, AlignedServer DEF Next

-----------------------------------------------------------------------------
(* Shaped and Segments.                                                    *)

LEMMA ServedStep ==
  ASSUME TypeOK, [Next]_vars
  PROVE  \/ served' = served
         \/ /\ Reply /\ Head(inbox) \in Reqs
            /\ \E a \in Response(Head(inbox)) : wire' = Append(wire, a) /\ served' = [served EXCEPT ![Head(inbox)] = a]
<1>1. ASSUME ~Reply PROVE served' = served
  BY <1>1, ReadReadyIs DEF Next, CallerStep, Send, SendErr, EnqueueRollback, RollbackRefused, GiveUp, DropHandle, StreamNext,
       WriterStep, WriterRecv, WriterTryRecv, WriterNoMore, WriterWrite, WriterFlush, WriterWriteErr, WriterPush,
       WriterNotify, WriterRecvNone, WriterDrain, WriterLeave, WriterExit,
       ReaderStep, ReaderPop, ReaderPark, ReaderWake, CollectBuffered, CollectError, StreamRow, StreamDone,
       StreamError, DrainMsg, ReadyHere, ReadEof, ReadOnly, StreamSend, StreamSendErr, ReaderAnswer,
       ServerStep, HangUp, Sever, vars, socketVars
<1>2. ASSUME Reply PROVE Head(inbox) \in Reqs
  <2>1. inbox \in Seq(Reqs) /\ inbox # <<>>
    BY <1>2 DEF Reply, TypeOK
  <2> QED
    BY <2>1, HeadTailProperties
<1> QED
  BY <1>1, <1>2 DEF Reply

LEMMA ShapedStep ==
  ASSUME TypeOK, Shaped, [Next]_vars
  PROVE  Shaped'
<1>1. CASE served' = served
  BY <1>1 DEF Shaped
<1>2. ASSUME Head(inbox) \in Reqs, NEW a \in Response(Head(inbox)), served' = [served EXCEPT ![Head(inbox)] = a]
      PROVE  Shaped'
  <2>1. /\ \A i \in DOMAIN a : a[i].req = Head(inbox)
        /\ \A i \in DOMAIN a : a[i].kind \in ReadyKinds <=> i = Len(a)
    BY <1>2, ResponseType
  <2>2. /\ served'[Head(inbox)] = a
        /\ \A r \in Reqs : r # Head(inbox) => served'[r] = served[r]
    BY <1>2 DEF TypeOK
  <2> QED
    BY <2>1, <2>2 DEF Shaped
<1> QED
  BY <1>1, <1>2, ServedStep

LEMMA SegmentsFrame ==
  ASSUME TypeOK, Segments, UNCHANGED <<wire, served>>, eof => eof', Reading' = Reading, Reading => got' = got
  PROVE  Segments'
<1>1. \A i \in 1..Len(wire) : Segment(i)' = Segment(i)
  BY DEF Segment
<1> QED
  BY <1>1 DEF Segments, StartOf

LEMMA SegmentsOther ==
  ASSUME TypeOK, Shaped, Aligned, Segments, rpc \in {"collect", "drain"}, wire # <<>>,
         Consume, Message.kind \notin ReadyKinds, Reading', UNCHANGED <<eof, served>>
  PROVE  Segments'
<1>1. CASE wire' = <<>> /\ eof
  <2>1. Len(wire') = 0
    BY <1>1
  <2> QED
    BY <1>1, <2>1 DEF Segments
<1>2. CASE /\ wire' = [wire EXCEPT ![1] = Tail(wire[1])]
           /\ Tail(wire[1])[1].req = cur
           /\ got' \o Tail(wire[1]) = got \o wire[1]
           /\ Tail(wire[1])[Len(Tail(wire[1]))] = wire[1][Len(wire[1])]
  <2>1. /\ wire \in Seq(Seq(Msgs) \ {<<>>}) /\ Len(wire) \in Nat \ {0} /\ DOMAIN wire = 1..Len(wire)
        /\ wire[1][1].req = cur /\ Reading
    BY MessageAt, WireType
  <2>2. /\ Len(wire') = Len(wire) /\ wire'[1] = Tail(wire[1]) /\ wire' # <<>>
        /\ \A i \in 1..Len(wire) : i # 1 => wire'[i] = wire[i]
    BY <1>2, <2>1
  <2>3. ASSUME NEW i \in 1..Len(wire)
        PROVE  /\ StartOf(Segment(i), served[wire[i][1].req])'
               /\ (i < Len(wire) \/ ~eof => wire[i][Len(wire[i])].kind \in ReadyKinds)'
    <3>1. CASE i = 1
      <4>1. Segment(i)' = got' \o Tail(wire[1]) /\ Segment(i) = got \o wire[1]
        BY <2>1, <2>2, <3>1 DEF Segment
      <4>2. wire'[i][1].req = wire[i][1].req /\ wire'[i][Len(wire'[i])] = wire[i][Len(wire[i])]
        BY <1>2, <2>1, <2>2, <3>1
      <4>3. StartOf(Segment(i)', served'[wire'[i][1].req])
        BY <1>2, <4>1, <4>2 DEF Segments
      <4>4. (i < Len(wire') \/ ~eof') => wire'[i][Len(wire'[i])].kind \in ReadyKinds
        BY <2>2, <4>2 DEF Segments
      <4> QED
        BY <4>3, <4>4 DEF StartOf
    <3>2. CASE i # 1
      <4>1. Segment(i)' = Segment(i) /\ wire'[i] = wire[i]
        BY <2>2, <3>2 DEF Segment
      <4> QED
        BY <2>2, <4>1 DEF Segments, StartOf
    <3> QED
      BY <3>1, <3>2
  <2> QED
    BY <2>2, <2>3 DEF Segments
<1> QED
  BY <1>1, <1>2, ConsumeOther

LEMMA SegmentsReader ==
  ASSUME TypeOK, Shaped, Aligned, Segments, ReaderStep
  PROVE  Segments'
<1>r. UNCHANGED <<eof, served>>
  BY ReadReadyIs DEF ReaderStep, ReaderPop, ReaderPark, ReaderWake, CollectBuffered, CollectError, StreamRow, StreamDone,
         StreamError, DrainMsg, ReadyHere, ReadEof, ReadOnly, StreamSend, StreamSendErr, ReaderAnswer, socketVars
<1>1. CASE ReaderPop
  <2>1. ~Reading /\ Reading' /\ got' = <<>> /\ wire' = wire
    BY <1>1 DEF ReaderPop, Reading, socketVars
  <2>2. ASSUME NEW i \in 1..Len(wire) PROVE Segment(i)' = Segment(i)
    <3>1. wire[i] \in Seq(Msgs)
      BY WireType
    <3>2. <<>> \o wire[i] = wire[i]
      BY <3>1, ConcatEmptySeq
    <3> QED
      BY <2>1, <3>2 DEF Segment
  <2> QED
    BY <1>r, <2>1, <2>2 DEF Segments, StartOf
<1>2. CASE ReaderPark \/ ReaderWake \/ ReaderAnswer
  <2>1. wire' = wire /\ ~Reading /\ Reading' = Reading
    BY <1>2 DEF ReaderPark, ReaderWake, ReaderAnswer, Reading, socketVars
  <2> QED
    BY <1>r, <2>1, SegmentsFrame
<1>3. CASE StreamSend \/ StreamSendErr
  <2>1. item \in RowItems /\ rpc = "send" /\ UNCHANGED <<wire, got>>
    BY <1>3 DEF StreamSend, StreamSendErr, TypeOK, socketVars
  <2>2. /\ item \in {"row", "err"} => rpc' \in {"collect", "drain"}
        /\ item \in {"closed", "protocol"} => rpc' = "answer"
    BY <1>3 DEF StreamSend, StreamSendErr, AfterSend
  <2>3. Reading' = Reading
    BY <2>1, <2>2 DEF Reading, RowItems
  <2> QED
    BY <1>r, <2>1, <2>3, SegmentsFrame
<1>4. CASE CollectBuffered \/ CollectError \/ StreamRow \/ StreamDone \/ StreamError \/ DrainMsg
  <2>1. rpc \in {"collect", "drain"} /\ wire # <<>> /\ Consume /\ Message.kind \notin ReadyKinds
    BY <1>4 DEF CollectBuffered, CollectError, StreamRow, StreamDone, StreamError, DrainMsg, Incoming, ReadyKinds
  <2>2. Reading'
    BY <1>4 DEF CollectBuffered, CollectError, StreamRow, StreamDone, StreamError, DrainMsg, Reading
  <2> QED
    BY <1>r, <2>1, <2>2, SegmentsOther
<1>5. CASE ReadReady
  <2>1. /\ rpc \in {"collect", "drain"} /\ wire # <<>> /\ Consume /\ Message.kind \in ReadyKinds
        /\ rpc' = "answer"
    BY <1>5, ReadReadyIs DEF ReadyHere, Incoming
  <2>2. wire' = Tail(wire) /\ ~Reading'
    BY <2>1, ConsumeReady DEF Reading
  <2>3. /\ wire \in Seq(Seq(Msgs) \ {<<>>}) /\ Len(wire) \in Nat \ {0}
        /\ Len(wire') = Len(wire) - 1 /\ \A i \in 1..Len(wire') : wire'[i] = wire[i + 1]
    BY <2>1, <2>2, WireType, EmptySeq, HeadTailProperties
  <2>4. ASSUME NEW i \in 1..Len(wire')
        PROVE  /\ StartOf(Segment(i), served[wire[i][1].req])'
               /\ (i < Len(wire) \/ ~eof => wire[i][Len(wire[i])].kind \in ReadyKinds)'
    <3>1. i + 1 \in 1..Len(wire) /\ i + 1 # 1 /\ (i < Len(wire') => i + 1 < Len(wire))
      BY <2>3
    <3>2. Segment(i)' = wire[i + 1] /\ Segment(i + 1) = wire[i + 1] /\ wire'[i] = wire[i + 1]
      BY <2>2, <2>3, <3>1 DEF Segment
    <3>3. /\ StartOf(wire[i + 1], served[wire[i + 1][1].req])
          /\ i + 1 < Len(wire) \/ ~eof => wire[i + 1][Len(wire[i + 1])].kind \in ReadyKinds
      BY <3>1, <3>2 DEF Segments
    <3> QED
      BY <1>r, <3>1, <3>2, <3>3 DEF StartOf
  <2> QED
    BY <2>2, <2>4 DEF Segments
<1>6. CASE ReadEof
  <2>1. wire' = <<>> /\ eof
    BY <1>6 DEF ReadEof
  <2>2. Len(wire') = 0
    BY <2>1
  <2> QED
    BY <1>r, <2>1, <2>2 DEF Segments
<1> QED
  BY <1>1, <1>2, <1>3, <1>4, <1>5, <1>6 DEF ReaderStep

LEMMA StartOfTrans ==
  ASSUME NEW S, NEW s \in Seq(S), NEW t \in Seq(S), NEW u \in Seq(S), StartOf(s, t), StartOf(t, u)
  PROVE  StartOf(s, u)
<1>1. /\ DOMAIN s = 1..Len(s) /\ DOMAIN t = 1..Len(t)
      /\ Len(s) \in Nat /\ Len(t) \in Nat /\ Len(u) \in Nat
  BY LenProperties
<1>2. Len(s) <= Len(u) /\ \A i \in 1..Len(s) : i \in 1..Len(t)
  BY <1>1 DEF StartOf
<1> QED
  BY <1>1, <1>2 DEF StartOf

LEMMA StartOfLonger ==
  ASSUME NEW S, NEW s \in Seq(S), NEW t \in Seq(S), NEW u \in Seq(S), StartOf(t, u)
  PROVE  StartOf(s \o t, s \o u)
<1>1. /\ s \o t \in Seq(S) /\ Len(s \o t) = Len(s) + Len(t)
      /\ \A i \in 1..Len(s) + Len(t) : (s \o t)[i] = IF i <= Len(s) THEN s[i] ELSE t[i - Len(s)]
  BY ConcatProperties
<1>2. /\ s \o u \in Seq(S) /\ Len(s \o u) = Len(s) + Len(u)
      /\ \A i \in 1..Len(s) + Len(u) : (s \o u)[i] = IF i <= Len(s) THEN s[i] ELSE u[i - Len(s)]
  BY ConcatProperties
<1>3. /\ Len(s) \in Nat /\ Len(t) \in Nat /\ Len(u) \in Nat /\ Len(t) <= Len(u)
      /\ \A i \in 1..Len(t) : t[i] = u[i]
      /\ DOMAIN (s \o t) = 1..Len(s) + Len(t)
  BY <1>1, LenProperties DEF StartOf
<1>4. ASSUME NEW i \in 1..Len(s) + Len(t)
      PROVE  (s \o t)[i] = (s \o u)[i]
  <2>1. i \in 1..Len(s) + Len(u)
    BY <1>3
  <2>2. CASE i <= Len(s)
    BY <1>1, <1>2, <2>1, <2>2
  <2>3. CASE ~(i <= Len(s))
    <3>1. i - Len(s) \in 1..Len(t)
      BY <1>3, <2>3
    <3> QED
      BY <1>1, <1>2, <1>3, <2>1, <2>3, <3>1
  <2> QED
    BY <2>2, <2>3
<1>5. Len(s \o t) <= Len(s \o u)
  BY <1>1, <1>2, <1>3
<1> QED
  BY <1>3, <1>4, <1>5 DEF StartOf

LEMMA SegmentType ==
  ASSUME TypeOK, NEW i \in 1..Len(wire)
  PROVE  /\ Segment(i) \in Seq(Msgs) /\ Len(Segment(i)) >= 1
         /\ wire[i][1].req \in Reqs /\ served[wire[i][1].req] \in Seq(Msgs)
<1>1. wire[i] \in Seq(Msgs) /\ Len(wire[i]) \in Nat \ {0} /\ wire[i][1].req \in Reqs
  BY WireType
<1>2. got \in Seq(Msgs) /\ Len(got) \in Nat /\ served[wire[i][1].req] \in Seq(Msgs)
  BY <1>1, LenProperties DEF TypeOK
<1>3. got \o wire[i] \in Seq(Msgs) /\ Len(got \o wire[i]) = Len(got) + Len(wire[i])
  BY <1>1, <1>2, ConcatProperties
<1>4. CASE Reading /\ i = 1
  BY <1>1, <1>2, <1>3, <1>4 DEF Segment
<1>5. CASE ~(Reading /\ i = 1)
  <2>1. Segment(i) = wire[i]
    BY <1>5 DEF Segment
  <2>2. Len(wire[i]) >= 1
    BY <1>1
  <2> QED
    BY <1>1, <1>2, <2>1, <2>2
<1> QED
  BY <1>1, <1>2, <1>4, <1>5

LEMMA SegmentsReply ==
  ASSUME TypeOK, Fresh, Segments, Reply
  PROVE  Segments'
<1>1. PICK a \in Response(Head(inbox)) : wire' = Append(wire, a) /\ served' = [served EXCEPT ![Head(inbox)] = a]
  BY DEF Reply
<1>2. inbox \in Seq(Reqs) /\ inbox # <<>> /\ ~eof /\ eof' = eof /\ UNCHANGED <<rpc, item, got>>
  BY DEF Reply, TypeOK, readerVars
<1>3. Head(inbox) \in Reqs /\ Head(inbox) \in Members(inbox)
  BY <1>2, HeadMembers
<1>4. served[Head(inbox)] = <<>>
  BY <1>3 DEF Fresh
<1>5. /\ a \in Seq(Msgs) \ {<<>>}
      /\ \A i \in DOMAIN a : a[i].req = Head(inbox)
      /\ \A i \in DOMAIN a : a[i].kind \in ReadyKinds <=> i = Len(a)
  BY <1>3, ResponseType
<1>6. Len(a) \in Nat \ {0} /\ DOMAIN a = 1..Len(a)
  BY <1>5, LenProperties, EmptySeq
<1>7. 1 \in DOMAIN a /\ Len(a) \in DOMAIN a
  BY <1>6
<1>8. a[1].req = Head(inbox) /\ a[Len(a)].kind \in ReadyKinds
  BY <1>5, <1>7
<1>9. /\ wire \in Seq(Seq(Msgs) \ {<<>>}) /\ Len(wire) \in Nat
      /\ Len(wire') = Len(wire) + 1 /\ \A i \in 1..Len(wire) : wire'[i] = wire[i]
      /\ wire'[Len(wire) + 1] = a /\ wire' # <<>>
  BY <1>1, <1>5, WireType, AppendProperties
<1>10. Reading' = Reading
  BY <1>2 DEF Reading
<1>11. served'[Head(inbox)] = a /\ \A r \in Reqs : r # Head(inbox) => served'[r] = served[r]
  BY <1>1, <1>3 DEF TypeOK
<1>12. ASSUME NEW i \in 1..Len(wire)
       PROVE  /\ StartOf(Segment(i)', served'[wire'[i][1].req])
              /\ wire'[i][Len(wire'[i])].kind \in ReadyKinds
  <2>1. wire'[i] = wire[i] /\ Segment(i)' = Segment(i)
    BY <1>2, <1>9, <1>10 DEF Segment
  <2>2. StartOf(Segment(i), served[wire[i][1].req]) /\ wire[i][Len(wire[i])].kind \in ReadyKinds
    BY <1>2 DEF Segments
  <2>3. wire[i][1].req # Head(inbox)
    <3>1. Len(Segment(i)) >= 1 /\ Len(Segment(i)) <= Len(served[wire[i][1].req]) /\ Len(Segment(i)) \in Nat
      BY <2>2, SegmentType, LenProperties DEF StartOf
    <3>2. Len(served[Head(inbox)]) = 0
      BY <1>4
    <3> QED
      BY <3>1, <3>2
  <2> QED
    BY <1>11, <2>1, <2>2, <2>3, SegmentType
<1>13. ASSUME NEW n \in Nat, n = Len(wire) + 1
       PROVE  /\ StartOf(Segment(n)', served'[wire'[n][1].req])
              /\ wire'[n][Len(wire'[n])].kind \in ReadyKinds
  <2>1. wire'[n] = a
    BY <1>9, <1>13
  <2>2. Segment(n)' = a
    <3>1. CASE Reading /\ n = 1
      <4>1. Len(wire) = 0
        BY <1>9, <1>13, <3>1
      <4>2. wire = <<>>
        BY <1>9, <4>1, EmptySeq
      <4>3. got' = <<>>
        BY <1>2, <3>1, <4>2 DEF Segments
      <4>4. <<>> \o a = a
        BY <1>5, ConcatEmptySeq
      <4>5. Segment(n)' = got' \o wire'[n]
        BY <1>10, <3>1 DEF Segment
      <4> QED
        BY <2>1, <4>3, <4>4, <4>5
    <3>2. CASE ~(Reading /\ n = 1)
      BY <1>10, <2>1, <3>2 DEF Segment
    <3> QED
      BY <3>1, <3>2
  <2>3. StartOf(a, a)
    BY <1>5, StartOfConcat
  <2> QED
    BY <1>8, <1>11, <2>1, <2>2, <2>3
<1>14. ASSUME NEW i \in 1..Len(wire')
       PROVE  /\ StartOf(Segment(i)', served'[wire'[i][1].req])
              /\ wire'[i][Len(wire'[i])].kind \in ReadyKinds
  <2>1. CASE i \in 1..Len(wire)
    BY <1>12, <2>1
  <2>2. CASE i = Len(wire) + 1
    <3>1. i \in Nat
      BY <1>9
    <3> QED
      BY <1>13, <2>2, <3>1
  <2>3. i \in 1..Len(wire) \/ i = Len(wire) + 1
    BY <1>9
  <2> QED
    BY <2>1, <2>2, <2>3
<1>15. \A i \in 1..Len(wire') : StartOf(Segment(i), served[wire[i][1].req])'
  BY <1>14 DEF StartOf
<1> QED
  BY <1>9, <1>14, <1>15 DEF Segments

LEMMA SegmentsSever ==
  ASSUME TypeOK, Segments, Sever
  PROVE  Segments'
<1>1. eof' /\ UNCHANGED <<served, rpc, item, got>>
  BY DEF Sever, readerVars
<1>2. Reading' = Reading
  BY <1>1 DEF Reading
<1>3. CASE wire' = <<>>
  BY <1>1, <1>3 DEF Segments
<1>4. ASSUME NEW k \in 1..Len(wire), NEW n \in 1..Len(wire[k]), Len(wire') = k,
             \A i \in 1..(k - 1) : wire'[i] = wire[i],
             Len(wire'[k]) = n, wire'[k] \in Seq(Msgs), \A j \in 1..n : wire'[k][j] = wire[k][j]
      PROVE  Segments'
  <2>1. /\ Len(wire) \in Nat /\ k \in Nat \ {0} /\ k <= Len(wire) /\ n \in Nat \ {0}
        /\ wire[k] \in Seq(Msgs) /\ Len(wire[k]) \in Nat /\ got \in Seq(Msgs)
    <3>1. got \in Seq(Msgs)
      BY DEF TypeOK
    <3>2. Len(wire) \in Nat /\ wire[k] \in Seq(Msgs) /\ Len(wire[k]) \in Nat
      BY <1>4, WireType
    <3>3. k \in Nat \ {0} /\ k <= Len(wire) /\ n \in Nat \ {0}
      BY <3>2
    <3> QED
      BY <3>1, <3>2, <3>3
  <2>2. StartOf(wire'[k], wire[k])
    <3>1. DOMAIN wire'[k] = 1..n
      BY <1>4, LenProperties
    <3>2. n <= Len(wire[k])
      BY <2>1
    <3> QED
      BY <1>4, <3>1, <3>2 DEF StartOf
  <2>3. wire'[k][1].req = wire[k][1].req
    <3>1. 1 \in 1..n
      BY <2>1
    <3> QED
      BY <1>4, <3>1
  <2>4. StartOf(Segment(k)', served'[wire'[k][1].req])
    <3>1. StartOf(Segment(k)', Segment(k)) /\ Segment(k)' \in Seq(Msgs)
      <4>1. CASE Reading /\ k = 1
        <5>1. Segment(k)' = got \o wire'[k] /\ Segment(k) = got \o wire[k]
          BY <1>1, <1>2, <4>1 DEF Segment
        <5>2. StartOf(got \o wire'[k], got \o wire[k])
          BY <1>4, <2>1, <2>2, StartOfLonger
        <5>3. got \o wire'[k] \in Seq(Msgs)
          BY <1>4, <2>1, ConcatProperties
        <5> QED
          BY <5>1, <5>2, <5>3
      <4>2. CASE ~(Reading /\ k = 1)
        BY <1>2, <1>4, <2>2, <4>2 DEF Segment
      <4> QED
        BY <4>1, <4>2
    <3>2. StartOf(Segment(k), served[wire[k][1].req])
      BY <1>4 DEF Segments
    <3>3. Segment(k) \in Seq(Msgs) /\ served[wire[k][1].req] \in Seq(Msgs)
      BY <1>4, SegmentType
    <3>4. StartOf(Segment(k)', served[wire[k][1].req])
      BY <3>1, <3>2, <3>3, StartOfTrans
    <3> QED
      BY <1>1, <2>3, <3>4
  <2>5. ASSUME NEW i \in 1..(k - 1)
        PROVE  /\ StartOf(Segment(i)', served'[wire'[i][1].req])
               /\ wire'[i][Len(wire'[i])].kind \in ReadyKinds
    <3>1. i \in 1..Len(wire) /\ i < Len(wire) /\ wire'[i] = wire[i] /\ (i = 1 => wire'[1] = wire[1])
      BY <1>4, <2>1
    <3>2. Segment(i)' = Segment(i)
      BY <1>1, <1>2, <3>1 DEF Segment
    <3> QED
      BY <1>1, <3>1, <3>2 DEF Segments
  <2>6. ASSUME NEW i \in 1..Len(wire')
        PROVE  /\ StartOf(Segment(i), served[wire[i][1].req])'
               /\ (i < Len(wire) \/ ~eof => wire[i][Len(wire[i])].kind \in ReadyKinds)'
    <3>1. i = k \/ i \in 1..(k - 1)
      BY <1>4, <2>1
    <3>2. StartOf(Segment(i)', served'[wire'[i][1].req])
      BY <2>4, <2>5, <3>1
    <3>3. i < Len(wire') => i \in 1..(k - 1)
      BY <1>4, <2>1
    <3> QED
      BY <1>1, <2>5, <3>2, <3>3 DEF StartOf
  <2>7. wire' # <<>>
    BY <1>4, <2>1
  <2> QED
    BY <2>6, <2>7 DEF Segments
<1> QED
  BY <1>3, <1>4, SeverWire

LEMMA SegmentsStep ==
  ASSUME TypeOK, Fresh, Shaped, Aligned, Segments, [Next]_vars
  PROVE  Segments'
<1>1. CASE CallerStep \/ WriterStep \/ HangUp \/ UNCHANGED vars
  <2>1. UNCHANGED <<wire, served, rpc, item, got>> /\ (eof => eof')
    BY <1>1 DEF CallerStep, Send, SendErr, EnqueueRollback, RollbackRefused, GiveUp, DropHandle, StreamNext,
       WriterStep, WriterRecv, WriterTryRecv, WriterNoMore, WriterWrite, WriterFlush, WriterWriteErr, WriterPush,
       WriterNotify, WriterRecvNone, WriterDrain, WriterLeave, WriterExit,
       HangUp, vars, readerVars, socketVars
  <2>2. Reading' = Reading
    BY <2>1 DEF Reading
  <2> QED
    BY <2>1, <2>2, SegmentsFrame
<1> QED
  BY <1>1, SegmentsReader, SegmentsReply, SegmentsSever DEF Next, ServerStep

-----------------------------------------------------------------------------
(* Ends.                                                                   *)

LEMMA EndsReader ==
  ASSUME TypeOK, Shaped, Aligned, Segments, Ends, ReaderStep
  PROVE  Ends'
<1>r. served' = served
  BY ReadReadyIs DEF ReaderStep, ReaderPop, ReaderPark, ReaderWake, CollectBuffered, CollectError, StreamRow, StreamDone,
         StreamError, DrainMsg, ReadyHere, ReadEof, ReadOnly, StreamSend, StreamSendErr, ReaderAnswer, socketVars
<1>1. CASE ReaderPop \/ ReaderPark \/ ReaderWake \/ ReaderAnswer
  <2>1. rpc' \in {"check", "wait", "collect", "drain"}
    BY <1>1 DEF ReaderPop, ReaderPark, ReaderWake, ReaderAnswer
  <2> QED
    BY <2>1 DEF Ends
<1>2. CASE CollectBuffered \/ CollectError \/ StreamRow \/ StreamDone \/ StreamError \/ DrainMsg
  <2>1. rpc' \in {"collect", "drain"} \/ (rpc' = "send" /\ item' \in {"row", "err"})
    BY <1>2 DEF CollectBuffered, CollectError, StreamRow, StreamDone, StreamError, DrainMsg
  <2> QED
    BY <2>1 DEF Ends
<1>3. CASE ReadReady
  <2>1. /\ rpc \in {"collect", "drain"} /\ wire # <<>> /\ Consume /\ Message.kind \in ReadyKinds
        /\ rpc' = "answer" /\ cur' = cur
    BY <1>3, ReadReadyIs DEF ReadyHere, ReadOnly, Incoming
  <2>2. got' = served[cur] /\ got' # <<>>
    BY <2>1, ConsumeReady
  <2> QED
    BY <1>r, <2>1, <2>2 DEF Ends
<1>4. CASE ReadEof
  <2>1. res' = "closed"
    BY <1>4 DEF ReadEof, ReadFails
  <2> QED
    BY <2>1 DEF Ends
<1>5. CASE StreamSend \/ StreamSendErr
  <2>1. item \in RowItems /\ rpc = "send" /\ UNCHANGED <<res, got, cur>>
    BY <1>5 DEF StreamSend, StreamSendErr, TypeOK
  <2>2. rpc' \in {"collect", "drain", "answer"} /\ (rpc' = "answer" => item \in {"closed", "protocol"})
    BY <1>5, <2>1 DEF StreamSend, StreamSendErr, AfterSend, RowItems
  <2> QED
    BY <2>1, <2>2 DEF Ends
<1> QED
  BY <1>1, <1>2, <1>3, <1>4, <1>5 DEF ReaderStep

\* The server has not answered what the reader has read to its end.
LEMMA EndsServed ==
  ASSUME TypeOK, Fresh, Ends, UNCHANGED <<rpc, res, item, got, cur>>,
         \A r \in Reqs : served[r] # <<>> => served'[r] = served[r]
  PROVE  Ends'
<1>1. ASSUME rpc = "answer", res \in {"ok", "err"} PROVE got = served'[cur] /\ got # <<>>
  <2>1. cur \in Reqs /\ got = served[cur] /\ got # <<>>
    BY <1>1 DEF Ends, TypeOK
  <2> QED
    BY <2>1
<1> QED
  BY <1>1 DEF Ends

\* An answer, once given, stays.
LEMMA ServedKept ==
  ASSUME TypeOK, Fresh, [Next]_vars
  PROVE  \A r \in Reqs : served[r] # <<>> => served'[r] = served[r]
<1>1. CASE served' = served
  BY <1>1
<1>2. CASE /\ Reply /\ Head(inbox) \in Reqs
           /\ \E a \in Response(Head(inbox)) : wire' = Append(wire, a) /\ served' = [served EXCEPT ![Head(inbox)] = a]
  <2>1. inbox \in Seq(Reqs) /\ inbox # <<>>
    BY <1>2 DEF Reply, TypeOK
  <2>2. served[Head(inbox)] = <<>>
    BY <2>1, HeadMembers DEF Fresh
  <2> QED
    BY <1>2, <2>2 DEF TypeOK
<1> QED
  BY <1>1, <1>2, ServedStep

LEMMA EndsStep ==
  ASSUME TypeOK, Fresh, Shaped, Aligned, Segments, Ends, [Next]_vars
  PROVE  Ends'
<1>1. ASSUME ~ReaderStep PROVE UNCHANGED <<rpc, res, item, got, cur>>
  BY <1>1 DEF Next, CallerStep, Send, SendErr, EnqueueRollback, RollbackRefused, GiveUp, DropHandle, StreamNext,
       WriterStep, WriterRecv, WriterTryRecv, WriterNoMore, WriterWrite, WriterFlush, WriterWriteErr, WriterPush,
       WriterNotify, WriterRecvNone, WriterDrain, WriterLeave, WriterExit,
       ServerStep, Reply, HangUp, Sever, vars, readerVars
<1> QED
  BY <1>1, EndsReader, EndsServed, ServedKept

-----------------------------------------------------------------------------
(* OwnAnswer.                                                              *)

\* What the writer says of a request is not an answer.
LEMMA FailedAnswers ==
  ASSUME TypeOK, OwnAnswer, NEW S, NEW how \in {"io", "closed"}, Fail(S, how), served' = served
  PROVE  OwnAnswer'
<1>1. ASSUME NEW r \in Reqs, Answered(r)'
      PROVE  resp'[r].msgs = served[r] /\ served[r] # <<>>
  <2>1. resp'[r] = IF r \in S THEN Ended(how) ELSE resp[r]
    BY DEF Fail
  <2>2. r \notin S
    BY <1>1, <2>1 DEF Answered, Ended
  <2> QED
    BY <1>1, <2>1, <2>2 DEF Answered, OwnAnswer
<1> QED
  BY <1>1 DEF OwnAnswer

LEMMA OwnAnswerFrame ==
  ASSUME TypeOK, OwnAnswer, resp' = resp, \A r \in Reqs : served[r] # <<>> => served'[r] = served[r]
  PROVE  OwnAnswer'
BY DEF OwnAnswer, Answered

LEMMA OwnAnswerStep ==
  ASSUME TypeOK, Fresh, Ends, OwnAnswer, [Next]_vars
  PROVE  OwnAnswer'
<1>1. CASE WriterWriteErr \/ WriterDrain \/ WriterLeave
  <2>1. served' = served /\ \E S : Fail(S, "io") \/ Fail(S, "closed")
    BY <1>1 DEF WriterWriteErr, WriterDrain, WriterLeave, socketVars
  <2> QED
    BY <2>1, FailedAnswers
<1>2. CASE ReaderAnswer
  <2>1. /\ served' = served /\ rpc = "answer" /\ cur \in Reqs
        /\ resp' = [resp EXCEPT ![cur] = [res |-> res, msgs |-> got]]
    BY <1>2 DEF ReaderAnswer, TypeOK, socketVars
  <2>2. ASSUME NEW r \in Reqs, Answered(r)'
        PROVE  resp'[r].msgs = served[r] /\ served[r] # <<>>
    <3>1. CASE r = cur
      <4>1. resp'[r] = [res |-> res, msgs |-> got]
        BY <2>1, <3>1 DEF TypeOK
      <4>2. res \in {"ok", "err"}
        BY <2>2, <4>1 DEF Answered
      <4> QED
        BY <2>1, <3>1, <4>1, <4>2 DEF Ends
    <3>2. CASE r # cur
      <4>1. resp'[r] = resp[r]
        BY <2>1, <3>2 DEF TypeOK
      <4> QED
        BY <2>2, <4>1 DEF Answered, OwnAnswer
    <3> QED
      BY <3>1, <3>2
  <2> QED
    BY <2>1, <2>2 DEF OwnAnswer
<1>3. ASSUME ~(WriterWriteErr \/ WriterDrain \/ WriterLeave), ~ReaderAnswer PROVE resp' = resp
  BY <1>3, ReadReadyIs DEF Next, CallerStep, Send, SendErr, EnqueueRollback, RollbackRefused, GiveUp, DropHandle, StreamNext,
       WriterStep, WriterRecv, WriterTryRecv, WriterNoMore, WriterWrite, WriterFlush, WriterPush,
       WriterNotify, WriterRecvNone, WriterExit,
       ReaderStep, ReaderPop, ReaderPark, ReaderWake, CollectBuffered, CollectError, StreamRow, StreamDone,
       StreamError, DrainMsg, ReadyHere, ReadEof, ReadOnly, StreamSend, StreamSendErr,
       ServerStep, Reply, HangUp, Sever, vars
<1> QED
  BY <1>1, <1>2, <1>3, OwnAnswerFrame, ServedKept

-----------------------------------------------------------------------------
LEMMA LockstepInit == Init => Lockstep
<1> SUFFICES ASSUME Init PROVE Lockstep
  OBVIOUS
<1>1. Len(<<>>) = 0 /\ DOMAIN <<>> = {}
  OBVIOUS
<1>2. Shaped /\ Ends /\ OwnAnswer
  BY DEF Init, Shaped, Ends, OwnAnswer, Answered
<1>3. Segments
  BY <1>1 DEF Init, Segments, Reading
<1>4. Owed = <<>> /\ Expected = <<>>
  <2>1. ~Reading /\ wire = <<>> /\ inbox = <<>> /\ pending = <<>> /\ wpc = "recv"
    BY DEF Init, Reading
  <2>2. Fronts = <<>>
    <3>1. Fronts \in Seq(Reqs) /\ Len(Fronts) = Len(wire)
      BY TypeInit, FrontsType
    <3> QED
      BY <2>1, <3>1, <1>1, EmptySeq
  <2>3. <<>> \o <<>> = <<>>
    OBVIOUS
  <2> QED
    BY <2>1, <2>2, <2>3 DEF Owed, Expected
<1>5. Aligned
  BY <1>1, <1>4 DEF Aligned, Compatible
<1> QED
  BY <1>2, <1>3, <1>5, FreshInit DEF Lockstep

LEMMA LockstepStep == TypeOK /\ Placed /\ Lockstep /\ [Next]_vars => Lockstep'
BY FreshStep, ShapedStep, AlignedStep, SegmentsStep, EndsStep, OwnAnswerStep DEF Lockstep

-----------------------------------------------------------------------------
(* Flagged.                                                                *)

LEMMA NothingOpen == ~LeavesOpen(<<>>)
BY EmptyMembers DEF LeavesOpen

\* Reading a message leaves a transaction open only if the message says so.
LEMMA ConsumeOpen ==
  ASSUME TypeOK, wire # <<>>, Consume
  PROVE  LeavesOpen(got') => LeavesOpen(got) \/ Message.kind = "ready_in_transaction"
<1>1. Message \in Msgs /\ got \in Seq(Msgs) /\ got' = Append(got, Message)
  BY ConsumeType DEF Consume, TypeOK
<1>2. Members(got') = Members(got) \cup {Message}
  BY <1>1, AppendMembers
<1> QED
  BY <1>2 DEF LeavesOpen

LEMMA FlaggedFrame ==
  ASSUME Flagged, resp' = resp, state_mutated => state_mutated',
         LeavesOpen(got') => LeavesOpen(got) \/ state_mutated'
  PROVE  Flagged'
BY DEF Flagged, OpenTransactionFlagged, LeavesOpen

LEMMA FlaggedAnswers ==
  ASSUME Flagged, UNCHANGED <<got, state_mutated>>, NEW S, NEW how, Fail(S, how)
  PROVE  Flagged'
<1>1. ASSUME NEW r \in Reqs, resp'[r] # None, LeavesOpen(resp'[r].msgs)
      PROVE  state_mutated
  <2>1. resp'[r] = IF r \in S THEN Ended(how) ELSE resp[r]
    BY DEF Fail
  <2>2. Ended(how).msgs = <<>>
    BY DEF Ended
  <2>3. r \notin S
    BY <1>1, <2>1, <2>2, NothingOpen
  <2> QED
    BY <1>1, <2>1, <2>3 DEF Flagged, OpenTransactionFlagged, LeavesOpen
<1> QED
  BY <1>1 DEF Flagged, OpenTransactionFlagged, LeavesOpen

LEMMA FlaggedStep == TypeOK /\ Flagged /\ [Next]_vars => Flagged'
<1> SUFFICES ASSUME TypeOK, Flagged, [Next]_vars PROVE Flagged'
  OBVIOUS
<1>1. CASE WriterWriteErr \/ WriterDrain \/ WriterLeave
  <2>1. UNCHANGED <<got, state_mutated>> /\ \E S, how : Fail(S, how)
    BY <1>1 DEF WriterWriteErr, WriterDrain, WriterLeave, readerVars
  <2> QED
    BY <2>1, FlaggedAnswers
<1>2. CASE ReaderAnswer
  <2>1. /\ got' = <<>> /\ state_mutated' = state_mutated /\ cur \in Reqs
        /\ resp' = [resp EXCEPT ![cur] = [res |-> res, msgs |-> got]]
    BY <1>2 DEF ReaderAnswer, TypeOK
  <2>2. ASSUME NEW r \in Reqs, resp'[r] # None, LeavesOpen(resp'[r].msgs)
        PROVE  state_mutated
    <3>1. CASE r = cur
      <4>1. resp'[r].msgs = got
        BY <2>1, <3>1 DEF TypeOK
      <4> QED
        BY <2>2, <4>1 DEF Flagged
    <3>2. CASE r # cur
      <4>1. resp'[r] = resp[r]
        BY <2>1, <3>2 DEF TypeOK
      <4> QED
        BY <2>2, <4>1 DEF Flagged, OpenTransactionFlagged, LeavesOpen
    <3> QED
      BY <3>1, <3>2
  <2> QED
    BY <2>1, <2>2, NothingOpen DEF Flagged, OpenTransactionFlagged, LeavesOpen
<1>3. CASE CollectBuffered \/ CollectError \/ StreamRow \/ StreamDone \/ StreamError \/ DrainMsg
  <2>1. /\ wire # <<>> /\ Consume /\ Message.kind # "ready_in_transaction"
        /\ resp' = resp /\ state_mutated' = state_mutated
    BY <1>3 DEF CollectBuffered, CollectError, StreamRow, StreamDone, StreamError, DrainMsg, Incoming, ReadOnly
  <2> QED
    BY <2>1, ConsumeOpen, FlaggedFrame
<1>4. CASE ReadReady
  <2>1. /\ wire # <<>> /\ Consume /\ resp' = resp
        /\ state_mutated' = (state_mutated \/ Message.kind # "ready_idle")
    BY <1>4, ReadReadyIs DEF ReadyHere, Incoming, Note, ReadOnly
  <2> QED
    BY <2>1, ConsumeOpen, FlaggedFrame
<1>5. CASE ReaderPop
  <2>1. got' = <<>> /\ resp' = resp /\ state_mutated' = state_mutated
    BY <1>5 DEF ReaderPop
  <2> QED
    BY <2>1, NothingOpen, FlaggedFrame
<1>6. CASE ReaderPark \/ ReaderWake \/ ReadEof \/ StreamSend \/ StreamSendErr
  <2>1. UNCHANGED <<got, resp, state_mutated>>
    BY <1>6 DEF ReaderPark, ReaderWake, ReadEof, ReadOnly, StreamSend, StreamSendErr
  <2> QED
    BY <2>1, FlaggedFrame
<1>7. ASSUME ~ReaderStep, ~(WriterWriteErr \/ WriterDrain \/ WriterLeave)
      PROVE  UNCHANGED <<got, resp, state_mutated>>
  BY <1>7 DEF Next, CallerStep, Send, SendErr, EnqueueRollback, RollbackRefused, GiveUp, DropHandle, StreamNext,
       WriterStep, WriterRecv, WriterTryRecv, WriterNoMore, WriterWrite, WriterFlush, WriterPush,
       WriterNotify, WriterRecvNone, WriterExit, ServerStep, Reply, HangUp, Sever, vars, readerVars
<1>8. CASE ~ReaderStep /\ ~(WriterWriteErr \/ WriterDrain \/ WriterLeave)
  BY <1>7, <1>8, FlaggedFrame
<1> QED
  BY <1>1, <1>2, <1>3, <1>4, <1>5, <1>6, <1>8 DEF ReaderStep

-----------------------------------------------------------------------------
(* NoStall.                                                                *)

\* A reader that sleeps has been notified of what is in the queue, or will be.
Notified == rpc = "wait" /\ pending # <<>> => permit \/ wpc = "notify"

LEMMA NotifiedStep == TypeOK /\ Notified /\ [Next]_vars => Notified'
<1> SUFFICES ASSUME TypeOK, Notified, [Next]_vars PROVE Notified'
  OBVIOUS
<1>1. CASE CallerStep \/ ServerStep \/ Sever \/ UNCHANGED vars
  <2>1. UNCHANGED <<rpc, pending, permit, wpc>>
    BY <1>1 DEF CallerStep, Send, SendErr, EnqueueRollback, RollbackRefused, GiveUp, DropHandle, StreamNext,
         ServerStep, Reply, HangUp, Sever, vars, writerVars, readerVars
  <2> QED
    BY <2>1 DEF Notified
<1>2. CASE WriterStep
  BY <1>2 DEF WriterStep, WriterRecv, WriterTryRecv, WriterNoMore, WriterWrite, WriterFlush, WriterWriteErr, WriterPush,
       WriterNotify, WriterRecvNone, WriterDrain, WriterLeave, WriterExit, Notified, readerVars
<1>3. CASE ReaderStep
  <2>1. rpc' = "wait" => ReaderPark
    BY <1>3, ReadReadyIs DEF ReaderStep, ReaderPop, ReaderWake, CollectBuffered, CollectError, StreamRow, StreamDone,
         StreamError, DrainMsg, ReadyHere, ReadEof, ReadFails, StreamSend, StreamSendErr, AfterSend, ReaderAnswer
  <2>2. ReaderPark => pending' = <<>>
    BY DEF ReaderPark
  <2> QED
    BY <2>1, <2>2 DEF Notified
<1> QED
  BY <1>1, <1>2, <1>3 DEF Next

-----------------------------------------------------------------------------
LEMMA LockstepInvariant == Spec => [](TypeOK /\ Placed /\ Lockstep)
<1>1. Init => TypeOK /\ Placed /\ Lockstep
  BY TypeInit, PlacedInit, LockstepInit
<1>2. TypeOK /\ Placed /\ Lockstep /\ [Next]_vars => (TypeOK /\ Placed /\ Lockstep)'
  BY TypeStep, PlacedStep, LockstepStep
<1> QED
  BY <1>1, <1>2, PTL DEF Spec

\* A caller gets the whole response to its own request, for any calls, batching,
\* interleaving and loss of the connection (async_conn.rs:1097-1126, 1149-1213).
THEOREM AnswersAreOwn == Spec => []OwnAnswer
<1>1. TypeOK /\ Placed /\ Lockstep => OwnAnswer
  BY DEF Lockstep
<1> QED
  BY <1>1, LockstepInvariant, PTL

\* The reader never sleeps beside a queue nobody will wake it for, and never reads
\* for a response that a live server does not owe (async_conn.rs:1116-1132).
THEOREM NeverStalls == Spec => []NoStall
<1>1. Init => Notified
  BY DEF Init, Notified
<1>2. TypeOK /\ Placed /\ Lockstep => (rpc \in {"collect", "drain"} /\ wire = <<>> /\ ~eof => inbox # <<>> /\ Head(inbox) = cur)
  BY NoStallHolds DEF Lockstep
<1>3. TypeOK /\ Placed /\ Lockstep /\ Notified => NoStall
  BY <1>2 DEF NoStall, Notified
<1> QED
  BY <1>1, <1>3, NotifiedStep, LockstepInvariant, PTL DEF Spec

\* The flag that makes the pool reset a connection is set when a transaction was
\* left open, on every path the reader has to the end of a response
\* (async_conn.rs:1239-1243).
THEOREM MutationNoticed == Spec => []OpenTransactionFlagged
<1>1. Init => Flagged
  BY NothingOpen DEF Init, Flagged, OpenTransactionFlagged, LeavesOpen
<1>2. Flagged => OpenTransactionFlagged
  BY DEF Flagged
<1> QED
  BY <1>1, <1>2, FlaggedStep, TypeInit, TypeStep, PTL DEF Spec

-----------------------------------------------------------------------------
(* Streams.                                                                *)

\* What the server answers: rows, the end of the command or an error, ReadyForQuery.
Formed ==
  \A r \in Reqs : served[r] # <<>> =>
    /\ Len(served[r]) >= 2
    /\ \A i \in 1..Len(served[r]) : served[r][i].kind = "row" <=> i <= Len(served[r]) - 2
    /\ served[r][Len(served[r]) - 1].kind \in {"done", "error"}

\* The consumer of a stream has been, or will be, told that it failed; or has all of it.
Failing(r)  == head[r] = "err" \/ ~(Members(rows[r]) \subseteq {"row"})
Streamed(r) ==
  /\ served[r] # <<>> /\ Len(rows[r]) = Len(served[r]) - 2
  /\ \A m \in Members(served[r]) : m.kind # "error"

\* Of the messages read, the first n are rows, and no error is among them.
Counted(n) == \A i \in 1..Len(got) : (got[i].kind = "row" <=> i <= n) /\ got[i].kind # "error"

Untouched(r) == head[r] = None /\ rows[r] = <<>>

\* The stream that the reader is at.
Streaming ==
  /\ rpc = "collect" =>
       /\ res = "ok" /\ (IF got = <<>> THEN Untouched(cur) ELSE head[cur] = "ok")
       /\ Len(rows[cur]) <= Len(got) /\ Counted(Len(rows[cur]))
  /\ rpc = "send" /\ item = "row" =>
       res = "ok" /\ head[cur] = "ok" /\ Len(got) = Len(rows[cur]) + 1 /\ Counted(Len(rows[cur]) + 1)
  /\ rpc = "drain" => Failing(cur)
  /\ rpc = "answer" => Failing(cur) \/ Streamed(cur)

Honest ==
  /\ cur \in Streams \ gone => Streaming
  /\ \A r \in Streams : resp[r] = None /\ r # cur => Untouched(r)
  /\ \A r \in Streams \ gone : resp[r] # None /\ head[r] = "ok" => Failing(r) \/ Streamed(r)

-----------------------------------------------------------------------------
LEMMA ResponseForm ==
  ASSUME NEW r \in Reqs, NEW s \in Response(r)
  PROVE  /\ Len(s) \in Nat /\ Len(s) >= 2
         /\ \A i \in 1..Len(s) : s[i].kind = "row" <=> i <= Len(s) - 2
         /\ s[Len(s) - 1].kind \in {"done", "error"}
<1>1. PICK a \in Replies[r] :
        s = [i \in 1..a[1] |-> Msg(r, "row", i)] \o <<Msg(r, a[2], 0), Msg(r, a[3], 0)>>
  BY DEF Response
<1> DEFINE p == [i \in 1..a[1] |-> Msg(r, "row", i)]
           q == <<Msg(r, a[2], 0), Msg(r, a[3], 0)>>
<1>2. a[1] \in Nat /\ a[2] \in {"done", "error"} /\ a[3] \in ReadyKinds
  BY SizeAssumption
<1>3. \A i \in 1..a[1] : Msg(r, "row", i) \in Msgs
  BY <1>2 DEF Msgs, Msg, Kinds
<1>4. Msg(r, a[2], 0) \in Msgs /\ Msg(r, a[3], 0) \in Msgs
  BY <1>2 DEF Msgs, Msg, Kinds
<1>5. p \in Seq(Msgs) /\ Len(p) = a[1] /\ \A i \in 1..a[1] : p[i] = Msg(r, "row", i)
  BY <1>2, <1>3
<1>6. q \in Seq(Msgs) /\ Len(q) = 2 /\ q[1] = Msg(r, a[2], 0) /\ q[2] = Msg(r, a[3], 0)
  BY <1>4
<1>7. /\ s \in Seq(Msgs) /\ Len(s) = a[1] + 2
      /\ \A i \in 1..(a[1] + 2) : s[i] = IF i <= a[1] THEN p[i] ELSE q[i - a[1]]
  BY <1>1, <1>2, <1>5, <1>6, ConcatProperties
<1> HIDE DEF p, q
<1>8. s[a[1] + 1] = Msg(r, a[2], 0) /\ s[a[1] + 2] = Msg(r, a[3], 0) /\ \A i \in 1..a[1] : s[i] = Msg(r, "row", i)
  <2>1. /\ a[1] + 1 \in 1..(a[1] + 2) /\ ~(a[1] + 1 <= a[1]) /\ (a[1] + 1) - a[1] = 1
        /\ a[1] + 2 \in 1..(a[1] + 2) /\ ~(a[1] + 2 <= a[1]) /\ (a[1] + 2) - a[1] = 2
        /\ \A i \in 1..a[1] : i \in 1..(a[1] + 2) /\ i <= a[1]
    BY <1>2
  <2>2. s[a[1] + 1] = q[1] /\ s[a[1] + 2] = q[2]
    BY <1>7, <2>1
  <2>3. \A i \in 1..a[1] : s[i] = p[i]
    BY <1>7, <2>1
  <2> QED
    BY <1>5, <1>6, <2>2, <2>3
<1>9. ASSUME NEW i \in 1..(a[1] + 2)
      PROVE  s[i].kind = "row" <=> i <= a[1]
  <2>1. CASE i <= a[1]
    <3>1. s[i] = Msg(r, "row", i)
      BY <1>2, <1>8, <2>1
    <3>2. s[i].kind = "row"
      BY <3>1 DEF Msg
    <3> QED
      BY <1>2, <2>1, <3>2
  <2>2. CASE i = a[1] + 1
    <3>1. s[i] = Msg(r, a[2], 0)
      BY <1>2, <1>8, <2>2
    <3>2. s[i].kind = a[2]
      BY <3>1 DEF Msg
    <3> QED
      BY <1>2, <2>2, <3>2
  <2>3. CASE i = a[1] + 2
    <3>1. s[i] = Msg(r, a[3], 0)
      BY <1>2, <1>8, <2>3
    <3>2. s[i].kind = a[3]
      BY <3>1 DEF Msg
    <3> QED
      BY <1>2, <2>3, <3>2 DEF ReadyKinds
  <2> QED
    BY <1>2, <2>1, <2>2, <2>3
<1>10. s[a[1] + 1].kind \in {"done", "error"}
  BY <1>2, <1>8 DEF Msg
<1>11. Len(s) \in Nat /\ Len(s) >= 2 /\ Len(s) - 2 = a[1] /\ Len(s) - 1 = a[1] + 1
  BY <1>2, <1>7
<1> QED
  BY <1>7, <1>9, <1>10, <1>11

LEMMA FormedStep ==
  ASSUME TypeOK, Formed, [Next]_vars
  PROVE  Formed'
<1>1. CASE served' = served
  BY <1>1 DEF Formed
<1>2. ASSUME Head(inbox) \in Reqs, NEW a \in Response(Head(inbox)), served' = [served EXCEPT ![Head(inbox)] = a]
      PROVE  Formed'
  <2>1. /\ Len(a) >= 2 /\ \A i \in 1..Len(a) : a[i].kind = "row" <=> i <= Len(a) - 2
        /\ a[Len(a) - 1].kind \in {"done", "error"}
    BY <1>2, ResponseForm
  <2>2. served'[Head(inbox)] = a /\ \A r \in Reqs : r # Head(inbox) => served'[r] = served[r]
    BY <1>2 DEF TypeOK
  <2>3. ASSUME NEW r \in Reqs, served'[r] # <<>>
        PROVE  /\ Len(served'[r]) >= 2
               /\ \A i \in 1..Len(served'[r]) : served'[r][i].kind = "row" <=> i <= Len(served'[r]) - 2
               /\ served'[r][Len(served'[r]) - 1].kind \in {"done", "error"}
    <3>1. CASE r = Head(inbox)
      BY <2>1, <2>2, <3>1
    <3>2. CASE r # Head(inbox)
      BY <2>2, <2>3, <3>2 DEF Formed
    <3> QED
      BY <3>1, <3>2
  <2> QED
    BY <2>3 DEF Formed
<1> QED
  BY <1>1, <1>2, ServedStep

\* The message at hand, and those that were read, are of the response to cur.
LEMMA NextMessage ==
  ASSUME TypeOK, Shaped, Aligned, Segments, Formed, rpc \in {"collect", "drain"}, wire # <<>>, Consume
  PROVE  /\ cur \in Reqs /\ served[cur] # <<>> /\ served[cur] \in Seq(Msgs)
         /\ Len(got) \in Nat /\ Len(served[cur]) \in Nat /\ Len(got) + 1 <= Len(served[cur])
         /\ Message.kind = "row" <=> Len(got) + 1 <= Len(served[cur]) - 2
         /\ \A i \in 1..Len(got) : got[i].kind = "row" <=> i <= Len(served[cur]) - 2
         /\ got' \in Seq(Msgs) /\ Len(got') = Len(got) + 1 /\ got' # <<>>
         /\ \A i \in 1..Len(got) : got'[i] = got[i]
         /\ got'[Len(got) + 1] = Message
<1>1. /\ cur \in Reqs /\ served[cur] \in Seq(Msgs) /\ got \in Seq(Msgs) /\ Len(got) \in Nat
      /\ Message = wire[1][1] /\ Len(wire[1]) \in Nat \ {0}
      /\ Len(got) + Len(wire[1]) <= Len(served[cur])
      /\ \A i \in 1..Len(got) : got[i] = served[cur][i]
      /\ \A i \in 1..Len(wire[1]) : wire[1][i] = served[cur][Len(got) + i]
  BY MessageAt
<1>2. Len(served[cur]) \in Nat
  BY <1>1, LenProperties
<1>3. 1 \in 1..Len(wire[1]) /\ Len(got) + 1 <= Len(served[cur]) /\ Len(got) + 1 \in 1..Len(served[cur])
      /\ \A i \in 1..Len(got) : i \in 1..Len(served[cur])
  BY <1>1, <1>2
<1>4. Message = served[cur][Len(got) + 1]
  BY <1>1, <1>3
<1>5. served[cur] # <<>>
  BY <1>1, <1>2, <1>3, EmptySeq
<1>6. \A i \in 1..Len(served[cur]) : served[cur][i].kind = "row" <=> i <= Len(served[cur]) - 2
  BY <1>1, <1>5 DEF Formed
<1>7. Message.kind = "row" <=> Len(got) + 1 <= Len(served[cur]) - 2
  BY <1>3, <1>4, <1>6
<1>8. \A i \in 1..Len(got) : got[i].kind = "row" <=> i <= Len(served[cur]) - 2
  BY <1>1, <1>3, <1>6
<1>9. got' = Append(got, Message) /\ Message \in Msgs
  BY ConsumeType DEF Consume
<1>10. /\ got' \in Seq(Msgs) /\ Len(got') = Len(got) + 1
       /\ \A i \in 1..Len(got) : got'[i] = got[i]
       /\ got'[Len(got) + 1] = Message
  BY <1>1, <1>9, AppendProperties
<1>11. got' # <<>>
  BY <1>1, <1>10, EmptySeq
<1> QED
  BY <1>1, <1>2, <1>3, <1>5, <1>7, <1>8, <1>10, <1>11
LEMMA StreamIs == Streams \subseteq Reqs /\ None \notin Streams /\ None \notin Reqs /\ None # "ok"
BY CallAssumption DEF Streams

\* Nobody but the reader touches a stream that he has not given up, and no answer is
\* taken back.
LEMMA HonestFrame ==
  ASSUME TypeOK, Honest, UNCHANGED <<rpc, res, item, got, cur, head, rows, resp>>, gone \subseteq gone',
         \A r \in Reqs : served[r] # <<>> => served'[r] = served[r]
  PROVE  Honest'
<1>1. ASSUME NEW r \in Streams, Streamed(r) PROVE Streamed(r)'
  BY <1>1, StreamIs DEF Streamed
<1>2. \A r : Failing(r) <=> Failing(r)'
  BY DEF Failing
<1>3. \A r : Untouched(r) <=> Untouched(r)'
  BY DEF Untouched
<1>4. \A n : Counted(n) <=> Counted(n)'
  BY DEF Counted
<1>5. ASSUME cur' \in Streams \ gone' PROVE Streaming'
  <2>1. cur \in Streams \ gone /\ Streaming
    BY <1>5 DEF Honest
  <2> QED
    BY <1>1, <1>2, <1>3, <1>4, <2>1 DEF Streaming
<1> QED
  <2>1. ASSUME NEW r \in Streams, resp'[r] = None, r # cur' PROVE Untouched(r)'
    BY <1>3, <2>1 DEF Honest
  <2>2. ASSUME NEW r \in Streams \ gone', resp'[r] # None, head'[r] = "ok" PROVE (Failing(r) \/ Streamed(r))'
    BY <1>1, <1>2, <2>2 DEF Honest
  <2> QED
    BY <1>5, <2>1, <2>2 DEF Honest

\* A stream that the writer answers has had no header.
LEMMA HonestFails ==
  ASSUME TypeOK, Honest, UNCHANGED <<rpc, res, item, got, cur, head, rows, gone, served>>,
         NEW S, NEW how \in Endings, Fail(S, how), cur \notin S
  PROVE  Honest'
<1>1. \A r : (Failing(r) <=> Failing(r)') /\ (Untouched(r) <=> Untouched(r)') /\ (Streamed(r) <=> Streamed(r)')
  BY DEF Failing, Untouched, Streamed
<1>3. Streaming' <=> Streaming
  <2>1. (Failing(cur) <=> Failing(cur)') /\ (Untouched(cur) <=> Untouched(cur)') /\ (Streamed(cur) <=> Streamed(cur)')
    BY DEF Failing, Untouched, Streamed
  <2>2. Counted(Len(rows[cur])) <=> Counted(Len(rows[cur]))'
    BY DEF Counted
  <2>3. Counted(Len(rows[cur]) + 1) <=> Counted(Len(rows[cur]) + 1)'
    BY DEF Counted
  <2> QED
    BY <2>1, <2>2, <2>3 DEF Streaming
<1>4. Ended(how) # None
  <2>1. Ended(how) \in Outcomes
    BY EmptySeq DEF Ended, Outcomes
  <2> QED
    BY <2>1, CallAssumption
<1>5. \A r \in Reqs : resp'[r] = IF r \in S THEN Ended(how) ELSE resp[r]
  BY DEF Fail
<1>6. ASSUME NEW r \in Streams, resp'[r] = None, r # cur PROVE Untouched(r)'
  BY <1>1, <1>4, <1>5, <1>6, StreamIs DEF Honest
<1>7. ASSUME NEW r \in Streams \ gone, resp'[r] # None, head[r] = "ok" PROVE (Failing(r) \/ Streamed(r))'
  <2>1. CASE resp[r] # None
    BY <1>1, <1>7, <2>1 DEF Honest
  <2>2. CASE resp[r] = None
    <3>1. r \in S /\ r # cur
      BY <1>5, <1>7, <2>2, StreamIs
    <3>2. head[r] = None
      BY <2>2, <3>1 DEF Honest, Untouched
    <3> QED
      BY <1>7, <3>2, StreamIs
  <2> QED
    BY <2>1, <2>2
<1> QED
  BY <1>3, <1>6, <1>7 DEF Honest

\* What a step of the reader at cur has to keep.
LEMMA HonestHere ==
  ASSUME TypeOK, Honest, UNCHANGED <<cur, resp, served, gone>>, cur # None => resp[cur] = None,
         \A r \in Streams : r # cur => head'[r] = head[r] /\ rows'[r] = rows[r],
         cur \in Streams \ gone => Streaming'
  PROVE  Honest'
<1>1. ASSUME NEW r \in Streams, r # cur
      PROVE (Failing(r) <=> Failing(r)') /\ (Untouched(r) <=> Untouched(r)') /\ (Streamed(r) <=> Streamed(r)')
  BY <1>1 DEF Failing, Untouched, Streamed
<1>2. ASSUME NEW r \in Streams, resp'[r] = None, r # cur' PROVE Untouched(r)'
  BY <1>1, <1>2 DEF Honest
<1>3. ASSUME NEW r \in Streams \ gone', resp'[r] # None, head'[r] = "ok" PROVE (Failing(r) \/ Streamed(r))'
  <2>1. r # cur
    BY <1>3, StreamIs
  <2> QED
    BY <1>1, <1>3, <2>1 DEF Honest
<1> QED
  BY <1>2, <1>3 DEF Honest

LEMMA CurIsHere ==
  ASSUME TypeOK, Placed, cur # None
  PROVE  cur \in Reqs /\ resp[cur] = None
BY DEF TypeOK, Placed, Homes, InHand

\* The row channel of a stream that is sent something else than a row.
LEMMA FailingSent ==
  ASSUME TypeOK, NEW r \in Streams, item \in RowItems \ {"row"}, rows' = [rows EXCEPT ![r] = Append(@, item)]
  PROVE  Failing(r)'
<1>1. rows[r] \in Seq(RowItems) /\ rows'[r] = Append(rows[r], item)
  BY DEF TypeOK
<1>2. Members(rows'[r]) = Members(rows[r]) \cup {item}
  BY <1>1, AppendMembers
<1> QED
  BY <1>2 DEF Failing

LEMMA HeaderSent ==
  ASSUME TypeOK, cur \in Streams, NEW how \in {"ok", "err"}, Header(how)
  PROVE  /\ head'[cur] = IF head[cur] = None THEN how ELSE head[cur]
         /\ \A r \in Streams : r # cur => head'[r] = head[r]
BY DEF Header, TypeOK

\* A row is read only while rows were read before, and their count is that of the channel.
LEMMA RowCounted ==
  ASSUME NEW g \in Nat, NEW k \in Nat, NEW m \in Nat, NEW P, g + 1 <= m, k <= g,
         \A i \in 1..g : i \in P <=> i <= k, \A i \in 1..g : i \in P <=> i <= m
  PROVE  k = g
<1>1. CASE g = 0
  BY <1>1
<1>2. CASE g # 0
  <2>1. g \in 1..g /\ g <= m
    BY <1>2
  <2>2. g <= k
    BY <2>1
  <2> QED
    BY <2>2
<1> QED
  BY <1>1, <1>2

LEMMA AllCounted ==
  ASSUME NEW g \in Nat, NEW k \in Nat, NEW l \in Nat, NEW P, g + 1 = l, l >= 2, k <= g,
         \A i \in 1..g : i \in P <=> i <= k, \A i \in 1..g : i \in P <=> i <= l - 2
  PROVE  k = l - 2
<1>1. g \in 1..g /\ ~(g <= l - 2)
  OBVIOUS
<1>2. ~(g <= k)
  BY <1>1
<1>3. k <= l - 2
  BY <1>2
<1>4. ASSUME k + 1 <= l - 2 PROVE FALSE
  <2>1. k + 1 \in 1..g /\ ~(k + 1 <= k)
    BY <1>4
  <2> QED
    BY <1>4, <2>1
<1> QED
  BY <1>3, <1>4
LEMMA HonestRow ==
  ASSUME TypeOK, Placed, Shaped, Aligned, Segments, Formed, Honest, StreamRow, cur \notin gone
  PROVE  Streaming'
<1>1. /\ cur \in Streams /\ cur # None /\ wire # <<>> /\ Consume /\ Message.kind = "row" /\ rpc = "collect"
      /\ Header("ok") /\ rpc' = "send" /\ item' = "row" /\ res' = res /\ rows' = rows /\ cur' = cur
  BY StreamIs DEF StreamRow, Incoming, ReadOnly
<1>2. /\ res = "ok" /\ (IF got = <<>> THEN Untouched(cur) ELSE head[cur] = "ok")
      /\ Len(rows[cur]) <= Len(got) /\ Counted(Len(rows[cur]))
  BY <1>1 DEF Honest, Streaming
<1>3. /\ Len(got) \in Nat /\ Len(served[cur]) \in Nat /\ Len(got) + 1 <= Len(served[cur]) - 2
      /\ \A i \in 1..Len(got) : got[i].kind = "row" <=> i <= Len(served[cur]) - 2
      /\ Len(got') = Len(got) + 1 /\ \A i \in 1..Len(got) : got'[i] = got[i]
      /\ got'[Len(got) + 1] = Message
  BY <1>1, NextMessage
<1>4. Len(rows[cur]) \in Nat
  BY <1>1, LenProperties DEF TypeOK
<1>5. Len(rows[cur]) = Len(got)
  <2> DEFINE P == {i \in 1..Len(got) : got[i].kind = "row"}
  <2>1. \A i \in 1..Len(got) : i \in P <=> i <= Len(rows[cur])
    BY <1>2 DEF Counted
  <2>2. \A i \in 1..Len(got) : i \in P <=> i <= Len(served[cur]) - 2
    BY <1>3
  <2>3. Len(served[cur]) - 2 \in Nat
    BY <1>3
  <2> HIDE DEF P
  <2> QED
    BY <1>2, <1>3, <1>4, <2>1, <2>2, <2>3, RowCounted
<1>6. Counted(Len(rows[cur]) + 1)'
  <2>1. ASSUME NEW i \in 1..Len(got')
        PROVE  (got'[i].kind = "row" <=> i <= Len(rows[cur]) + 1) /\ got'[i].kind # "error"
    <3>1. CASE i \in 1..Len(got)
      <4>1. got'[i] = got[i] /\ i <= Len(rows[cur]) + 1 /\ i <= Len(rows[cur])
        BY <1>3, <1>4, <1>5, <3>1
      <4>2. (got[i].kind = "row" <=> i <= Len(rows[cur])) /\ got[i].kind # "error"
        BY <1>2, <3>1 DEF Counted
      <4> QED
        BY <4>1, <4>2
    <3>2. CASE i = Len(got) + 1
      <4>1. i <= Len(rows[cur]) + 1
        BY <1>4, <1>5, <3>2
      <4> QED
        BY <1>1, <1>3, <3>2, <4>1
    <3> QED
      BY <1>3, <3>1, <3>2
  <2> QED
    BY <1>1, <2>1 DEF Counted
<1>7. head'[cur'] = "ok"
  BY <1>1, <1>2, HeaderSent DEF Untouched
<1>8. Len(got') = Len(rows'[cur']) + 1
  BY <1>1, <1>3, <1>5
<1> QED
  BY <1>1, <1>2, <1>6, <1>7, <1>8 DEF Streaming

LEMMA HonestDone ==
  ASSUME TypeOK, Placed, Shaped, Aligned, Segments, Formed, Honest, StreamDone, cur \notin gone
  PROVE  Streaming'
<1>1. /\ cur \in Streams /\ cur # None /\ wire # <<>> /\ Consume /\ Message.kind = "done" /\ rpc = "collect"
      /\ Header("ok") /\ rpc' = "collect" /\ res' = res /\ rows' = rows /\ cur' = cur
  BY StreamIs DEF StreamDone, Incoming, ReadOnly
<1>2. /\ res = "ok" /\ (IF got = <<>> THEN Untouched(cur) ELSE head[cur] = "ok")
      /\ Len(rows[cur]) <= Len(got) /\ Counted(Len(rows[cur]))
  BY <1>1 DEF Honest, Streaming
<1>3. /\ Len(got) \in Nat /\ got' # <<>>
      /\ Len(got') = Len(got) + 1 /\ \A i \in 1..Len(got) : got'[i] = got[i]
      /\ got'[Len(got) + 1] = Message
  BY <1>1, NextMessage
<1>4. Len(rows[cur]) \in Nat
  BY <1>1, LenProperties DEF TypeOK
<1>5. Counted(Len(rows[cur]))'
  <2>1. ASSUME NEW i \in 1..Len(got')
        PROVE  (got'[i].kind = "row" <=> i <= Len(rows[cur])) /\ got'[i].kind # "error"
    <3>1. CASE i \in 1..Len(got)
      <4>1. got'[i] = got[i]
        BY <1>3, <3>1
      <4>2. (got[i].kind = "row" <=> i <= Len(rows[cur])) /\ got[i].kind # "error"
        BY <1>2, <3>1 DEF Counted
      <4> QED
        BY <4>1, <4>2
    <3>2. CASE i = Len(got) + 1
      <4>1. ~(i <= Len(rows[cur]))
        BY <1>2, <1>3, <1>4, <3>2
      <4> QED
        BY <1>1, <1>3, <3>2, <4>1
    <3> QED
      BY <1>3, <3>1, <3>2
  <2> QED
    BY <1>1, <2>1 DEF Counted
<1>6. head'[cur'] = "ok"
  BY <1>1, <1>2, HeaderSent DEF Untouched
<1>7. Len(rows'[cur']) <= Len(got')
  BY <1>1, <1>2, <1>3, <1>4
<1> QED
  BY <1>1, <1>2, <1>3, <1>5, <1>6, <1>7 DEF Streaming

\* The end of the response comes after all its rows.
LEMMA HonestReady ==
  ASSUME TypeOK, Placed, Shaped, Aligned, Segments, Formed, Honest, ReadReady, cur \in Streams \ gone
  PROVE  Streaming'
<1>1. /\ cur # None /\ wire # <<>> /\ Consume /\ Message.kind \in ReadyKinds /\ rpc \in {"collect", "drain"}
      /\ rpc' = "answer" /\ rows' = rows /\ cur' = cur /\ served' = served
  BY StreamIs, ReadReadyIs DEF ReadyHere, Incoming, ReadOnly
<1>2. CASE rpc = "drain"
  <2>1. Failing(cur) /\ head' = head
    BY <1>1, <1>2, ReadReadyIs DEF Honest, Streaming, ReadyHere
  <2>2. Failing(cur)'
    BY <1>1, <2>1 DEF Failing
  <2> QED
    BY <1>1, <2>2 DEF Streaming
<1>3. CASE rpc = "collect"
  <2>1. Len(rows[cur]) <= Len(got) /\ Counted(Len(rows[cur]))
    BY <1>3 DEF Honest, Streaming
  <2>2. /\ cur \in Reqs /\ served[cur] # <<>> /\ Len(got) \in Nat /\ Len(served[cur]) \in Nat
        /\ \A i \in 1..Len(got) : got[i].kind = "row" <=> i <= Len(served[cur]) - 2
        /\ Len(got') = Len(got) + 1 /\ \A i \in 1..Len(got) : got'[i] = got[i]
        /\ got'[Len(got) + 1] = Message
    BY <1>1, NextMessage
  <2>3. got' = served[cur]
    BY <1>1, ConsumeReady
  <2>4. Len(rows[cur]) \in Nat /\ Len(served[cur]) >= 2 /\ Len(got) + 1 = Len(served[cur])
    BY <2>2, <2>3, LenProperties DEF TypeOK, Formed
  <2>5. Len(rows[cur]) = Len(served[cur]) - 2
    <3> DEFINE P == {i \in 1..Len(got) : got[i].kind = "row"}
    <3>1. \A i \in 1..Len(got) : i \in P <=> i <= Len(rows[cur])
      BY <2>1 DEF Counted
    <3>2. \A i \in 1..Len(got) : i \in P <=> i <= Len(served[cur]) - 2
      BY <2>2
    <3> HIDE DEF P
    <3> QED
      BY <2>1, <2>2, <2>4, <3>1, <3>2, AllCounted
  <2>6. \A m \in Members(served[cur]) : m.kind # "error"
    <3>1. DOMAIN served[cur] = 1..(Len(got) + 1)
      BY <2>2, <2>4, LenProperties DEF TypeOK
    <3>2. ASSUME NEW i \in 1..(Len(got) + 1) PROVE served[cur][i].kind # "error"
      <4>1. CASE i \in 1..Len(got)
        BY <2>1, <2>2, <2>3, <4>1 DEF Counted
      <4>2. CASE i = Len(got) + 1
        BY <1>1, <2>2, <2>3, <4>2 DEF ReadyKinds
      <4> QED
        BY <2>2, <4>1, <4>2
    <3> QED
      BY <3>1, <3>2, MembersDef
  <2>7. Streamed(cur)
    BY <2>2, <2>5, <2>6 DEF Streamed
  <2>8. Streamed(cur)'
    BY <1>1, <2>7 DEF Streamed
  <2> QED
    BY <1>1, <2>8 DEF Streaming
<1> QED
  BY <1>1, <1>2, <1>3
\* An error, or the end of the socket, reaches the consumer, by the header or by the rows.
LEMMA HonestError ==
  ASSUME TypeOK, Honest, StreamError \/ DrainMsg \/ ReadEof, cur \in Streams \ gone
  PROVE  Streaming'
<1>1. /\ cur' = cur /\ rows' = rows /\ rpc \in {"collect", "drain"}
      /\ rpc = "drain" => Failing(cur)
      /\ rpc = "collect" => head[cur] \in {None, "ok"}
  <2>1. rpc = "collect" => head[cur] \in {None, "ok"}
    BY DEF Honest, Streaming, Untouched
  <2> QED
    BY <2>1 DEF StreamError, DrainMsg, ReadEof, ReadOnly, Honest, Streaming
<1>2. CASE rpc = "drain"
  <2>1. Failing(cur)' /\ rpc' \in {"drain", "answer"}
    BY <1>1, <1>2 DEF StreamError, DrainMsg, ReadEof, ReadFails, Failing
  <2> QED
    BY <2>1 DEF Streaming
<1>3. CASE rpc = "collect"
  <2>1. Header("err") /\ (head[cur] = None => rpc' \in {"drain", "answer"})
        /\ (head[cur] # None => rpc' = "send" /\ item' # "row")
    BY <1>1, <1>3 DEF StreamError, DrainMsg, ReadEof, ReadFails
  <2>2. CASE head[cur] = None
    <3>1. head'[cur] = "err"
      BY <2>1, <2>2, HeaderSent
    <3>2. Failing(cur)'
      BY <1>1, <3>1 DEF Failing
    <3> QED
      BY <2>1, <2>2, <3>2 DEF Streaming
  <2>3. CASE head[cur] # None
    BY <2>1, <2>3 DEF Streaming
  <2> QED
    BY <2>2, <2>3
<1> QED
  BY <1>1, <1>2, <1>3

\* A row reaches the channel once it was read, and what is no row says that the stream failed.
LEMMA HonestSend ==
  ASSUME TypeOK, Honest, StreamSend, cur \in Streams \ gone
  PROVE  Streaming'
<1>1. /\ cur' = cur /\ got' = got /\ res' = res /\ head' = head /\ rpc = "send" /\ rpc' = AfterSend
      /\ rows' = [rows EXCEPT ![cur] = Append(@, item)] /\ item \in RowItems
  BY DEF StreamSend, TypeOK
<1>2. CASE item = "row"
  <2>1. /\ res = "ok" /\ head[cur] = "ok" /\ Len(got) = Len(rows[cur]) + 1 /\ Counted(Len(rows[cur]) + 1)
    BY <1>1, <1>2 DEF Honest, Streaming
  <2>2. rows[cur] \in Seq(RowItems) /\ rows'[cur] = Append(rows[cur], item) /\ Len(rows[cur]) \in Nat
    BY <1>1, LenProperties DEF TypeOK
  <2>3. Len(rows'[cur']) = Len(rows[cur]) + 1
    BY <1>1, <2>2, AppendProperties
  <2>4. got' # <<>> /\ Len(rows'[cur']) <= Len(got')
    BY <1>1, <2>1, <2>2, <2>3
  <2>5. Counted(Len(rows[cur]))'
    <3>1. \A i \in 1..Len(got) : (got[i].kind = "row" <=> i <= Len(rows[cur]) + 1) /\ got[i].kind # "error"
      BY <2>1 DEF Counted
    <3> QED
      BY <1>1, <2>3, <3>1 DEF Counted
  <2>6. rpc' = "collect"
    BY <1>1, <1>2 DEF AfterSend
  <2> QED
    BY <1>1, <2>1, <2>4, <2>5, <2>6 DEF Streaming
<1>3. CASE item # "row"
  <2>1. \A r \in Streams : r = cur => Failing(r)'
    BY <1>1, <1>3, FailingSent
  <2>2. Failing(cur)'
    BY <1>1, <2>1 DEF Failing
  <2>3. rpc' \in {"drain", "answer"}
    BY <1>1, <1>3 DEF AfterSend
  <2> QED
    BY <2>2, <2>3 DEF Streaming
<1> QED
  BY <1>2, <1>3

LEMMA HonestReads ==
  ASSUME TypeOK, Placed, Shaped, Aligned, Segments, Formed, Honest,
         StreamRow \/ StreamDone \/ StreamError \/ DrainMsg \/ ReadReady \/ ReadEof \/ CollectBuffered \/ CollectError
  PROVE  Honest'
<1>1. /\ UNCHANGED <<cur, resp, served, gone, rows>> /\ rpc \in {"collect", "drain"}
      /\ head' = head \/ (cur \in Streams /\ \E how \in {"ok", "err"} : Header(how))
  BY ReadReadyIs DEF StreamRow, StreamDone, StreamError, DrainMsg, ReadyHere, ReadEof, ReadFails, CollectBuffered, CollectError, ReadOnly
<1>2. cur # None => resp[cur] = None
  BY CurIsHere
<1>3. \A r \in Streams : r # cur => head'[r] = head[r] /\ rows'[r] = rows[r]
  BY <1>1, HeaderSent
<1>4. ASSUME cur \in Streams \ gone PROVE Streaming'
  <2>1. ~CollectBuffered /\ ~CollectError
    BY <1>4 DEF CollectBuffered, CollectError, Streams, Buffered
  <2> QED
    BY <1>4, <2>1, HonestRow, HonestDone, HonestReady, HonestError
<1> QED
  BY <1>1, <1>2, <1>3, <1>4, HonestHere

LEMMA HonestMoves ==
  ASSUME TypeOK, Placed, Honest, ReaderPop \/ ReaderPark \/ ReaderWake \/ StreamSend \/ StreamSendErr \/ ReaderAnswer
  PROVE  Honest'
<1>1. CASE ReaderPark \/ ReaderWake
  <2>1. cur = None /\ cur' = None /\ UNCHANGED <<resp, head, rows, gone, served>>
    BY <1>1 DEF ReaderPark, ReaderWake, TypeOK, streamVars, socketVars
  <2> QED
    BY <2>1, StreamIs, HonestHere
<1>2. CASE StreamSend \/ StreamSendErr
  <2>1. /\ UNCHANGED <<cur, resp, served, gone, head>>
        /\ (StreamSendErr => rows' = rows /\ cur \in gone)
        /\ (StreamSend => rows' = [rows EXCEPT ![cur] = Append(@, item)])
    BY <1>2 DEF StreamSend, StreamSendErr, streamVars, socketVars
  <2>2. \A r \in Streams : r # cur => head'[r] = head[r] /\ rows'[r] = rows[r]
    BY <1>2, <2>1 DEF TypeOK
  <2> QED
    BY <1>2, <2>1, <2>2, CurIsHere, HonestHere, HonestSend
<1>3. CASE ReaderPop
  <2>1. /\ cur = None /\ rpc = "check" /\ pending # <<>> /\ cur' = Head(pending) /\ got' = <<>> /\ res' = "ok"
        /\ rpc' = (IF Collector[cur'] = "Drain" THEN "drain" ELSE "collect")
        /\ UNCHANGED <<resp, head, rows, gone, served>>
    BY <1>3 DEF ReaderPop, TypeOK, streamVars, socketVars
  <2>2. pending \in Seq(Reqs) /\ cur' \in Members(pending) /\ cur' \in Reqs
    BY <2>1, HeadMembers DEF TypeOK
  <2>3. resp[cur'] = None
    BY <2>2 DEF Placed, Homes
  <2>4. \A r : (Failing(r) <=> Failing(r)') /\ (Untouched(r) <=> Untouched(r)') /\ (Streamed(r) <=> Streamed(r)')
    BY <2>1 DEF Failing, Untouched, Streamed
  <2>5. ASSUME cur' \in Streams \ gone' PROVE Streaming'
    <3>1. rpc' = "collect"
      BY <2>1, <2>5 DEF Streams
    <3>2. head[cur'] = None /\ rows[cur'] = <<>>
      BY <2>1, <2>3, <2>5, StreamIs DEF Honest, Untouched
    <3>3. Len(<<>>) = 0 /\ \A i : i \notin 1..0
      OBVIOUS
    <3>4. Untouched(cur)'
      BY <2>1, <3>2 DEF Untouched
    <3>5. Counted(Len(rows[cur]))' /\ Len(rows'[cur']) <= Len(got')
      BY <2>1, <3>2, <3>3 DEF Counted
    <3> QED
      BY <2>1, <3>1, <3>4, <3>5 DEF Streaming
  <2>6. ASSUME NEW r \in Streams, resp'[r] = None, r # cur' PROVE Untouched(r)'
    BY <2>1, <2>4, <2>6, StreamIs DEF Honest
  <2>7. ASSUME NEW r \in Streams \ gone', resp'[r] # None, head'[r] = "ok" PROVE (Failing(r) \/ Streamed(r))'
    BY <2>1, <2>4, <2>7 DEF Honest
  <2> QED
    BY <2>5, <2>6, <2>7 DEF Honest
<1>4. CASE ReaderAnswer
  <2>1. /\ rpc = "answer" /\ cur' = None /\ UNCHANGED <<head, rows, gone, served>>
        /\ resp' = [resp EXCEPT ![cur] = [res |-> res, msgs |-> got]]
    BY <1>4 DEF ReaderAnswer, streamVars, socketVars
  <2>2. cur \in Reqs /\ cur # None /\ [res |-> res, msgs |-> got] \in Outcomes
    BY <2>1 DEF TypeOK, Outcomes
  <2>3. resp'[cur] # None /\ \A r \in Reqs : r # cur => resp'[r] = resp[r]
    BY <2>1, <2>2, CallAssumption DEF TypeOK
  <2>4. \A r : (Failing(r) <=> Failing(r)') /\ (Untouched(r) <=> Untouched(r)') /\ (Streamed(r) <=> Streamed(r)')
    BY <2>1 DEF Failing, Untouched, Streamed
  <2>5. ASSUME NEW r \in Streams, resp'[r] = None, r # cur' PROVE Untouched(r)'
    BY <2>3, <2>4, <2>5, StreamIs DEF Honest
  <2>6. ASSUME NEW r \in Streams \ gone', resp'[r] # None, head'[r] = "ok" PROVE (Failing(r) \/ Streamed(r))'
    <3>1. CASE r = cur
      <4>1. Failing(cur) \/ Streamed(cur)
        BY <2>1, <2>6, <3>1 DEF Honest, Streaming
      <4> QED
        BY <2>4, <3>1, <4>1
    <3>2. CASE r # cur
      BY <2>1, <2>3, <2>4, <2>6, <3>2, StreamIs DEF Honest
    <3> QED
      BY <3>1, <3>2
  <2>7. cur' \notin Streams
    BY <2>1, StreamIs
  <2> QED
    BY <2>5, <2>6, <2>7 DEF Honest
<1> QED
  BY <1>1, <1>2, <1>3, <1>4

LEMMA HonestStep == TypeOK /\ Placed /\ Lockstep /\ Formed /\ Honest /\ [Next]_vars => Honest'
<1> SUFFICES ASSUME TypeOK, Placed, Lockstep, Formed, Honest, [Next]_vars PROVE Honest'
  OBVIOUS
<1>1. CASE ReaderStep
  BY <1>1, HonestReads, HonestMoves DEF ReaderStep, Lockstep
<1>2. CASE WriterWriteErr \/ WriterDrain \/ WriterLeave
  <2>1. /\ UNCHANGED <<rpc, res, item, got, cur, head, rows, gone, served>>
        /\ \E how \in {"io", "closed"} : Fail(Members(batch), how) \/ Fail(Members(pending), how) \/ Fail(Members(chan), how)
    BY <1>2 DEF WriterWriteErr, WriterDrain, WriterLeave, readerVars, streamVars, socketVars
  <2>2. cur \notin Members(batch) /\ cur \notin Members(pending) /\ cur \notin Members(chan)
    BY DEF Placed, Homes
  <2>3. PICK how \in {"io", "closed"} :
          Fail(Members(batch), how) \/ Fail(Members(pending), how) \/ Fail(Members(chan), how)
    BY <2>1
  <2>4. how \in Endings
    BY DEF Endings
  <2> QED
    BY <2>1, <2>2, <2>3, <2>4, HonestFails
<1>3. CASE ~ReaderStep /\ ~(WriterWriteErr \/ WriterDrain \/ WriterLeave)
  <2>1. UNCHANGED <<rpc, res, item, got, cur, head, rows, resp>> /\ gone \subseteq gone'
    BY <1>3 DEF Next, CallerStep, Send, SendErr, EnqueueRollback, RollbackRefused, GiveUp, DropHandle, StreamNext,
         WriterStep, WriterRecv, WriterTryRecv, WriterNoMore, WriterWrite, WriterFlush, WriterPush,
         WriterNotify, WriterRecvNone, WriterExit, ServerStep, Reply, HangUp, Sever, vars, readerVars, streamVars
  <2>2. \A r \in Reqs : served[r] # <<>> => served'[r] = served[r]
    BY ServedKept DEF Lockstep
  <2> QED
    BY <2>1, <2>2, HonestFrame
<1> QED
  BY <1>1, <1>2, <1>3

\* A consumer who stays, and is told of no error, has got every row of a response that
\* had none, whoever else was on the connection and whatever became of it
\* (async_conn.rs:1311-1390: every way out of stream_rows but the last sends an error).
THEOREM StreamsAreHonest == Spec => []StreamHonest
<1>1. Init => Formed /\ Honest
  <2> SUFFICES ASSUME Init PROVE Formed /\ Honest
    OBVIOUS
  <2>1. Formed
    BY DEF Init, Formed
  <2>2. Honest
    BY StreamIs DEF Init, Honest, Untouched
  <2> QED
    BY <2>1, <2>2
<1>2. TypeOK /\ Formed /\ [Next]_vars => Formed'
  BY FormedStep
<1>3. Honest => StreamHonest
  BY StreamIs DEF Honest, StreamHonest, Failing, Streamed
<1> QED
  BY <1>1, <1>2, <1>3, HonestStep, LockstepInvariant, PTL DEF Spec

-----------------------------------------------------------------------------
(* The order of answers.                                                   *)

\* x stands before y in a.
Before(a, x, y) == \E i, j \in DOMAIN a : i < j /\ a[i] = x /\ a[j] = y
Rising(a, s)    == \A i, j \in DOMAIN s : i < j => Before(a, s[i], s[j])
Below(a, S, T)  == \A x \in S, y \in T : Before(a, x, y)

\* The places are in the order in which the channel took the requests, and so is what
\* they hold.
Lined ==
  /\ Rising(accepted, chan) /\ Rising(accepted, batch) /\ Rising(accepted, pending)
  /\ Below(accepted, InHand, Members(pending) \cup Members(batch) \cup Members(chan))
  /\ Below(accepted, Members(pending), Members(batch) \cup Members(chan))
  /\ Below(accepted, Members(batch), Members(chan))

\* Nothing will be read any more.
Dry == eof /\ wire = <<>>
Lost(r) == resp[r] # None /\ ~Answered(r)
Succeeding(r) == cur = r /\ rpc = "answer" /\ res \in {"ok", "err"}

\* A request that was accepted after a lost one will not be answered.
Doomed(r) == (~Working /\ r \in Members(chan)) \/ (Dry /\ ~Succeeding(r))

Losses ==
  /\ \A x, y \in Reqs : Lost(x) /\ Before(accepted, x, y) /\ resp[y] = None => Doomed(y)
  /\ \A x \in Reqs : Lost(x) => ~Working \/ Dry
  /\ rpc = "send" /\ item \in {"closed", "protocol"} => Dry
  /\ rpc = "answer" /\ res \notin {"ok", "err"} => Dry
  /\ Reading => res \in {"ok", "err"}

LEMMA AppendIndex ==
  ASSUME NEW a \in Seq(Reqs), NEW r \in Reqs
  PROVE  /\ DOMAIN a = 1..Len(a) /\ Len(a) \in Nat /\ DOMAIN Append(a, r) = 1..(Len(a) + 1)
         /\ \A i \in 1..Len(a) : Append(a, r)[i] = a[i]
         /\ Append(a, r)[Len(a) + 1] = r
BY AppendProperties, LenProperties

\* A later request changes nothing of the order, and comes last.
LEMMA BeforeAppend ==
  ASSUME NEW a \in Seq(Reqs), NEW r \in Reqs
  PROVE  /\ \A x, y : Before(a, x, y) => Before(Append(a, r), x, y)
         /\ \A x \in Members(a) : Before(Append(a, r), x, r)
         /\ \A x, y : Before(Append(a, r), x, y) => Before(a, x, y) \/ (x \in Members(a) /\ y = r)
<1> DEFINE b == Append(a, r)
           n == Len(a)
<1>1. /\ DOMAIN a = 1..n /\ n \in Nat /\ DOMAIN b = 1..(n + 1)
      /\ \A i \in 1..n : b[i] = a[i]
      /\ b[n + 1] = r
  BY AppendIndex
<1> HIDE DEF b, n
<1>2. \A i \in 1..n : i \in 1..(n + 1) /\ i < n + 1
  BY <1>1
<1>3. n + 1 \in 1..(n + 1) /\ \A i \in 1..(n + 1) : i \in 1..n \/ i = n + 1
  BY <1>1
<1>4. \A i, j \in 1..(n + 1) : i < j => i \in 1..n
  BY <1>1
<1>5. ASSUME NEW x, NEW y, Before(a, x, y) PROVE Before(b, x, y)
  <2>1. PICK i, j \in 1..n : i < j /\ a[i] = x /\ a[j] = y
    BY <1>1, <1>5 DEF Before
  <2> QED
    BY <1>1, <1>2, <2>1 DEF Before
<1>6. ASSUME NEW x \in Members(a) PROVE Before(b, x, r)
  <2>1. PICK i \in 1..n : a[i] = x
    BY <1>1, MembersDef
  <2> QED
    BY <1>1, <1>2, <1>3, <2>1 DEF Before
<1>7. ASSUME NEW x, NEW y, Before(b, x, y) PROVE Before(a, x, y) \/ (x \in Members(a) /\ y = r)
  <2>1. PICK i, j \in 1..(n + 1) : i < j /\ b[i] = x /\ b[j] = y
    BY <1>1, <1>7 DEF Before
  <2>2. i \in 1..n /\ a[i] = x /\ x \in Members(a)
    BY <1>1, <1>4, <2>1, MembersDef
  <2>3. CASE j \in 1..n
    BY <1>1, <2>1, <2>2, <2>3 DEF Before
  <2>4. CASE j = n + 1
    BY <1>1, <2>1, <2>2, <2>4
  <2> QED
    BY <1>3, <2>1, <2>3, <2>4
<1> QED
  BY <1>5, <1>6, <1>7 DEF b

LEMMA BeforeOnce ==
  ASSUME NEW a \in Seq(Reqs), Inj(a), NEW x, NEW y, Before(a, x, y)
  PROVE  x # y /\ ~Before(a, y, x) /\ x \in Members(a) /\ y \in Members(a)
<1>1. DOMAIN a = 1..Len(a) /\ Len(a) \in Nat
  BY LenProperties
<1>2. PICK i, j \in 1..Len(a) : i < j /\ a[i] = x /\ a[j] = y
  BY <1>1 DEF Before
<1>3. x # y
  BY <1>1, <1>2 DEF Inj
<1>4. ASSUME Before(a, y, x) PROVE FALSE
  <2>1. PICK k, l \in 1..Len(a) : k < l /\ a[k] = y /\ a[l] = x
    BY <1>1, <1>4 DEF Before
  <2>2. k = j /\ l = i
    BY <1>1, <1>2, <2>1 DEF Inj
  <2> QED
    BY <1>1, <1>2, <2>1, <2>2
<1> QED
  BY <1>1, <1>2, <1>3, <1>4, MembersDef

LEMMA RisingAppend ==
  ASSUME NEW a, NEW s \in Seq(Reqs), NEW r \in Reqs, Rising(a, s), \A x \in Members(s) : Before(a, x, r)
  PROVE  Rising(a, Append(s, r))
<1> DEFINE u == Append(s, r)
           n == Len(s)
<1>1. /\ DOMAIN s = 1..n /\ n \in Nat /\ DOMAIN u = 1..(n + 1)
      /\ \A i \in 1..n : u[i] = s[i]
      /\ u[n + 1] = r
  BY AppendIndex
<1> HIDE DEF u, n
<1>2. \A i, j \in 1..(n + 1) : i < j => i \in 1..n /\ (j \in 1..n \/ j = n + 1)
  BY <1>1
<1>3. ASSUME NEW i \in 1..(n + 1), NEW j \in 1..(n + 1), i < j
      PROVE  Before(a, u[i], u[j])
  <2>1. i \in 1..n /\ u[i] = s[i] /\ s[i] \in Members(s)
    BY <1>1, <1>2, <1>3, MembersDef
  <2>2. CASE j \in 1..n
    BY <1>1, <1>3, <2>1, <2>2 DEF Rising
  <2>3. CASE j = n + 1
    BY <1>1, <2>1, <2>3
  <2> QED
    BY <1>2, <1>3, <2>2, <2>3
<1> QED
  BY <1>1, <1>3 DEF Rising, u

LEMMA RisingTail ==
  ASSUME NEW a, NEW s \in Seq(Reqs), s # <<>>, Rising(a, s)
  PROVE  Rising(a, Tail(s)) /\ \A y \in Members(Tail(s)) : Before(a, Head(s), y)
<1> DEFINE u == Tail(s)
           n == Len(s)
<1>1. /\ DOMAIN s = 1..n /\ n \in Nat \ {0} /\ Head(s) = s[1] /\ u \in Seq(Reqs) /\ Len(u) = n - 1
      /\ \A i \in 1..Len(u) : u[i] = s[i + 1]
  BY HeadTailProperties, EmptySeq, LenProperties
<1>2. DOMAIN u = 1..(n - 1) /\ \A i \in 1..(n - 1) : u[i] = s[i + 1]
  BY <1>1, LenProperties
<1> HIDE DEF u, n
<1>3. \A i \in 1..(n - 1) : i + 1 \in 1..n /\ 1 \in 1..n /\ 1 < i + 1
  BY <1>1
<1>4. \A i, j \in 1..(n - 1) : i < j => i + 1 < j + 1
  BY <1>1
<1>5. \A i, j \in 1..(n - 1) : i < j => Before(a, u[i], u[j])
  BY <1>1, <1>2, <1>3, <1>4 DEF Rising
<1>6. ASSUME NEW y \in Members(u) PROVE Before(a, Head(s), y)
  <2>1. PICK i \in 1..(n - 1) : u[i] = y
    BY <1>2, MembersDef
  <2>2. Before(a, s[1], s[i + 1])
    BY <1>1, <1>3, <2>1 DEF Rising
  <2> QED
    BY <1>1, <1>2, <2>1, <2>2
<1> QED
  BY <1>2, <1>5, <1>6 DEF Rising, u

LEMMA RisingConcat ==
  ASSUME NEW a, NEW s \in Seq(Reqs), NEW t \in Seq(Reqs), Rising(a, s), Rising(a, t), Below(a, Members(s), Members(t))
  PROVE  Rising(a, s \o t)
<1> DEFINE u == s \o t
           n == Len(s)
           m == Len(t)
<1>1. /\ DOMAIN s = 1..n /\ n \in Nat /\ DOMAIN t = 1..m /\ m \in Nat
      /\ u \in Seq(Reqs) /\ Len(u) = n + m
      /\ \A i \in 1..(n + m) : u[i] = IF i <= n THEN s[i] ELSE t[i - n]
  BY ConcatProperties, LenProperties
<1>2. DOMAIN u = 1..(n + m)
  BY <1>1, LenProperties
<1> HIDE DEF u, n, m
<1>3. \A i \in 1..(n + m) : (i <= n /\ i \in 1..n) \/ (~(i <= n) /\ i - n \in 1..m)
  BY <1>1
<1>4. ASSUME NEW i \in 1..(n + m), NEW j \in 1..(n + m), i < j
      PROVE  Before(a, u[i], u[j])
  <2>1. CASE i <= n /\ j <= n
    BY <1>1, <1>3, <1>4, <2>1 DEF Rising
  <2>2. CASE i <= n /\ ~(j <= n)
    <3>1. u[i] = s[i] /\ u[j] = t[j - n] /\ i \in 1..n /\ j - n \in 1..m
      BY <1>1, <1>3, <2>2
    <3>2. u[i] \in Members(s) /\ u[j] \in Members(t)
      BY <1>1, <3>1, MembersDef
    <3> QED
      BY <3>2 DEF Below
  <2>3. CASE ~(i <= n) /\ ~(j <= n)
    <3>1. u[i] = t[i - n] /\ u[j] = t[j - n] /\ i - n \in 1..m /\ j - n \in 1..m
      BY <1>1, <1>3, <2>3
    <3>2. i - n < j - n
      BY <1>1, <1>4
    <3> QED
      BY <1>1, <3>1, <3>2 DEF Rising
  <2>4. ~(~(i <= n) /\ j <= n)
    BY <1>1, <1>4
  <2> QED
    BY <2>1, <2>2, <2>3, <2>4
<1> QED
  BY <1>2, <1>4 DEF Rising, u

-----------------------------------------------------------------------------
(* Lined.                                                                  *)

LEMMA PlacesAccepted ==
  ASSUME TypeOK, Placed
  PROVE  /\ \A r \in Members(chan) \cup Members(batch) \cup Members(pending) \cup InHand :
              r \in Reqs /\ r \in Members(accepted) /\ resp[r] = None
         /\ chan \in Seq(Reqs) /\ batch \in Seq(Reqs) /\ pending \in Seq(Reqs) /\ accepted \in Seq(Reqs)
         /\ Inj(accepted)
<1>1. chan \in Seq(Reqs) /\ batch \in Seq(Reqs) /\ pending \in Seq(Reqs) /\ accepted \in Seq(Reqs)
  BY DEF TypeOK
<1>2. Members(chan) \cup Members(batch) \cup Members(pending) \cup InHand \subseteq Reqs
  BY <1>1, MembersType DEF InHand, TypeOK
<1> QED
  BY <1>1, <1>2 DEF Placed, Homes, Queued

\* A place that is emptied, and one that is left alone.
LEMMA LinedLess ==
  ASSUME Lined, accepted' = accepted, chan' \in {chan, <<>>}, batch' \in {batch, <<>>},
         pending' \in {pending, <<>>}, cur' \in {cur, None}
  PROVE  Lined'
<1>1. /\ Members(chan') \subseteq Members(chan) /\ Members(batch') \subseteq Members(batch)
      /\ Members(pending') \subseteq Members(pending)
  BY EmptyMembers
<1>2. InHand' \subseteq InHand
  BY DEF InHand
<1>3. \A s : Rising(accepted, s) => Rising(accepted, <<>>)
  BY DEF Rising
<1>4. Rising(accepted, chan') /\ Rising(accepted, batch') /\ Rising(accepted, pending')
  BY <1>3 DEF Lined
<1>5. /\ Below(accepted, InHand', Members(pending') \cup Members(batch') \cup Members(chan'))
      /\ Below(accepted, Members(pending'), Members(batch') \cup Members(chan'))
      /\ Below(accepted, Members(batch'), Members(chan'))
  BY <1>1, <1>2 DEF Lined, Below
<1> QED
  BY <1>4, <1>5 DEF Lined

LEMMA LinedQueue ==
  ASSUME TypeOK, Placed, Lined, NEW r \in Reqs,
         chan' = Append(chan, r), accepted' = Append(accepted, r), UNCHANGED <<batch, pending, cur>>
  PROVE  Lined'
<1>1. /\ \A x \in Members(chan) \cup Members(batch) \cup Members(pending) \cup InHand : x \in Members(accepted)
      /\ chan \in Seq(Reqs) /\ accepted \in Seq(Reqs)
  BY PlacesAccepted
<1>2. /\ \A x, y : Before(accepted, x, y) => Before(accepted', x, y)
      /\ \A x \in Members(accepted) : Before(accepted', x, r)
  BY <1>1, BeforeAppend
<1>3. Members(chan') = Members(chan) \cup {r}
  BY <1>1, AppendMembers
<1>4. Rising(accepted', chan) /\ Rising(accepted', batch) /\ Rising(accepted', pending)
  BY <1>2 DEF Rising, Lined
<1>5. Rising(accepted', Append(chan, r))
  BY <1>1, <1>2, <1>4, RisingAppend
<1>6. InHand' = InHand /\ Members(batch') = Members(batch) /\ Members(pending') = Members(pending)
  BY DEF InHand
<1>7. /\ Below(accepted', InHand, Members(pending) \cup Members(batch) \cup (Members(chan) \cup {r}))
      /\ Below(accepted', Members(pending), Members(batch) \cup (Members(chan) \cup {r}))
      /\ Below(accepted', Members(batch), Members(chan) \cup {r})
  BY <1>1, <1>2 DEF Below, Lined
<1> QED
  BY <1>3, <1>4, <1>5, <1>6, <1>7 DEF Lined

LEMMA LinedRecv ==
  ASSUME TypeOK, Placed, Lined, chan # <<>>, batch' = Append(batch, Head(chan)), chan' = Tail(chan),
         UNCHANGED <<accepted, pending, cur>>
  PROVE  Lined'
<1> DEFINE x == Head(chan)
<1>1. chan \in Seq(Reqs) /\ batch \in Seq(Reqs)
  BY DEF TypeOK
<1>2. x \in Reqs /\ Members(chan) = Members(chan') \cup {x}
  BY <1>1, HeadMembers
<1>3. Members(batch') = Members(batch) \cup {x}
  BY <1>1, <1>2, AppendMembers
<1>4. Rising(accepted, chan') /\ \A y \in Members(chan') : Before(accepted, x, y)
  BY <1>1, RisingTail DEF Lined
<1>5. Rising(accepted, batch')
  <2>1. \A y \in Members(batch) : Before(accepted, y, x)
    BY <1>2 DEF Lined, Below
  <2> QED
    BY <1>1, <1>2, <2>1, RisingAppend DEF Lined
<1>6. InHand' = InHand /\ Members(pending') = Members(pending)
  BY DEF InHand
<1> HIDE DEF x
<1>7. /\ Below(accepted, InHand, Members(pending) \cup Members(batch') \cup Members(chan'))
      /\ Below(accepted, Members(pending), Members(batch') \cup Members(chan'))
      /\ Below(accepted, Members(batch'), Members(chan'))
  BY <1>2, <1>3, <1>4 DEF Below, Lined
<1> QED
  BY <1>4, <1>5, <1>6, <1>7 DEF Lined

LEMMA LinedPush ==
  ASSUME TypeOK, Lined, pending' = pending \o batch, batch' = <<>>, UNCHANGED <<accepted, chan, cur>>
  PROVE  Lined'
<1>1. pending \in Seq(Reqs) /\ batch \in Seq(Reqs)
  BY DEF TypeOK
<1>2. Members(pending') = Members(pending) \cup Members(batch) /\ Members(batch') = {}
  BY <1>1, ConcatMembers, EmptyMembers
<1>3. Rising(accepted, pending')
  <2>1. Below(accepted, Members(pending), Members(batch))
    BY DEF Below, Lined
  <2> QED
    BY <1>1, <2>1, RisingConcat DEF Lined
<1>4. Rising(accepted, batch')
  BY DEF Rising
<1>5. InHand' = InHand /\ Members(chan') = Members(chan)
  BY DEF InHand
<1>6. /\ Below(accepted, InHand, Members(pending') \cup Members(batch') \cup Members(chan))
      /\ Below(accepted, Members(pending'), Members(batch') \cup Members(chan))
      /\ Below(accepted, Members(batch'), Members(chan))
  BY <1>2 DEF Below, Lined
<1> QED
  BY <1>3, <1>4, <1>5, <1>6 DEF Lined

LEMMA LinedPop ==
  ASSUME TypeOK, Lined, pending # <<>>, cur' = Head(pending), pending' = Tail(pending),
         UNCHANGED <<accepted, chan, batch>>
  PROVE  Lined'
<1>1. pending \in Seq(Reqs)
  BY DEF TypeOK
<1>2. Members(pending) = Members(pending') \cup {cur'} /\ cur' \in Reqs
  BY <1>1, HeadMembers
<1>3. InHand' = {cur'}
  BY <1>2, CallAssumption DEF InHand
<1>4. Rising(accepted, pending') /\ \A y \in Members(pending') : Before(accepted, cur', y)
  BY <1>1, RisingTail DEF Lined
<1>5. Members(batch') = Members(batch) /\ Members(chan') = Members(chan)
  OBVIOUS
<1>6. /\ Below(accepted, InHand', Members(pending') \cup Members(batch) \cup Members(chan))
      /\ Below(accepted, Members(pending'), Members(batch) \cup Members(chan))
      /\ Below(accepted, Members(batch), Members(chan))
  BY <1>2, <1>3, <1>4 DEF Below, Lined
<1> QED
  BY <1>4, <1>5, <1>6 DEF Lined

\* What a call that goes on puts into the channel.
LEMMA Queues ==
  ASSUME TypeOK, NEW c \in Calls, Send(c) \/ EnqueueRollback(c)
  PROVE  /\ \E r \in Reqs : chan' = Append(chan, r) /\ accepted' = Append(accepted, r)
         /\ UNCHANGED <<batch, pending, cur, rpc, res, resp, eof, wire, wpc, item>>
<1>1. \E r \in Reqs : chan' = Append(chan, r) /\ accepted' = Append(accepted, r)
  BY NextItem, FirstItem DEF Send, EnqueueRollback, Sending, Queue
<1>2. UNCHANGED <<batch, pending, cur, rpc, res, resp, eof, wire, wpc, item>>
  BY DEF Send, EnqueueRollback, writerVars, readerVars, socketVars
<1> QED
  BY <1>1, <1>2

LEMMA LinedStep ==
  ASSUME TypeOK, Placed, Lined, [Next]_vars
  PROVE  Lined'
<1>1. ASSUME NEW c \in Calls, Send(c) \/ EnqueueRollback(c) PROVE Lined'
  BY <1>1, Queues, LinedQueue
<1>2. CASE WriterRecv \/ WriterTryRecv
  <2>1. chan # <<>> /\ chan' = Tail(chan) /\ UNCHANGED <<accepted, pending, cur>>
    BY <1>2 DEF WriterRecv, WriterTryRecv, callVars, readerVars
  <2>2. WriterRecv => batch = <<>> /\ batch' = <<Head(chan)>>
    BY DEF WriterRecv, TypeOK
  <2>3. \A x : <<x>> = Append(<<>>, x)
    OBVIOUS
  <2>4. batch' = Append(batch, Head(chan))
    <3>1. CASE WriterRecv
      BY <2>2, <2>3, <3>1
    <3>2. CASE WriterTryRecv
      BY <3>2 DEF WriterTryRecv
    <3> QED
      BY <1>2, <3>1, <3>2
  <2> QED
    BY <2>1, <2>4, LinedRecv
<1>3. CASE WriterPush
  BY <1>3, LinedPush DEF WriterPush, callVars, readerVars
<1>4. CASE ReaderPop
  BY <1>4, LinedPop DEF ReaderPop, callVars, writerVars
<1>5. CASE WriterWriteErr \/ WriterDrain \/ WriterLeave \/ ReaderAnswer
  <2>1. /\ accepted' = accepted /\ chan' \in {chan, <<>>} /\ batch' \in {batch, <<>>}
        /\ pending' \in {pending, <<>>} /\ cur' \in {cur, None}
    BY <1>5 DEF WriterWriteErr, WriterDrain, WriterLeave, ReaderAnswer, callVars, writerVars, readerVars
  <2> QED
    BY <2>1, LinedLess
<1>6. ASSUME \/ DropHandle \/ (\E r \in Streams : StreamNext(r)) \/ ServerStep \/ Sever \/ UNCHANGED vars
             \/ \E c \in Calls : SendErr(c) \/ RollbackRefused(c) \/ GiveUp(c)
             \/ WriterNoMore \/ WriterWrite \/ WriterFlush \/ WriterNotify \/ WriterRecvNone \/ WriterExit
             \/ ReaderPark \/ ReaderWake \/ CollectBuffered \/ CollectError \/ StreamRow \/ StreamDone
             \/ StreamError \/ DrainMsg \/ ReadReady \/ ReadEof \/ StreamSend \/ StreamSendErr
      PROVE  Lined'
  <2>1. UNCHANGED <<accepted, chan, batch, pending, cur>>
    BY <1>6, ReadReadyIs DEF DropHandle, StreamNext, ServerStep, Reply, HangUp, Sever, SendErr, RollbackRefused, GiveUp,
         WriterNoMore, WriterWrite, WriterFlush, WriterNotify, WriterRecvNone, WriterExit, ReaderPark, ReaderWake,
         CollectBuffered, CollectError, StreamRow, StreamDone, StreamError, DrainMsg, ReadyHere, ReadEof,
         StreamSend, StreamSendErr, ReadOnly, vars, callVars, writerVars, readerVars
  <2> QED
    BY <2>1, LinedLess
<1> QED
  BY <1>1, <1>2, <1>3, <1>4, <1>5, <1>6 DEF Next, CallerStep, WriterStep, ReaderStep

-----------------------------------------------------------------------------
(* Losses.                                                                 *)

\* A dead socket stays dry, and a writer that has failed never works again.
LEMMA DryStays ==
  ASSUME Dry, [Next]_vars
  PROVE  Dry'
<1>1. ~Incoming("row") /\ ~Incoming("done") /\ ~Incoming("error") /\ \A k \in ReadyKinds : ~Incoming(k)
  BY DEF Dry, Incoming
<1>2. UNCHANGED <<eof, wire>>
  BY <1>1, ReadReadyIs DEF Dry, Next, CallerStep, Send, SendErr, EnqueueRollback, RollbackRefused, GiveUp, DropHandle, StreamNext,
       WriterStep, WriterRecv, WriterTryRecv, WriterNoMore, WriterWrite, WriterFlush, WriterWriteErr, WriterPush,
       WriterNotify, WriterRecvNone, WriterDrain, WriterLeave, WriterExit,
       ReaderStep, ReaderPop, ReaderPark, ReaderWake, CollectBuffered, CollectError, StreamRow, StreamDone,
       StreamError, DrainMsg, ReadyHere, ReadEof, ReadOnly, StreamSend, StreamSendErr, ReaderAnswer,
       ServerStep, Reply, HangUp, Sever, vars, socketVars
<1> QED
  BY <1>2 DEF Dry

LEMMA IdleStays ==
  ASSUME TypeOK, ~Working, [Next]_vars
  PROVE  ~Working' /\ (Members(chan) \subseteq Members(chan') \/ WriterLeave)
<1>1. wpc \in {"drain", "leave", "left", "exited"}
  BY DEF Working, TypeOK
<1>2. ASSUME NEW c \in Calls, Send(c) \/ EnqueueRollback(c)
      PROVE  wpc' = wpc /\ Members(chan) \subseteq Members(chan')
  <2>1. PICK r \in Reqs : chan' = Append(chan, r) /\ wpc' = wpc
    BY <1>2, Queues
  <2> QED
    BY <2>1, AppendMembers DEF TypeOK
<1>3. CASE WriterStep
  BY <1>1, <1>3 DEF WriterStep, WriterRecv, WriterTryRecv, WriterNoMore, WriterWrite, WriterFlush, WriterWriteErr, WriterPush,
       WriterNotify, WriterRecvNone, WriterDrain, WriterLeave, WriterExit, Working
<1>4. ASSUME \/ DropHandle \/ (\E r \in Streams : StreamNext(r)) \/ ServerStep \/ Sever \/ UNCHANGED vars
             \/ \E c \in Calls : SendErr(c) \/ RollbackRefused(c) \/ GiveUp(c)
             \/ ReaderStep
      PROVE  UNCHANGED <<chan, wpc>>
  BY <1>4, ReadReadyIs DEF DropHandle, StreamNext, ServerStep, Reply, HangUp, Sever, SendErr, RollbackRefused, GiveUp,
       ReaderStep, ReaderPop, ReaderPark, ReaderWake, CollectBuffered, CollectError, StreamRow, StreamDone,
       StreamError, DrainMsg, ReadyHere, ReadEof, ReadOnly, StreamSend, StreamSendErr, ReaderAnswer, vars, writerVars
<1> QED
  BY <1>2, <1>3, <1>4 DEF Next, CallerStep, Working

\* The result the reader comes to, and whether a request will have one.
LEMMA ReaderResult ==
  ASSUME TypeOK, Ends, Losses, [Next]_vars
  PROVE  /\ rpc' = "send" /\ item' \in {"closed", "protocol"} => Dry'
         /\ rpc' = "answer" /\ res' \notin {"ok", "err"} => Dry'
         /\ Reading' => res' \in {"ok", "err"}
         /\ \A y : Dry /\ ~Succeeding(y) => ~Succeeding(y)'
<1>1. CASE ReaderPop \/ ReaderPark \/ ReaderWake \/ ReaderAnswer
  <2>1. rpc' \in {"check", "wait"} \/ (rpc' \in {"collect", "drain"} /\ res' = "ok")
    BY <1>1 DEF ReaderPop, ReaderPark, ReaderWake, ReaderAnswer
  <2> QED
    BY <2>1 DEF Reading, Succeeding
<1>2. CASE CollectBuffered \/ CollectError \/ StreamRow \/ StreamDone \/ StreamError \/ DrainMsg
  <2>1. rpc' \in {"collect", "drain"} \/ (rpc' = "send" /\ item' \in {"row", "err"})
    BY <1>2 DEF CollectBuffered, CollectError, StreamRow, StreamDone, StreamError, DrainMsg
  <2>2. rpc \in {"collect", "drain"} /\ res' \in {res, "err"}
    BY <1>2 DEF CollectBuffered, CollectError, StreamRow, StreamDone, StreamError, DrainMsg
  <2>3. res' \in {"ok", "err"}
    BY <2>2 DEF Losses, Reading
  <2> QED
    BY <2>1, <2>3 DEF Succeeding
<1>3. CASE ReadReady
  <2>1. rpc \in {"collect", "drain"} /\ res' = res /\ rpc' = "answer" /\ wire # <<>>
    BY <1>3, ReadReadyIs DEF ReadyHere, Incoming
  <2>2. res' \in {"ok", "err"}
    BY <2>1 DEF Losses, Reading
  <2> QED
    BY <2>1, <2>2 DEF Reading, Dry
<1>4. CASE ReadEof
  <2>1. Dry' /\ res' = "closed" /\ (rpc' = "answer" \/ (rpc' = "send" /\ item' = "closed"))
    BY <1>4, DryStays DEF ReadEof, ReadFails, Dry
  <2> QED
    BY <2>1 DEF Reading, Succeeding
<1>5. CASE StreamSend \/ StreamSendErr
  <2>1. item \in RowItems /\ rpc = "send" /\ UNCHANGED <<res, cur>>
    BY <1>5 DEF StreamSend, StreamSendErr, TypeOK
  <2>2. \/ item \in {"row", "err"} /\ rpc' \in {"collect", "drain"}
        \/ item \in {"closed", "protocol"} /\ rpc' = "answer"
    BY <1>5, <2>1 DEF StreamSend, StreamSendErr, AfterSend, RowItems
  <2>3. CASE item \in {"row", "err"} /\ rpc' \in {"collect", "drain"}
    BY <2>1, <2>3 DEF Losses, Reading, Succeeding
  <2>4. CASE item \in {"closed", "protocol"} /\ rpc' = "answer"
    <3>1. Dry' /\ res' = "closed"
      BY <2>1, <2>4, DryStays DEF Losses, Ends
    <3> QED
      BY <2>4, <3>1 DEF Reading, Succeeding
  <2> QED
    BY <2>2, <2>3, <2>4
<1>6. CASE ~ReaderStep
  <2>1. UNCHANGED <<rpc, res, item, cur>>
    BY <1>6 DEF Next, CallerStep, Send, SendErr, EnqueueRollback, RollbackRefused, GiveUp, DropHandle, StreamNext,
         WriterStep, WriterRecv, WriterTryRecv, WriterNoMore, WriterWrite, WriterFlush, WriterWriteErr, WriterPush,
         WriterNotify, WriterRecvNone, WriterDrain, WriterLeave, WriterExit,
         ServerStep, Reply, HangUp, Sever, vars, readerVars
  <2> QED
    BY <2>1, DryStays DEF Losses, Reading, Succeeding
<1> QED
  BY <1>1, <1>2, <1>3, <1>4, <1>5, <1>6 DEF ReaderStep

LEMMA DoomedStays ==
  ASSUME TypeOK, Ends, Losses, [Next]_vars, NEW y, Doomed(y), ~(WriterLeave /\ y \in Members(chan))
  PROVE  Doomed(y)'
<1>1. CASE ~Working /\ y \in Members(chan)
  BY <1>1, IdleStays DEF Doomed
<1>2. CASE Dry /\ ~Succeeding(y)
  <2>1. Dry' /\ ~Succeeding(y)'
    BY <1>2, DryStays, ReaderResult
  <2> QED
    BY <2>1 DEF Doomed
<1> QED
  BY <1>1, <1>2 DEF Doomed

\* Of the requests the writer gives up none was answered, and what was accepted after
\* one of them is given up with it or is still in the channel.
LEMMA WriterFails ==
  ASSUME TypeOK, Placed, Lined, WriterWriteErr \/ WriterDrain \/ WriterLeave
  PROVE  /\ \E S \in SUBSET Reqs :
              /\ \A r \in S : Lost(r)' /\ resp[r] = None /\ r \in Members(accepted)
              /\ \A r \in Reqs \ S : resp'[r] = resp[r]
              /\ \A x \in S, y \in Reqs \ S : Before(accepted, x, y) /\ resp[y] = None => y \in Members(chan')
              /\ WriterLeave => S = Members(chan)
         /\ ~Working' /\ UNCHANGED <<accepted, cur, rpc, res, eof, wire, item>>
<1> DEFINE S == IF WriterLeave THEN Members(chan) ELSE IF WriterDrain THEN Members(pending) ELSE Members(batch)
           T == Members(chan) \cup Members(batch) \cup Members(pending) \cup InHand
<1>1. ~Working' /\ UNCHANGED <<accepted, cur, rpc, res, eof, wire, item>>
  BY DEF WriterWriteErr, WriterDrain, WriterLeave, Working, callVars, readerVars, socketVars
<1>2. PICK how \in {"io", "closed"} : Fail(S, how)
  <2>1. WriterLeave => wpc = "leave" /\ Fail(Members(chan), "closed")
    BY DEF WriterLeave
  <2>2. WriterDrain => wpc = "drain" /\ Fail(Members(pending), "closed")
    BY DEF WriterDrain
  <2>3. WriterWriteErr => wpc = "flush" /\ Fail(Members(batch), "io")
    BY DEF WriterWriteErr
  <2> QED
    BY <2>1, <2>2, <2>3
<1>3. \A r \in T : r \in Reqs /\ r \in Members(accepted) /\ resp[r] = None
  BY PlacesAccepted
<1>4. S \subseteq T
  OBVIOUS
<1>5. ASSUME NEW r \in S PROVE Lost(r)'
  <2>1. r \in Reqs
    BY <1>3, <1>4
  <2>2. resp'[r] = Ended(how)
    BY <1>2, <2>1 DEF Fail
  <2>3. Ended(how) \in Outcomes
    BY EmptySeq DEF Ended, Outcomes, Endings
  <2>4. resp'[r] # None
    BY <2>2, <2>3, CallAssumption
  <2>5. resp'[r].res = how
    BY <2>2 DEF Ended
  <2> QED
    BY <2>4, <2>5 DEF Lost, Answered
<1>6. \A r \in Reqs \ S : resp'[r] = resp[r]
  BY <1>2 DEF Fail
<1>7. ASSUME NEW x \in S, NEW y \in Reqs \ S, Before(accepted, x, y), resp[y] = None
      PROVE  y \in Members(chan')
  <2>1. ~Before(accepted, y, x) /\ y \in Members(accepted)
    BY <1>7, PlacesAccepted, BeforeOnce
  <2>2. y \in T
    BY <1>7, <2>1 DEF Placed, Homes
  <2>3. CASE WriterWriteErr
    <3>1. S = Members(batch) /\ chan' = chan
      BY <2>3 DEF WriterWriteErr, WriterLeave, WriterDrain
    <3>2. y \notin InHand /\ y \notin Members(pending)
      BY <1>7, <2>1, <3>1 DEF Lined, Below
    <3> QED
      BY <2>2, <3>1, <3>2
  <2>4. CASE WriterDrain
    <3>1. S = Members(pending) /\ chan' = chan /\ batch = <<>>
      BY <2>4 DEF WriterDrain, WriterLeave, TypeOK
    <3>2. y \notin InHand
      BY <1>7, <2>1, <3>1 DEF Lined, Below
    <3> QED
      BY <2>2, <3>1, <3>2, EmptyMembers
  <2>5. CASE WriterLeave
    <3>1. S = Members(chan) /\ batch = <<>>
      BY <2>5 DEF WriterLeave, TypeOK
    <3>2. y \notin InHand /\ y \notin Members(pending)
      BY <1>7, <2>1, <3>1 DEF Lined, Below
    <3> QED
      BY <2>2, <3>1, <3>2, EmptyMembers
  <2> QED
    BY <2>3, <2>4, <2>5
<1>8. WriterLeave => S = Members(chan)
  OBVIOUS
<1>9. S \in SUBSET Reqs
  BY <1>3, <1>4
<1> HIDE DEF S
<1> QED
  BY <1>1, <1>3, <1>4, <1>5, <1>6, <1>7, <1>8, <1>9

\* What the reader's answer does.
LEMMA AnswerGiven ==
  ASSUME TypeOK, ReaderAnswer
  PROVE  /\ cur \in Reqs /\ InHand = {cur} /\ rpc = "answer" /\ rpc' = "check"
         /\ resp'[cur] # None /\ resp'[cur].res = res
         /\ resp' \in [Reqs -> Outcomes \cup {None}]
         /\ \A r \in Reqs \ {cur} : resp'[r] = resp[r]
         /\ UNCHANGED <<accepted, chan, batch, pending, wpc, eof, wire>>
<1>1. rpc = "answer" /\ rpc' = "check" /\ resp' = [resp EXCEPT ![cur] = [res |-> res, msgs |-> got]]
  BY DEF ReaderAnswer
<1>2. UNCHANGED <<accepted, chan, batch, pending, wpc, eof, wire>>
  BY DEF ReaderAnswer, callVars, writerVars, socketVars
<1>3. cur \in Reqs
  BY <1>1 DEF TypeOK
<1>4. [res |-> res, msgs |-> got] \in Outcomes
  BY DEF TypeOK, Outcomes
<1>5. resp'[cur] = [res |-> res, msgs |-> got] /\ \A r \in Reqs \ {cur} : resp'[r] = resp[r]
  BY <1>1, <1>3 DEF TypeOK
<1>6. resp' \in [Reqs -> Outcomes \cup {None}]
  BY <1>1, <1>4 DEF TypeOK
<1>7. resp'[cur] # None /\ resp'[cur].res = res
  BY <1>4, <1>5, CallAssumption
<1>8. InHand = {cur}
  BY <1>3, CallAssumption DEF InHand
<1> QED
  BY <1>1, <1>2, <1>3, <1>5, <1>6, <1>7, <1>8

\* An answer that is none is given when nothing will be read any more.
LEMMA LostWhenDry ==
  ASSUME TypeOK, Ends, Losses, [Next]_vars, ReaderAnswer, NEW x \in Reqs, Lost(x)', ~Lost(x)
  PROVE  Dry' /\ x = cur
<1>1. x = cur
  BY AnswerGiven DEF Lost, Answered
<1>2. res \notin {"ok", "err"}
  BY <1>1, AnswerGiven DEF Lost, Answered
<1> QED
  BY <1>1, <1>2, AnswerGiven, DryStays DEF Losses

\* What a step adds to the lost requests, and to those accepted after one.
LEMMA LaterOnesDoomed ==
  ASSUME TypeOK, Placed, Lined, Ends, Losses, [Next]_vars, Placed',
         NEW x \in Reqs, NEW y \in Reqs, Lost(x)', Before(accepted', x, y), resp'[y] = None
  PROVE  Doomed(y)'
<1>1. ASSUME NEW c \in Calls, Send(c) \/ EnqueueRollback(c) PROVE Doomed(y)'
  <2>1. PICK r \in Reqs : chan' = Append(chan, r) /\ accepted' = Append(accepted, r)
    BY <1>1, Queues
  <2>2. UNCHANGED <<cur, rpc, res, resp, eof, wire, wpc>>
    BY <1>1, Queues
  <2>3. Lost(x) /\ resp[y] = None
    BY <2>2 DEF Lost, Answered
  <2>4. accepted \in Seq(Reqs) /\ chan \in Seq(Reqs)
    BY DEF TypeOK
  <2>5. CASE Before(accepted, x, y)
    <3>1. Doomed(y)
      BY <2>3, <2>5 DEF Losses
    <3>2. ~WriterLeave
      BY <2>1, <2>4, Appended DEF WriterLeave
    <3> QED
      BY <3>1, <3>2, DoomedStays
  <2>6. CASE y = r
    <3>1. y \in Members(chan')
      BY <2>1, <2>4, <2>6, AppendMembers
    <3>2. y \notin InHand
      <4>1. Inj(Append(accepted, r))
        BY <2>1 DEF Placed, Queued
      <4>2. r \notin Members(accepted)
        BY <2>4, <4>1, AppendNew
      <4> QED
        BY <2>6, <4>2, PlacesAccepted
    <3>3. cur' # y
      BY <2>2, <3>2, CallAssumption DEF InHand
    <3>4. ~Working \/ Dry
      BY <2>3 DEF Losses
    <3>5. ~Working' \/ Dry'
      BY <2>2, <3>4 DEF Working, Dry
    <3>6. ~Succeeding(y)'
      BY <3>3 DEF Succeeding
    <3> QED
      BY <3>1, <3>5, <3>6 DEF Doomed
  <2> QED
    BY <2>1, <2>4, <2>5, <2>6, BeforeAppend
<1>2. CASE WriterWriteErr \/ WriterDrain \/ WriterLeave
  <2>1. ~Working' /\ accepted' = accepted
    BY <1>2, WriterFails
  <2>2. PICK S \in SUBSET Reqs :
          /\ \A r \in S : Lost(r)' /\ resp[r] = None /\ r \in Members(accepted)
          /\ \A r \in Reqs \ S : resp'[r] = resp[r]
          /\ \A r \in S, s \in Reqs \ S : Before(accepted, r, s) /\ resp[s] = None => s \in Members(chan')
          /\ WriterLeave => S = Members(chan)
    BY <1>2, WriterFails
  <2>3. y \notin S /\ resp[y] = None
    BY <2>2 DEF Lost
  <2>4. CASE x \in S
    <3>1. y \in Members(chan')
      BY <2>1, <2>2, <2>3, <2>4
    <3> QED
      BY <2>1, <3>1 DEF Doomed
  <2>5. CASE x \notin S
    <3>1. Lost(x)
      BY <2>2, <2>5 DEF Lost, Answered
    <3>2. Doomed(y)
      BY <2>1, <2>3, <3>1 DEF Losses
    <3> QED
      BY <2>2, <2>3, <3>2, DoomedStays
  <2> QED
    BY <2>4, <2>5
<1>3. CASE ReaderAnswer
  <2>1. accepted' = accepted /\ rpc' = "check" /\ resp[y] = None
    <3>1. y # cur
      BY <1>3, AnswerGiven
    <3> QED
      BY <1>3, <3>1, AnswerGiven
  <2>2. CASE Lost(x)
    <3>1. Doomed(y)
      BY <2>1, <2>2 DEF Losses
    <3>2. ~WriterLeave
      BY <1>3, AnswerGiven DEF WriterLeave, readerVars
    <3> QED
      BY <3>1, <3>2, DoomedStays
  <2>3. CASE ~Lost(x)
    <3>1. Dry'
      BY <1>3, <2>3, LostWhenDry
    <3>2. ~Succeeding(y)'
      BY <2>1 DEF Succeeding
    <3> QED
      BY <3>1, <3>2 DEF Doomed
  <2> QED
    BY <2>2, <2>3
<1>4. ASSUME \/ DropHandle \/ (\E r \in Streams : StreamNext(r)) \/ ServerStep \/ Sever \/ UNCHANGED vars
             \/ \E c \in Calls : SendErr(c) \/ RollbackRefused(c) \/ GiveUp(c)
             \/ WriterRecv \/ WriterTryRecv \/ WriterPush
             \/ WriterNoMore \/ WriterWrite \/ WriterFlush \/ WriterNotify \/ WriterRecvNone \/ WriterExit
             \/ ReaderPop \/ ReaderPark \/ ReaderWake \/ CollectBuffered \/ CollectError \/ StreamRow \/ StreamDone
             \/ StreamError \/ DrainMsg \/ ReadReady \/ ReadEof \/ StreamSend \/ StreamSendErr
      PROVE  Doomed(y)'
  <2>1. UNCHANGED <<accepted, resp>>
    BY <1>4, ReadReadyIs DEF DropHandle, StreamNext, ServerStep, Reply, HangUp, Sever, SendErr, RollbackRefused, GiveUp,
         WriterRecv, WriterTryRecv, WriterPush,
         WriterNoMore, WriterWrite, WriterFlush, WriterNotify, WriterRecvNone, WriterExit, ReaderPop, ReaderPark, ReaderWake,
         CollectBuffered, CollectError, StreamRow, StreamDone, StreamError, DrainMsg, ReadyHere, ReadEof,
         StreamSend, StreamSendErr, ReadOnly, vars, callVars
  <2>2. Lost(x) /\ resp[y] = None
    BY <2>1 DEF Lost, Answered
  <2>3. Doomed(y)
    BY <2>1, <2>2 DEF Losses
  <2>4. ~(WriterLeave /\ y \in Members(chan))
    <3>1. ASSUME WriterLeave, y \in Members(chan) PROVE resp'[y] # None
      <4>1. resp'[y] = Ended("closed")
        BY <3>1 DEF WriterLeave, Fail
      <4>2. Ended("closed") \in Outcomes
        BY EmptySeq DEF Ended, Outcomes, Endings
      <4> QED
        BY <4>1, <4>2, CallAssumption
    <3> QED
      BY <3>1
  <2> QED
    BY <2>3, <2>4, DoomedStays
<1> QED
  BY <1>1, <1>2, <1>3, <1>4 DEF Next, CallerStep, WriterStep, ReaderStep

LEMMA LossesStep ==
  ASSUME TypeOK, Placed, Lined, Ends, Losses, [Next]_vars
  PROVE  Losses'
<1>1. Placed'
  BY PlacedStep
<1>2. \A x, y \in Reqs : Lost(x)' /\ Before(accepted', x, y) /\ resp'[y] = None => Doomed(y)'
  BY <1>1, LaterOnesDoomed
<1>3. ASSUME NEW x \in Reqs, Lost(x)' PROVE ~Working' \/ Dry'
  <2>1. CASE Lost(x)
    <3>1. ~Working \/ Dry
      BY <2>1 DEF Losses
    <3> QED
      BY <3>1, IdleStays, DryStays
  <2>2. CASE ~Lost(x)
    <3>1. CASE WriterWriteErr \/ WriterDrain \/ WriterLeave
      BY <3>1, WriterFails
    <3>2. CASE ReaderAnswer
      BY <1>3, <2>2, <3>2, LostWhenDry
    <3>3. CASE resp' = resp
      BY <1>3, <2>2, <3>3 DEF Lost, Answered
    <3> QED
      BY <3>1, <3>2, <3>3, ReadReadyIs
         DEF Next, CallerStep, Send, SendErr, EnqueueRollback, RollbackRefused, GiveUp, DropHandle, StreamNext,
         WriterStep, WriterRecv, WriterTryRecv, WriterNoMore, WriterWrite, WriterFlush, WriterPush,
         WriterNotify, WriterRecvNone, WriterExit,
         ReaderStep, ReaderPop, ReaderPark, ReaderWake, CollectBuffered, CollectError, StreamRow, StreamDone,
         StreamError, DrainMsg, ReadyHere, ReadEof, ReadOnly, StreamSend, StreamSendErr,
         ServerStep, Reply, HangUp, Sever, vars
  <2> QED
    BY <2>1, <2>2
<1> QED
  BY <1>2, <1>3, ReaderResult DEF Losses

-----------------------------------------------------------------------------
(* The refinement.                                                         *)

\* The outcomes that PipelineContract sees.
Outcome == [r \in Reqs |-> IF resp[r] = None THEN "none" ELSE IF Answered(r) THEN "answered" ELSE "lost"]

LEMMA OutcomeOf ==
  /\ \A r \in Reqs : Outcome[r] = "none" <=> resp[r] = None
  /\ \A r \in Reqs : Outcome[r] = "answered" <=> Answered(r)
  /\ \A r \in Reqs : Outcome[r] = "lost" <=> Lost(r)
BY DEF Outcome, Answered, Lost

LEMMA OutcomeSame ==
  ASSUME resp' = resp
  PROVE  Outcome' = Outcome
BY DEF Outcome, Answered

\* Requests that are told they will have no answer.
LEMMA OutcomeLost ==
  ASSUME NEW S \in SUBSET Reqs, accepted' = accepted,
         \A r \in S : Lost(r)' /\ resp[r] = None /\ r \in Members(accepted),
         \A r \in Reqs \ S : resp'[r] = resp[r]
  PROVE  Contract!Lose
<1>1. S \in SUBSET {r \in Reqs : Outcome[r] = "none"}
  BY DEF Outcome
<1>2. \A r \in S : \E i \in DOMAIN accepted : accepted[i] = r
  BY MembersDef
<1>3. Outcome' = [r \in Reqs |-> IF r \in S THEN "lost" ELSE Outcome[r]]
  <2>1. \A r \in Reqs : Outcome'[r] = IF r \in S THEN "lost" ELSE Outcome[r]
    BY DEF Outcome, Lost, Answered
  <2> QED
    BY <2>1 DEF Outcome
<1> QED
  BY <1>1, <1>2, <1>3 DEF Contract!Lose, Outcome

\* Everything accepted before a request that is about to be answered has its answer.
LEMMA EarlierAnswered ==
  ASSUME TypeOK, Placed, Lined, Losses, ReaderAnswer, res \in {"ok", "err"},
         NEW x \in Reqs, Before(accepted, x, cur)
  PROVE  Answered(x)
<1>1. cur \in Reqs /\ InHand = {cur} /\ rpc = "answer"
  BY AnswerGiven
<1>2. x # cur /\ ~Before(accepted, cur, x) /\ x \in Members(accepted)
  BY PlacesAccepted, BeforeOnce
<1>3. resp[x] # None
  <2>1. x \notin Members(pending) \cup Members(batch) \cup Members(chan)
    BY <1>1, <1>2 DEF Lined, Below
  <2> QED
    BY <1>1, <1>2, <2>1 DEF Placed, Homes
<1>4. ~Lost(x)
  <2>1. resp[cur] = None /\ cur \notin Members(chan)
    BY <1>1, PlacesAccepted DEF Placed, Homes
  <2>2. Succeeding(cur)
    BY <1>1 DEF Succeeding
  <2>3. ~Doomed(cur)
    BY <2>1, <2>2 DEF Doomed
  <2> QED
    BY <1>1, <2>1, <2>3 DEF Losses
<1> QED
  BY <1>3, <1>4 DEF Lost

LEMMA ContractAnswer ==
  ASSUME TypeOK, Placed, Lined, Losses, ReaderAnswer, res \in {"ok", "err"}
  PROVE  \E i \in DOMAIN accepted : Contract!Answer(i)
<1>1. cur \in Reqs /\ resp[cur] = None /\ cur \in Members(accepted)
  BY AnswerGiven, PlacesAccepted
<1>2. PICK i \in DOMAIN accepted : accepted[i] = cur
  BY <1>1, MembersDef
<1>3. DOMAIN accepted = 1..Len(accepted) /\ Len(accepted) \in Nat
  BY LenProperties DEF TypeOK
<1>4. Outcome[accepted[i]] = "none"
  BY <1>1, <1>2 DEF Outcome
<1>5. ASSUME NEW j \in 1..(i - 1) PROVE Outcome[accepted[j]] = "answered"
  <2>1. j \in DOMAIN accepted /\ j < i
    BY <1>3
  <2>2. accepted[j] \in Reqs
    BY <1>3, <2>1, ElementOfSeq DEF TypeOK
  <2>3. Before(accepted, accepted[j], cur)
    BY <1>2, <2>1 DEF Before
  <2> QED
    BY <2>2, <2>3, EarlierAnswered, OutcomeOf
<1>6. Outcome' = [Outcome EXCEPT ![accepted[i]] = "answered"]
  <2>1. ASSUME NEW r \in Reqs PROVE Outcome'[r] = IF r = cur THEN "answered" ELSE Outcome[r]
    <3>1. CASE r = cur
      <4>1. resp'[r] # None /\ resp'[r].res \in {"ok", "err"}
        BY <3>1, AnswerGiven
      <4> QED
        BY <3>1, <4>1 DEF Outcome, Answered
    <3>2. CASE r # cur
      <4>1. resp'[r] = resp[r]
        BY <3>2, AnswerGiven
      <4> QED
        BY <3>2, <4>1 DEF Outcome, Answered
    <3> QED
      BY <3>1, <3>2
  <2>2. Outcome' = [r \in Reqs |-> IF r = cur THEN "answered" ELSE Outcome[r]]
    BY <2>1 DEF Outcome
  <2>3. Outcome \in [Reqs -> {"none", "answered", "lost"}]
    BY DEF Outcome
  <2> QED
    BY <1>1, <1>2, <2>2, <2>3
<1>7. accepted' = accepted
  BY AnswerGiven
<1>8. Contract!Answer(i)
  BY <1>4, <1>5, <1>6, <1>7 DEF Contract!Answer, Outcome
<1> QED
  BY <1>8

LEMMA ContractStep ==
  ASSUME TypeOK, Placed, Lined, Ends, Losses, [Next]_vars
  PROVE  [Contract!Next]_(Contract!vars)
<1>1. ASSUME NEW c \in Calls, Send(c) \/ EnqueueRollback(c) PROVE Contract!Next
  <2>1. PICK r \in Reqs : accepted' = Append(accepted, r)
    BY <1>1, Queues
  <2>2. r \notin Members(accepted)
    <3>1. Placed'
      BY PlacedStep
    <3>2. Inj(Append(accepted, r)) /\ accepted \in Seq(Reqs)
      BY <2>1, <3>1 DEF Placed, Queued, TypeOK
    <3> QED
      BY <3>2, AppendNew
  <2>3. \A i \in DOMAIN accepted : accepted[i] # r
    BY <2>2, MembersDef
  <2>4. Outcome' = Outcome
    BY <1>1, Queues, OutcomeSame
  <2>5. Contract!Accept(r)
    BY <2>1, <2>3, <2>4 DEF Contract!Accept, Outcome
  <2> QED
    BY <2>5 DEF Contract!Next
<1>2. CASE WriterWriteErr \/ WriterDrain \/ WriterLeave
  <2>1. Contract!Lose
    BY <1>2, WriterFails, OutcomeLost
  <2> QED
    BY <2>1 DEF Contract!Next
<1>3. CASE ReaderAnswer /\ res \in {"ok", "err"}
  BY <1>3, ContractAnswer DEF Contract!Next
<1>4. CASE ReaderAnswer /\ res \notin {"ok", "err"}
  <2>1. PICK x \in Reqs : x = cur
    BY <1>4, AnswerGiven
  <2>2. Lost(x)' /\ resp[x] = None /\ x \in Members(accepted)
    BY <1>4, <2>1, AnswerGiven, PlacesAccepted DEF Lost, Answered
  <2>3. \A r \in Reqs \ {x} : resp'[r] = resp[r]
    BY <1>4, <2>1, AnswerGiven
  <2>4. accepted' = accepted
    BY <1>4, AnswerGiven
  <2>5. {x} \in SUBSET Reqs /\ \A r \in {x} : Lost(r)' /\ resp[r] = None /\ r \in Members(accepted)
    BY <2>2
  <2>6. Contract!Lose
    BY <2>3, <2>4, <2>5, OutcomeLost
  <2> QED
    BY <2>6 DEF Contract!Next
<1>5. ASSUME \/ DropHandle \/ (\E r \in Streams : StreamNext(r)) \/ ServerStep \/ Sever \/ UNCHANGED vars
             \/ \E c \in Calls : SendErr(c) \/ RollbackRefused(c) \/ GiveUp(c)
             \/ WriterRecv \/ WriterTryRecv \/ WriterPush
             \/ WriterNoMore \/ WriterWrite \/ WriterFlush \/ WriterNotify \/ WriterRecvNone \/ WriterExit
             \/ ReaderPop \/ ReaderPark \/ ReaderWake \/ CollectBuffered \/ CollectError \/ StreamRow \/ StreamDone
             \/ StreamError \/ DrainMsg \/ ReadReady \/ ReadEof \/ StreamSend \/ StreamSendErr
      PROVE  UNCHANGED Contract!vars
  <2>1. UNCHANGED <<accepted, resp>>
    BY <1>5, ReadReadyIs DEF DropHandle, StreamNext, ServerStep, Reply, HangUp, Sever, SendErr, RollbackRefused, GiveUp,
         WriterRecv, WriterTryRecv, WriterPush,
         WriterNoMore, WriterWrite, WriterFlush, WriterNotify, WriterRecvNone, WriterExit, ReaderPop, ReaderPark, ReaderWake,
         CollectBuffered, CollectError, StreamRow, StreamDone, StreamError, DrainMsg, ReadyHere, ReadEof,
         StreamSend, StreamSendErr, ReadOnly, vars, callVars
  <2>2. Outcome' = Outcome
    BY <2>1, OutcomeSame
  <2> QED
    BY <2>1, <2>2 DEF Contract!vars, Outcome
<1> QED
  BY <1>1, <1>2, <1>3, <1>4, <1>5 DEF Next, CallerStep, WriterStep, ReaderStep

LEMMA ContractInit == Init => Contract!Init /\ Lined /\ Losses
<1> SUFFICES ASSUME Init PROVE Contract!Init /\ Lined /\ Losses
  OBVIOUS
<1>1. Outcome = [r \in Reqs |-> "none"] /\ accepted = <<>>
  BY DEF Init, Outcome
<1>2. Contract!Init
  BY <1>1 DEF Contract!Init, Outcome
<1>3. InHand = {} /\ Members(chan) = {} /\ Members(batch) = {} /\ Members(pending) = {}
  BY EmptyMembers DEF Init, InHand
<1>4. Lined
  BY <1>3 DEF Lined, Rising, Below, Init
<1>5. Losses
  BY DEF Losses, Lost, Init, Reading
<1> QED
  BY <1>2, <1>4, <1>5

\* The connection implements its contract: however the writer and the reader run, and
\* wherever the socket dies, requests are answered in the order in which the channel
\* took them, and after one that is lost none is answered (async_conn.rs:1027-1213:
\* one batch, one queue, and a drain on every way out).
THEOREM ConnectionImplementsContract == Spec => ImplementsContract
<1>1. Init => Lined /\ Losses /\ Contract!Init
  BY ContractInit
<1>2. TypeOK /\ Placed /\ Lockstep /\ Lined /\ Losses /\ [Next]_vars => (Lined /\ Losses)'
  BY LinedStep, LossesStep DEF Lockstep
<1>3. TypeOK /\ Placed /\ Lockstep /\ Lined /\ Losses /\ [Next]_vars => [Contract!Next]_(Contract!vars)
  BY ContractStep DEF Lockstep
<1> QED
  BY <1>1, <1>2, <1>3, LockstepInvariant, PTL DEF Spec, ImplementsContract, Contract!Spec
=============================================================================
