--------------------------- MODULE ConnPoolProofs ---------------------------
(***************************************************************************)
(* What TLAPS proves of the connection pool, for every number of clients,  *)
(* connections and drainers and every configuration: the operators on      *)
(* queues that it is built from, types, and who owns which connection.     *)
(* Then the counters and the order of things: every step is one of a few   *)
(* kinds of bookkeeping (Booked), and from the kinds follow the exact      *)
(* counts, the capacity and the contract; who is served first, when        *)
(* drain() returns, and the counters of callers.                           *)
(***************************************************************************)
EXTENDS ConnPoolProperties, FiniteSetTheorems, SequenceTheorems, TLAPS

-----------------------------------------------------------------------------
(* The operators on queues.                                                *)

\* A set of n positions has an n-th smallest one: the rank of a position is an
\* injection into 1..n, hence onto it.
LEMMA NthExists ==
  ASSUME NEW I \in SUBSET Nat, IsFiniteSet(I), NEW n \in 1..Cardinality(I)
  PROVE  \E i \in I : Cardinality({j \in I : j <= i}) = n
<1> DEFINE N == Cardinality(I)
           rank == [i \in I |-> Cardinality({j \in I : j <= i})]
<1>1. N \in Nat
  BY FS_CardinalityType
<1>2. ASSUME NEW i \in I
      PROVE  rank[i] \in 1..N
  <2>1. {j \in I : j <= i} \in SUBSET I /\ i \in {j \in I : j <= i}
    OBVIOUS
  <2>2. /\ IsFiniteSet({j \in I : j <= i})
        /\ Cardinality({j \in I : j <= i}) \in Nat
        /\ Cardinality({j \in I : j <= i}) <= N
    BY <2>1, FS_Subset, FS_CardinalityType
  <2>3. Cardinality({j \in I : j <= i}) # 0
    BY <2>1, <2>2, FS_EmptySet
  <2> QED
    BY <1>1, <2>2, <2>3
<1>3. ASSUME NEW i \in I, NEW k \in I, i < k
      PROVE  rank[i] < rank[k]
  <2> DEFINE A == {j \in I : j <= i}
             B == {j \in I : j <= k}
  <2>1. /\ i \in Nat /\ k \in Nat /\ \A j \in I : j \in Nat
    OBVIOUS
  <2>2. \A j \in I : j <= i => j <= k
    BY <1>3, <2>1
  <2>3. A \in SUBSET B /\ k \in B /\ k \notin A
    <3>1. A \in SUBSET B
      BY <2>2
    <3>2. k <= k /\ ~(k <= i)
      BY <1>3, <2>1
    <3> QED
      BY <3>1, <3>2
  <2>4. IsFiniteSet(A) /\ IsFiniteSet(B)
    <3>1. A \in SUBSET I /\ B \in SUBSET I
      OBVIOUS
    <3> QED
      BY <3>1, FS_Subset
  <2>5. Cardinality(A) <= Cardinality(B) /\ Cardinality(A) # Cardinality(B)
    BY <2>3, <2>4, FS_Subset
  <2>6. Cardinality(A) \in Nat /\ Cardinality(B) \in Nat
    BY <2>4, FS_CardinalityType
  <2>7. rank[i] = Cardinality(A) /\ rank[k] = Cardinality(B)
    OBVIOUS
  <2> QED
    BY <2>5, <2>6, <2>7
<1>4. rank \in Injection(I, 1..N)
  <2>1. rank \in [I -> 1..N]
    BY <1>2
  <2>2. ASSUME NEW i \in I, NEW k \in I, rank[i] = rank[k]
        PROVE  i = k
    <3>1. rank[i] \in Int /\ rank[k] \in Int
      BY <1>2
    <3>2. ~(i < k) /\ ~(k < i)
      BY <1>3, <2>2, <3>1
    <3> QED
      BY <3>2
  <2> QED
    BY <2>1, <2>2 DEF Injection, IsInjective
<1>5. IsFiniteSet(1..N) /\ Cardinality(1..N) = N
  BY <1>1, FS_Interval
<1>6. rank \in Surjection(I, 1..N)
  BY <1>4, <1>5, FS_Injection
<1>7. \E i \in I : rank[i] = n
  BY <1>6 DEF Surjection
<1> QED
  BY <1>7

\* At(q, I) picks the entries of q at the positions in I, each once.
LEMMA AtProperties ==
  ASSUME NEW S, NEW q \in Seq(S), NEW I \in SUBSET (DOMAIN q)
  PROVE  /\ At(q, I) \in Seq(S)
         /\ Len(At(q, I)) <= Len(q)
         /\ \A n \in DOMAIN At(q, I) : Nth(I, n) \in I /\ At(q, I)[n] = q[Nth(I, n)]
         /\ \A n, m \in DOMAIN At(q, I) : Nth(I, n) = Nth(I, m) => n = m
         /\ \A i \in I : \E n \in DOMAIN At(q, I) : At(q, I)[n] = q[i]
<1> DEFINE N == Cardinality(I)
           nth == [n \in 1..N |-> Nth(I, n)]
<1>1. /\ Len(q) \in Nat /\ DOMAIN q = 1..Len(q) /\ q \in [1..Len(q) -> S]
  BY LenProperties
<1>2. IsFiniteSet(DOMAIN q) /\ Cardinality(DOMAIN q) = Len(q)
  <2>1. \A n \in Nat : IsFiniteSet(1..n) /\ Cardinality(1..n) = n
    BY FS_Interval
  <2> QED
    BY <1>1, <2>1
<1>3. IsFiniteSet(I) /\ N \in Nat /\ N <= Len(q)
  BY <1>2, FS_Subset, FS_CardinalityType
<1>4. I \in SUBSET Nat
  BY <1>1
<1>5. ASSUME NEW n \in 1..N
      PROVE  Nth(I, n) \in I /\ Cardinality({j \in I : j <= Nth(I, n)}) = n
  BY <1>3, <1>4, NthExists DEF Nth
<1>6. DOMAIN At(q, I) = 1..N /\ \A n \in 1..N : At(q, I)[n] = q[Nth(I, n)]
  BY DEF At
<1>7. At(q, I) \in [1..N -> S]
  BY <1>1, <1>5 DEF At
<1>8. At(q, I) \in Seq(S)
  BY <1>3, <1>7, SeqDef
<1>9. Len(At(q, I)) = N
  BY <1>3, <1>6, <1>8, LenProperties
<1>10. \A n, m \in 1..N : Nth(I, n) = Nth(I, m) => n = m
  BY <1>5
<1>11. nth \in Injection(1..N, I)
  BY <1>5, <1>10 DEF Injection, IsInjective
<1>12. nth \in Surjection(1..N, I)
  BY <1>3, <1>11, FS_Injection, FS_Interval
<1>13. ASSUME NEW i \in I
       PROVE  \E n \in DOMAIN At(q, I) : At(q, I)[n] = q[i]
  <2>1. PICK n \in 1..N : nth[n] = i
    BY <1>12 DEF Surjection
  <2> QED
    BY <1>6, <2>1
<1> QED
  BY <1>3, <1>5, <1>6, <1>8, <1>9, <1>10, <1>13

\* VecDeque::retain keeps entries of S only, keeps all of them, and keeps no
\* entry twice.
LEMMA RetainProperties ==
  ASSUME NEW S, NEW q \in Seq(S), NEW T
  PROVE  /\ Retain(q, T) \in Seq(S)
         /\ Len(Retain(q, T)) <= Len(q)
         /\ \A n \in DOMAIN Retain(q, T) : Retain(q, T)[n] \in T
         /\ \A n \in DOMAIN Retain(q, T) : \E i \in DOMAIN q : Retain(q, T)[n] = q[i]
         /\ \A i \in DOMAIN q : q[i] \in T => \E n \in DOMAIN Retain(q, T) : Retain(q, T)[n] = q[i]
         /\ \A X : (\A i, j \in DOMAIN q : q[i] = q[j] /\ q[i] \in X => i = j)
              => \A n, m \in DOMAIN Retain(q, T) :
                   Retain(q, T)[n] = Retain(q, T)[m] /\ Retain(q, T)[n] \in X => n = m
<1> DEFINE I == {i \in DOMAIN q : q[i] \in T}
           r == At(q, I)
<1>1. I \in SUBSET (DOMAIN q) /\ Retain(q, T) = r
  BY DEF Retain
<1>2. /\ r \in Seq(S)
      /\ Len(r) <= Len(q)
      /\ \A n \in DOMAIN r : Nth(I, n) \in I /\ r[n] = q[Nth(I, n)]
      /\ \A n, m \in DOMAIN r : Nth(I, n) = Nth(I, m) => n = m
      /\ \A i \in I : \E n \in DOMAIN r : r[n] = q[i]
  <2> HIDE DEF I
  <2> QED
    BY <1>1, AtProperties
<1>3. \A i \in I : i \in DOMAIN q /\ q[i] \in T
  OBVIOUS
<1>4. \A i \in DOMAIN q : q[i] \in T => i \in I
  OBVIOUS
<1> HIDE DEF I, r
<1>5. ASSUME NEW X, \A i, j \in DOMAIN q : q[i] = q[j] /\ q[i] \in X => i = j,
             NEW n \in DOMAIN r, NEW m \in DOMAIN r, r[n] = r[m], r[n] \in X
      PROVE  n = m
  BY <1>2, <1>3, <1>5
<1> QED
  BY <1>1, <1>2, <1>3, <1>4, <1>5

\* What is left of a queue behind its i-th entry.
LEMMA SuffixProperties ==
  ASSUME NEW S, NEW q \in Seq(S), NEW i \in DOMAIN q
  PROVE  /\ SubSeq(q, i + 1, Len(q)) \in Seq(S)
         /\ Len(SubSeq(q, i + 1, Len(q))) = Len(q) - i
         /\ DOMAIN SubSeq(q, i + 1, Len(q)) = 1..(Len(q) - i)
         /\ \A n \in 1..(Len(q) - i) :
              n + i \in DOMAIN q /\ SubSeq(q, i + 1, Len(q))[n] = q[n + i]
<1> DEFINE r == SubSeq(q, i + 1, Len(q))
<1>1. Len(q) \in Nat /\ DOMAIN q = 1..Len(q) /\ \A j \in 1..Len(q) : q[j] \in S
  BY LenProperties, ElementOfSeq
<1>2. i \in Nat /\ 1 <= i /\ i <= Len(q)
  BY <1>1
<1>3. \A j \in (i + 1)..Len(q) : q[j] \in S
  BY <1>1, <1>2
<1>4. /\ r \in Seq(S)
      /\ Len(r) = IF i + 1 <= Len(q) THEN Len(q) - (i + 1) + 1 ELSE 0
      /\ \A n \in 1..(Len(q) - (i + 1) + 1) : r[n] = q[i + 1 + n - 1]
  BY <1>1, <1>2, <1>3, SubSeqProperties
<1>5. Len(r) = Len(q) - i
  BY <1>1, <1>2, <1>4
<1>6. DOMAIN r = 1..(Len(q) - i)
  BY <1>4, <1>5, LenProperties
<1>7. ASSUME NEW n \in 1..(Len(q) - i)
      PROVE  n + i \in DOMAIN q /\ r[n] = q[n + i]
  <2>1. n \in 1..(Len(q) - (i + 1) + 1) /\ i + 1 + n - 1 = n + i
    BY <1>1, <1>2
  <2>2. r[n] = q[n + i]
    BY <1>4, <2>1
  <2>3. n + i \in 1..Len(q)
    BY <1>1, <1>2
  <2> QED
    BY <1>1, <2>2, <2>3
<1> HIDE DEF r
<1>8. /\ r \in Seq(S) /\ Len(r) = Len(q) - i /\ DOMAIN r = 1..(Len(q) - i)
      /\ \A n \in 1..(Len(q) - i) : n + i \in DOMAIN q /\ r[n] = q[n + i]
  BY <1>4, <1>5, <1>6, <1>7
<1> QED
  BY <1>8 DEF r

\* A queue with one more entry.
LEMMA AppendFacts ==
  ASSUME NEW S, NEW q \in Seq(S), NEW e \in S
  PROVE  /\ Append(q, e) \in Seq(S)
         /\ Len(Append(q, e)) = Len(q) + 1
         /\ DOMAIN Append(q, e) = 1..(Len(q) + 1)
         /\ \A n \in 1..(Len(q) + 1) :
              Append(q, e)[n] = IF n = Len(q) + 1 THEN e ELSE q[n]
<1>1. /\ Append(q, e) \in Seq(S) /\ Len(Append(q, e)) = Len(q) + 1
      /\ \A n \in 1..Len(q) : Append(q, e)[n] = q[n]
      /\ Append(q, e)[Len(q) + 1] = e
  BY AppendProperties
<1>2. Len(q) \in Nat /\ DOMAIN Append(q, e) = 1..(Len(q) + 1)
  BY <1>1, LenProperties
<1> QED
  BY <1>1, <1>2

\* The subtraction of AtomicUsize wraps: it stays a natural number.
LEMMA SubType ==
  ASSUME NEW n \in Nat, NEW m \in Nat
  PROVE  Sub(n, m) \in Nat
<1>1. UsizeMax + 1 \in Nat /\ UsizeMax + 1 > 0
  BY ConfigAssumption
<1>2. \A a \in Int, b \in Nat : b > 0 => a % b \in Nat
  OBVIOUS
<1>3. n - m \in Int
  OBVIOUS
<1> QED
  BY <1>1, <1>2, <1>3 DEF Sub

LEMMA IncType == \A n \in Nat : Inc(n) \in Nat
BY DEF Inc

LEMMA IncExact == \A n \in Nat : n < UsizeMax => Inc(n) = n + 1
BY ConfigAssumption DEF Inc

-----------------------------------------------------------------------------
(* Types, and what the label of a task says of its other variables.        *)

\* The initial states are typed, and no task owns anything.
LEMMA InitTyped == Init => TypeOK /\ Whereabouts
<1> SUFFICES ASSUME Init PROVE TypeOK /\ Whereabouts
  OBVIOUS
<1>1. idle \in Seq(Conns)
  BY SeqDef, ConfigAssumption DEF Init
<1>2. Len(idle) \in Nat
  BY <1>1, LenProperties
<1>3. TypeOK
  BY <1>1, <1>2, TaskAssumption, EmptySeq
     DEF Init, TypeOK, DataOK, LabelsOK, Tasks, ClientPC, ReturnPC, MaintPC, DrainPC, WarmPC
<1>4. Whereabouts
  BY TaskAssumption DEF Init, Whereabouts, HandsOK, ChannelsOK, LoopsOK, Tasks
<1> QED
  BY <1>3, <1>4

\* try_get_idle hands out an entry of the idle queue and keeps those behind it.
LEMMA TakeIdleData ==
  ASSUME DataOK, NEW c \in Clients, TakeIdle(c)
  PROVE  DataOK'
<1>1. PICK i \in DOMAIN idle :
        /\ hand' = [hand EXCEPT ![c] = idle[i]]
        /\ idle' = SubSeq(idle, i + 1, Len(idle))
        /\ total_count' = Sub(total_count, i - 1)
  BY DEF TakeIdle
<1>2. idle \in Seq(Conns) /\ total_count \in Nat
  BY DEF DataOK
<1>3. idle[i] \in Conns /\ i - 1 \in Nat
  BY <1>2, LenProperties, ElementOfSeq
<1>4. idle' \in Seq(Conns)
  BY <1>1, <1>2, SuffixProperties
<1>5. total_count' \in Nat
  BY <1>1, <1>2, <1>3, SubType
<1>6. broken' \subseteq Conns /\ expired' \subseteq Conns
  BY DEF DataOK, TakeIdle, Forget
<1> QED
  BY <1>1, <1>3, <1>4, <1>5, <1>6 DEF DataOK, TakeIdle

\* The actions that empty a queue.
LEMMA NoIdleData ==
  ASSUME DataOK, NEW c \in Clients, NoIdle(c)
  PROVE  DataOK'
<1>1. idle' \in Seq(Conns) /\ Len(idle) \in Nat
  BY EmptySeq, LenProperties DEF DataOK, NoIdle
<1>2. total_count' \in Nat
  BY <1>1, SubType DEF DataOK, NoIdle
<1> QED
  BY <1>1, <1>2 DEF DataOK, NoIdle, Forget

LEMMA DrainIdleData ==
  ASSUME DataOK, NEW d \in Drainers, DrainIdle(d)
  PROVE  DataOK'
<1>1. idle' \in Seq(Conns) /\ Len(idle) \in Nat
  BY EmptySeq, LenProperties DEF DataOK, DrainIdle
<1>2. total_count' \in Nat
  BY <1>1, SubType DEF DataOK, DrainIdle
<1> QED
  BY <1>1, <1>2 DEF DataOK, DrainIdle, Forget

LEMMA DrainWaitersData ==
  ASSUME DataOK, NEW d \in Drainers, DrainWaiters(d)
  PROVE  DataOK'
<1>1. waiters' \in Seq(Clients \cup {Closed}) /\ Len(waiters) \in Nat
  BY EmptySeq, LenProperties DEF DataOK, DrainWaiters
<1>2. waiter_count' \in Nat
  BY <1>1, SubType DEF DataOK, DrainWaiters
<1> QED
  BY <1>1, <1>2 DEF DataOK, DrainWaiters

\* retain, on the waiter queue and on the idle queue.
LEMMA PruneData ==
  ASSUME DataOK, NEW c \in Clients, Prune(c)
  PROVE  DataOK'
<1>1. waiters' \in Seq(Clients \cup {Closed})
  BY RetainProperties DEF DataOK, Prune
<1>2. waiter_count' \in Nat
  BY SubType DEF DataOK, Prune
<1> QED
  BY <1>1, <1>2 DEF DataOK, Prune

LEMMA MaintEvictData ==
  ASSUME DataOK, MaintEvict
  PROVE  DataOK'
<1>1. idle \in Seq(Conns) /\ idle' = Retain(idle, Conns \ expired)
  BY DEF DataOK, MaintEvict
<1>2. idle' \in Seq(Conns) /\ Len(idle') <= Len(idle)
  BY <1>1, RetainProperties
<1>3. Len(idle) - Len(idle') \in Nat
  BY <1>1, <1>2, LenProperties
<1>4. total_count' \in Nat
  BY <1>3, SubType DEF DataOK, MaintEvict
<1> QED
  BY <1>2, <1>4 DEF DataOK, MaintEvict, Forget

\* A receiver that goes away closes its queue entries.
LEMMA DropReceiverData ==
  ASSUME DataOK, NEW c \in Clients, DropReceiver(c)
  PROVE  /\ waiters' \in Seq(Clients \cup {Closed}) /\ rx' \in [Clients -> Conns \cup {None, Closed}]
         /\ leaked' \in Nat /\ broken' \subseteq Conns /\ expired' \subseteq Conns
<1>1. waiters \in Seq(Clients \cup {Closed})
  BY DEF DataOK
<1>2. /\ Len(waiters) \in Nat /\ DOMAIN waiters = 1..Len(waiters)
      /\ \A i \in 1..Len(waiters) : waiters[i] \in Clients \cup {Closed}
  BY <1>1, LenProperties, ElementOfSeq
<1>3. waiters' \in [1..Len(waiters) -> Clients \cup {Closed}]
  BY <1>2 DEF DropReceiver
<1>4. waiters' \in Seq(Clients \cup {Closed})
  BY <1>2, <1>3, SeqDef
<1> QED
  BY <1>4 DEF DataOK, DropReceiver, Forget

LEMMA CancelParkedData ==
  ASSUME DataOK, NEW c \in Clients, CancelParked(c)
  PROVE  DataOK'
<1>1. waiter_count' \in Nat
  BY SubType DEF DataOK, CancelParked
<1>2. DropReceiver(c)
  BY DEF CancelParked
<1> QED
  BY <1>1, <1>2, DropReceiverData DEF DataOK, CancelParked

LEMMA TimeoutDropData ==
  ASSUME DataOK, NEW c \in Clients, TimeoutDrop(c)
  PROVE  DataOK'
<1>1. DropReceiver(c)
  BY DEF TimeoutDrop
<1> QED
  BY <1>1, DropReceiverData DEF DataOK, TimeoutDrop

\* What is pushed on the idle queue is a connection: the label says so.
LEMMA PushData ==
  ASSUME DataOK, HandsOK, NEW t \in Tasks, pc[t] \in {"ppush", "mpush", "wpush"}
  PROVE  Append(idle, hand[t]) \in Seq(Conns)
<1>1. hand[t] \in Conns /\ idle \in Seq(Conns)
  BY DEF DataOK, HandsOK
<1> QED
  BY <1>1, AppendProperties

LEMMA ProvisionPushData ==
  ASSUME DataOK, HandsOK, NEW k \in Conns, ProvisionPush(k)
  PROVE  DataOK'
<1>1. idle' \in Seq(Conns)
  BY PushData DEF ProvisionPush, Tasks
<1> QED
  BY <1>1 DEF DataOK, ProvisionPush

LEMMA MaintPushData ==
  ASSUME DataOK, HandsOK, LoopsOK, MaintPush
  PROVE  DataOK'
<1>1. idle' \in Seq(Conns)
  BY PushData DEF MaintPush, Tasks
<1>2. left[Maint] \in Nat /\ left[Maint] > 0
  BY DEF DataOK, LoopsOK, MaintPush
<1>3. left[Maint] - 1 \in Nat
  BY <1>2
<1> QED
  BY <1>1, <1>3 DEF DataOK, MaintPush

LEMMA WarmPushData ==
  ASSUME DataOK, HandsOK, NEW w \in Warmers, WarmPush(w)
  PROVE  DataOK'
<1>1. idle' \in Seq(Conns)
  BY PushData DEF WarmPush, Tasks
<1> QED
  BY <1>1 DEF DataOK, WarmPush

LEMMA WarmCountData ==
  ASSUME DataOK, LoopsOK, NEW w \in Warmers, WarmCount(w)
  PROVE  DataOK'
<1>1. left[w] \in Nat /\ left[w] > 0
  BY DEF DataOK, LoopsOK, WarmCount
<1>2. left[w] - 1 \in Nat
  BY <1>1
<1> QED
  BY <1>2, IncType DEF DataOK, WarmCount

\* min(), saturating_sub and the number of connections a refill asks for.
LEMMA RefillType ==
  ASSUME NEW n \in Nat, NEW m \in Nat
  PROVE  RefillCount(n, m) \in Nat /\ SaturatingSub(n, m) \in Nat /\ Least(n, m) \in Nat
BY ConfigAssumption DEF RefillCount, SaturatingSub, Least

LEMMA MaintLoadInUseData ==
  ASSUME DataOK, MaintLoadInUse
  PROVE  DataOK'
<1>1. left[Maint] \in Nat /\ in_use_count \in Nat
  BY DEF DataOK
<1>2. RefillCount(left[Maint], in_use_count) \in Nat
  BY <1>1, RefillType
<1> QED
  BY <1>2 DEF DataOK, MaintLoadInUse

\* warm_up() creates nothing, or enters its loop with something to create.
LEMMA WarmBeginTyped ==
  ASSUME TypeOK, Whereabouts, NEW w \in Warmers, WarmBegin(w)
  PROVE  TypeOK' /\ Whereabouts'
<1> USE TaskAssumption DEF TypeOK, DataOK, LabelsOK, Whereabouts, HandsOK, ChannelsOK, LoopsOK, Tasks, Goto
<1> DEFINE short == SaturatingSub(WarmTarget, total_count)
           n == IF total_count <= MaxSize THEN Least(short, MaxSize - total_count) ELSE short
<1>1. total_count \in Nat /\ MaxSize \in Nat /\ WarmTarget \in Nat
  BY ConfigAssumption
<1>2. short \in Nat
  BY <1>1, RefillType
<1>3. n \in Nat
  <2>1. CASE total_count <= MaxSize
    <3>1. MaxSize - total_count \in Nat
      BY <1>1, <2>1
    <3> QED
      BY <1>2, <2>1, <3>1, RefillType
  <2>2. CASE ~(total_count <= MaxSize)
    BY <1>2, <2>2
  <2> QED
    BY <2>1, <2>2
<1>4. CASE left' = [left EXCEPT ![w] = n] /\ pc' = [pc EXCEPT ![w] = IF n > 0 THEN "wconnect" ELSE "warm"]
  <2> HIDE DEF n
  <2> QED
    BY <1>3, <1>4 DEF WarmBegin, WarmPC
<1>5. CASE left' = left /\ pc' = [pc EXCEPT ![w] = "warm"]
  BY <1>5 DEF WarmBegin, WarmPC
<1>6. \/ left' = [left EXCEPT ![w] = n] /\ pc' = [pc EXCEPT ![w] = IF n > 0 THEN "wconnect" ELSE "warm"]
      \/ left' = left /\ pc' = [pc EXCEPT ![w] = "warm"]
  BY DEF WarmBegin
<1> QED
  BY <1>4, <1>5, <1>6

\* A dropped guard starts the return task of its connection.
LEMMA DropGuardTyped ==
  ASSUME TypeOK, Whereabouts, OneOwner, NEW c \in Clients, DropGuard(c)
  PROVE  TypeOK' /\ Whereabouts'
<1> USE TaskAssumption DEF TypeOK, DataOK, LabelsOK, Whereabouts, HandsOK, ChannelsOK, LoopsOK, Tasks
<1>1. hand[c] \in Conns
  BY DEF DropGuard
<1>2. pc' = [pc EXCEPT ![c] = "out", ![hand[c]] = "start"] /\ hand' = [hand EXCEPT ![c] = None]
  BY DEF DropGuard
<1>3. DataOK'
  BY <1>2 DEF DropGuard
<1>4. LabelsOK'
  BY <1>1, <1>2 DEF ClientPC, ReturnPC
<1>5. /\ pc'[c] = "out" /\ pc'[hand[c]] = "start" /\ hand'[c] = None
      /\ \A t \in Tasks \ {c, hand[c]} : pc'[t] = pc[t] /\ hand'[t] = hand[t]
  BY <1>1, <1>2
<1>6. HandsOK'
  <2>1. hand[hand[c]] = None
    BY <1>1 DEF OneOwner
  <2>2. hand'[hand[c]] = None
    BY <1>1, <1>2, <2>1
  <2> QED
    BY <1>1, <1>5, <2>2
<1>7. ChannelsOK'
  <2>1. rx' = rx /\ pc[c] = "held"
    BY DEF DropGuard
  <2> QED
    BY <1>1, <1>5, <2>1
<1>8. LoopsOK'
  <2>1. left' = left /\ \A t \in Warmers \cup {Maint} : t # c /\ t # hand[c]
    BY <1>1 DEF DropGuard
  <2> QED
    BY <1>5, <2>1
<1> QED
  BY <1>3, <1>4, <1>6, <1>7, <1>8

\* notify_one moves a waiting drain() on, or stores its permit.
LEMMA MaybeNotifyDrainTyped ==
  ASSUME TypeOK, Whereabouts, NEW k \in Conns, MaybeNotifyDrain(k)
  PROVE  TypeOK' /\ Whereabouts'
<1> USE TaskAssumption DEF TypeOK, DataOK, LabelsOK, Whereabouts, HandsOK, ChannelsOK, LoopsOK, Tasks
<1>1. permit' \in BOOLEAN
  BY DEF MaybeNotifyDrain, NotifyOne
<1>2. \/ pc' = [pc EXCEPT ![k] = "none"]
      \/ \E d \in Drainers : pc[d] = "await" /\ pc' = [pc EXCEPT ![k] = "none", ![d] = "zero"]
  BY DEF MaybeNotifyDrain, NotifyOne, Goto
<1>3. DataOK'
  BY <1>1 DEF MaybeNotifyDrain, Forget
<1>4. CASE pc' = [pc EXCEPT ![k] = "none"]
  BY <1>3, <1>4 DEF MaybeNotifyDrain, ReturnPC
<1>5. ASSUME NEW d \in Drainers, pc[d] = "await", pc' = [pc EXCEPT ![k] = "none", ![d] = "zero"]
      PROVE  LabelsOK' /\ Whereabouts'
  <2>1. pc'[k] = "none" /\ pc'[d] = "zero" /\ \A t \in Tasks \ {k, d} : pc'[t] = pc[t]
    BY <1>5
  <2>2. LabelsOK'
    <3>1. pc' \in [Tasks -> ClientPC \cup ReturnPC \cup MaintPC \cup DrainPC \cup WarmPC]
      BY <1>5 DEF ReturnPC, DrainPC
    <3>2. "none" \in ReturnPC /\ "zero" \in DrainPC
      BY DEF ReturnPC, DrainPC
    <3> QED
      BY <2>1, <3>1, <3>2, ZenonT(40)
  <2>3. HandsOK'
    BY <1>5, <2>1 DEF MaybeNotifyDrain
  <2>4. ChannelsOK' /\ LoopsOK'
    BY <2>1 DEF MaybeNotifyDrain
  <2> QED
    BY <2>2, <2>3, <2>4
<1> QED
  BY <1>2, <1>3, <1>4, <1>5

\* The channel that is answered belongs to a client that still waits.
LEMMA SendToWaiterData ==
  ASSUME TypeOK, LiveEntries, NEW k \in Conns, SendToWaiter(k)
  PROVE  /\ waiters' \in Seq(Clients \cup {Closed})
         /\ \E c \in Clients : rx[c] = None /\ pc[c] \in {"parked", "expire"} /\ rx' = [rx EXCEPT ![c] = k]
<1>1. PICK i \in DOMAIN waiters :
        /\ waiters[i] \in Clients
        /\ rx' = [rx EXCEPT ![waiters[i]] = k]
        /\ waiters' = SubSeq(waiters, i + 1, Len(waiters))
  BY DEF SendToWaiter
<1>2. waiters' \in Seq(Clients \cup {Closed})
  BY <1>1, SuffixProperties DEF TypeOK, DataOK
<1> QED
  BY <1>1, <1>2 DEF LiveEntries

LEMMA ReturnSendTyped ==
  ASSUME TypeOK, Whereabouts, LiveEntries, NEW k \in Conns, ReturnSend(k)
  PROVE  TypeOK' /\ Whereabouts'
<1> USE TaskAssumption DEF TypeOK, DataOK, LabelsOK, Whereabouts, HandsOK, ChannelsOK, LoopsOK, Tasks
<1>1. waiters' \in Seq(Clients \cup {Closed})
  BY SendToWaiterData DEF ReturnSend
<1>2. PICK c \in Clients : pc[c] \in {"parked", "expire"} /\ rx' = [rx EXCEPT ![c] = k]
  BY SendToWaiterData DEF ReturnSend
<1>3. pc' = [pc EXCEPT ![k] = "none"]
  BY DEF ReturnSend, Goto
<1> QED
  BY <1>1, <1>2, <1>3 DEF ReturnSend, ReturnPC

LEMMA ProvisionSendTyped ==
  ASSUME TypeOK, Whereabouts, LiveEntries, NEW k \in Conns, ProvisionSend(k)
  PROVE  TypeOK' /\ Whereabouts'
<1> USE TaskAssumption DEF TypeOK, DataOK, LabelsOK, Whereabouts, HandsOK, ChannelsOK, LoopsOK, Tasks
<1>0. hand[k] \in Conns /\ SendToWaiter(hand[k])
  BY DEF ProvisionSend
<1>1. waiters' \in Seq(Clients \cup {Closed})
  BY <1>0, SendToWaiterData
<1>2. PICK c \in Clients : pc[c] \in {"parked", "expire"} /\ rx' = [rx EXCEPT ![c] = hand[k]]
  BY <1>0, SendToWaiterData
<1>3. pc' = [pc EXCEPT ![k] = "notify"] /\ hand' = [hand EXCEPT ![k] = None]
  BY DEF ProvisionSend, Goto
<1> QED
  BY <1>0, <1>1, <1>2, <1>3 DEF ProvisionSend, ReturnPC

\* drain() closes the channels of the clients in the queue only.
LEMMA DrainWaitersChannels ==
  ASSUME TypeOK, Whereabouts, LiveEntries, NEW d \in Drainers, DrainWaiters(d)
  PROVE  ChannelsOK'
<1>1. ASSUME NEW c \in Clients, rx'[c] # None
      PROVE  pc[c] \in {"parked", "expire"}
  <2>1. CASE c \in Elems(waiters)
    BY <2>1 DEF LiveEntries, Elems
  <2>2. CASE c \notin Elems(waiters)
    BY <1>1, <2>2 DEF Whereabouts, ChannelsOK, DrainWaiters
  <2> QED
    BY <2>1, <2>2
<1>2. \A c \in Clients : pc'[c] = pc[c]
  BY TaskAssumption DEF DrainWaiters, Goto, TypeOK, LabelsOK, Tasks
<1> QED
  BY <1>1, <1>2 DEF ChannelsOK

\* The optimistic increment of create_and_track.
LEMMA AdmitTyped ==
  ASSUME TypeOK, Whereabouts, NEW t \in Creators, Admit(t)
  PROVE  TypeOK' /\ Whereabouts'
<1>1. DataOK'
  BY IncType DEF TypeOK, DataOK, Admit, Tasks, Creators
<1>2. LabelsOK'
  BY TaskAssumption DEF TypeOK, LabelsOK, Admit, Goto, Tasks, Creators, AfterCreate,
     AfterRefusal, ClientPC, ReturnPC, MaintPC
<1>3. HandsOK'
  BY TaskAssumption DEF TypeOK, Whereabouts, DataOK, LabelsOK, HandsOK, Admit, Goto, Tasks,
     Creators, AfterCreate, AfterRefusal, ClientPC, ReturnPC, MaintPC
<1>4. ChannelsOK'
  BY TaskAssumption DEF TypeOK, Whereabouts, DataOK, LabelsOK, ChannelsOK, Admit, Goto, Tasks,
     Creators, AfterCreate, AfterRefusal, ClientPC, ReturnPC, MaintPC
<1>5. LoopsOK'
  BY TaskAssumption DEF TypeOK, Whereabouts, DataOK, LabelsOK, LoopsOK, Admit, Goto, Tasks,
     Creators, AfterCreate, AfterRefusal, ClientPC, ReturnPC, MaintPC
<1> QED
  BY <1>1, <1>2, <1>3, <1>4, <1>5 DEF TypeOK, Whereabouts

\* A refused reservation is rolled back.
LEMMA RollBackTyped ==
  ASSUME TypeOK, Whereabouts, NEW t \in Creators, RollBack(t)
  PROVE  TypeOK' /\ Whereabouts'
<1>1. DataOK'
  BY SubType DEF TypeOK, DataOK, RollBack, AfterRefusal, BreakLoop, Tasks, Creators
<1>2. LabelsOK'
  BY TaskAssumption DEF TypeOK, LabelsOK, RollBack, Goto, AfterRefusal, BreakLoop, Tasks,
     Creators, AfterCreate, ClientPC, ReturnPC, MaintPC
<1>3. HandsOK'
  BY TaskAssumption DEF TypeOK, Whereabouts, DataOK, LabelsOK, HandsOK, RollBack, Goto,
     AfterRefusal, BreakLoop, Tasks, Creators, AfterCreate, ClientPC, ReturnPC, MaintPC
<1>4. ChannelsOK'
  BY TaskAssumption DEF TypeOK, Whereabouts, DataOK, LabelsOK, ChannelsOK, RollBack, Goto,
     AfterRefusal, BreakLoop, Tasks, Creators, AfterCreate, ClientPC, ReturnPC, MaintPC
<1>5. LoopsOK'
  BY TaskAssumption DEF TypeOK, Whereabouts, DataOK, LabelsOK, LoopsOK, RollBack, Goto,
     AfterRefusal, BreakLoop, Tasks, Creators, AfterCreate, ClientPC, ReturnPC, MaintPC
<1> QED
  BY <1>1, <1>2, <1>3, <1>4, <1>5 DEF TypeOK, Whereabouts

\* warm_up() connects, or gives up.
LEMMA WarmConnectTyped ==
  ASSUME TypeOK, Whereabouts, NEW w \in Warmers, WarmConnect(w)
  PROVE  TypeOK' /\ Whereabouts'
<1>1. DataOK'
  BY DEF TypeOK, DataOK, WarmConnect, Free, BreakLoop, Tasks
<1>2. LabelsOK'
  BY TaskAssumption DEF TypeOK, LabelsOK, WarmConnect, Goto, Free, BreakLoop, Tasks, WarmPC
<1>3. HandsOK'
  BY TaskAssumption DEF TypeOK, Whereabouts, DataOK, LabelsOK, HandsOK, WarmConnect, Goto,
     Free, BreakLoop, Tasks, WarmPC
<1>4. ChannelsOK'
  BY TaskAssumption DEF TypeOK, Whereabouts, DataOK, LabelsOK, ChannelsOK, WarmConnect, Goto,
     Free, BreakLoop, Tasks, WarmPC
<1>5. LoopsOK'
  BY TaskAssumption DEF TypeOK, Whereabouts, DataOK, LabelsOK, LoopsOK, WarmConnect, Goto,
     Free, BreakLoop, Tasks, WarmPC
<1> QED
  BY <1>1, <1>2, <1>3, <1>4, <1>5 DEF TypeOK, Whereabouts

\* warm_up() counts what it pushed.
LEMMA WarmCountTyped ==
  ASSUME TypeOK, Whereabouts, NEW w \in Warmers, WarmCount(w)
  PROVE  TypeOK' /\ Whereabouts'
<1>1. DataOK'
  BY WarmCountData DEF TypeOK, Whereabouts
<1>2. LabelsOK'
  BY TaskAssumption DEF TypeOK, LabelsOK, WarmCount, Goto, Tasks, WarmPC
<1>3. HandsOK'
  BY TaskAssumption DEF TypeOK, Whereabouts, DataOK, LabelsOK, HandsOK, WarmCount, Goto, Tasks,
     WarmPC
<1>4. ChannelsOK'
  BY TaskAssumption DEF TypeOK, Whereabouts, DataOK, LabelsOK, ChannelsOK, WarmCount, Goto,
     Tasks, WarmPC
<1>5. LoopsOK'
  BY TaskAssumption DEF TypeOK, Whereabouts, DataOK, LabelsOK, LoopsOK, WarmCount, Goto, Tasks,
     WarmPC
<1> QED
  BY <1>1, <1>2, <1>3, <1>4, <1>5 DEF TypeOK, Whereabouts

\* Every step keeps the types, and the labels honest.
LEMMA StepTyped ==
  ASSUME TypeOK, Whereabouts, LiveEntries, OneOwner, [Next]_vars
  PROVE  TypeOK' /\ Whereabouts'
<1> USE TaskAssumption DEF TypeOK, DataOK, LabelsOK, Whereabouts, HandsOK, ChannelsOK, LoopsOK,
                           Tasks, Goto
<1>1. ASSUME NEW t \in Creators, Admit(t) PROVE TypeOK' /\ Whereabouts'
  BY <1>1, AdmitTyped
<1>2. ASSUME NEW t \in Creators, Refuse(t) PROVE TypeOK' /\ Whereabouts'
  <2>1. Inc(total_count) \in Nat
    BY IncType
  <2> QED
    BY <1>2, <2>1, SMTT(40) DEF Refuse, Creators, AfterCreate, AfterRefusal, ClientPC, ReturnPC, MaintPC
<1>3. ASSUME NEW t \in Creators, RollBack(t) PROVE TypeOK' /\ Whereabouts'
  BY <1>3, RollBackTyped
<1>4. ASSUME NEW t \in Creators, ConnectOk(t) PROVE TypeOK' /\ Whereabouts'
  BY <1>4 DEF ConnectOk, AfterCreate, Free, Creators, AfterRefusal, ClientPC, ReturnPC, MaintPC
<1>5. ASSUME NEW t \in Creators, ConnectErr(t) PROVE TypeOK' /\ Whereabouts'
  <2>1. DataOK'
    BY <1>5, SubType DEF ConnectErr, AfterRefusal, BreakLoop, Creators
  <2>2. LabelsOK' /\ Whereabouts'
    BY <1>5, SMTT(40) DEF ConnectErr, AfterRefusal, BreakLoop, Creators, AfterCreate, ClientPC, ReturnPC, MaintPC
  <2> QED
    BY <2>1, <2>2
<1>6. ASSUME NEW c \in Clients, GetBegin(c) PROVE TypeOK' /\ Whereabouts'
  BY <1>6 DEF GetBegin, ClientPC
<1>7. ASSUME NEW c \in Clients, TakeIdle(c) PROVE TypeOK' /\ Whereabouts'
  <2>1. DataOK'
    BY <1>7, TakeIdleData
  <2>2. LabelsOK' /\ Whereabouts'
    BY <1>7 DEF TakeIdle, ClientPC
  <2> QED
    BY <2>1, <2>2
<1>8. ASSUME NEW c \in Clients, NoIdle(c) PROVE TypeOK' /\ Whereabouts'
  <2>1. DataOK'
    BY <1>8, NoIdleData
  <2>2. LabelsOK' /\ Whereabouts'
    BY <1>8 DEF NoIdle, ClientPC
  <2> QED
    BY <2>1, <2>2
<1>9. ASSUME NEW c \in Clients, CheckCapacity(c) PROVE TypeOK' /\ Whereabouts'
  BY <1>9 DEF CheckCapacity, ClientPC
<1>10. ASSUME NEW c \in Clients, Enqueue(c) PROVE TypeOK' /\ Whereabouts'
  <2>1. Inc(waiter_count) \in Nat
    BY IncType
  <2> QED
    BY <1>10, <2>1, SMTT(40) DEF Enqueue, ClientPC
<1>11. ASSUME NEW c \in Clients, Checkout(c) PROVE TypeOK' /\ Whereabouts'
  <2>1. Inc(in_use_count) \in Nat
    BY IncType
  <2> QED
    BY <1>11, <2>1, SMTT(40) DEF Checkout, ClientPC
<1>12. ASSUME NEW c \in Clients, Receive(c) PROVE TypeOK' /\ Whereabouts'
  <2>1. DataOK'
    BY <1>12, SubType DEF Receive
  <2>2. LabelsOK' /\ Whereabouts'
    BY <1>12 DEF Receive, ClientPC
  <2> QED
    BY <2>1, <2>2
<1>13. ASSUME NEW c \in Clients, ReceiveClosed(c) PROVE TypeOK' /\ Whereabouts'
  <2>1. DataOK'
    BY <1>13, SubType DEF ReceiveClosed
  <2>2. LabelsOK' /\ Whereabouts'
    BY <1>13 DEF ReceiveClosed, ClientPC
  <2> QED
    BY <2>1, <2>2
<1>14. ASSUME NEW c \in Clients, TimeoutElapsed(c) PROVE TypeOK' /\ Whereabouts'
  BY <1>14 DEF TimeoutElapsed, ClientPC
<1>15. ASSUME NEW c \in Clients, TimeoutDrop(c) PROVE TypeOK' /\ Whereabouts'
  <2>1. DataOK'
    BY <1>15, TimeoutDropData
  <2>2. LabelsOK' /\ Whereabouts'
    BY <1>15 DEF TimeoutDrop, DropReceiver, Forget, ClientPC
  <2> QED
    BY <2>1, <2>2
<1>16. ASSUME NEW c \in Clients, Prune(c) PROVE TypeOK' /\ Whereabouts'
  <2>1. DataOK'
    BY <1>16, PruneData
  <2>2. LabelsOK' /\ Whereabouts'
    BY <1>16 DEF Prune, ClientPC
  <2> QED
    BY <2>1, <2>2
<1>17. ASSUME NEW c \in Clients, CancelLock(c) PROVE TypeOK' /\ Whereabouts'
  BY <1>17 DEF CancelLock, ClientPC
<1>18. ASSUME NEW c \in Clients, CancelConnect(c) PROVE TypeOK' /\ Whereabouts'
  BY <1>18 DEF CancelConnect, ClientPC
<1>19. ASSUME NEW c \in Clients, CancelParked(c) PROVE TypeOK' /\ Whereabouts'
  <2>1. DataOK'
    BY <1>19, CancelParkedData
  <2>2. LabelsOK' /\ Whereabouts'
    BY <1>19 DEF CancelParked, DropReceiver, Forget, ClientPC
  <2> QED
    BY <2>1, <2>2
<1>20. ASSUME NEW c \in Clients, CancelPrune(c) PROVE TypeOK' /\ Whereabouts'
  <2>1. DataOK'
    BY <1>20, SubType DEF CancelPrune
  <2>2. LabelsOK' /\ Whereabouts'
    BY <1>20 DEF CancelPrune, ClientPC
  <2> QED
    BY <2>1, <2>2
<1>21. ASSUME NEW c \in Clients, Take(c) PROVE TypeOK' /\ Whereabouts'
  <2>1. DataOK'
    BY <1>21, SubType DEF Take, Forget
  <2>2. LabelsOK' /\ Whereabouts'
    BY <1>21 DEF Take, Forget, ClientPC
  <2> QED
    BY <2>1, <2>2
<1>22. ASSUME NEW c \in Clients, DropGuard(c) PROVE TypeOK' /\ Whereabouts'
  BY <1>22, DropGuardTyped
<1>23. ASSUME NEW k \in Conns, ReturnBegin(k) PROVE TypeOK' /\ Whereabouts'
  <2>1. DataOK'
    BY <1>23, SubType DEF ReturnBegin
  <2>2. LabelsOK' /\ Whereabouts'
    BY <1>23 DEF ReturnBegin, ReturnPC
  <2> QED
    BY <2>1, <2>2
<1>24. ASSUME NEW k \in Conns, ReturnDestroy(k) PROVE TypeOK' /\ Whereabouts'
  <2>1. DataOK'
    BY <1>24, SubType DEF ReturnDestroy
  <2>2. LabelsOK' /\ Whereabouts'
    BY <1>24 DEF ReturnDestroy, ReturnPC
  <2> QED
    BY <2>1, <2>2
<1>25. ASSUME NEW k \in Conns, ReturnReset(k) PROVE TypeOK' /\ Whereabouts'
  BY <1>25 DEF ReturnReset, ReturnPC
<1>26. ASSUME NEW k \in Conns, ReturnPanic(k) PROVE TypeOK' /\ Whereabouts'
  BY <1>26 DEF ReturnPanic, Forget, ReturnPC
<1>27. ASSUME NEW k \in Conns, ReturnDraining(k) PROVE TypeOK' /\ Whereabouts'
  <2>1. DataOK'
    BY <1>27, SubType DEF ReturnDraining
  <2>2. LabelsOK' /\ Whereabouts'
    BY <1>27 DEF ReturnDraining, ReturnPC
  <2> QED
    BY <2>1, <2>2
<1>28. ASSUME NEW k \in Conns, ReturnKeep(k) PROVE TypeOK' /\ Whereabouts'
  BY <1>28 DEF ReturnKeep, ReturnPC
<1>29. ASSUME NEW k \in Conns, ReturnSend(k) PROVE TypeOK' /\ Whereabouts'
  BY <1>29, ReturnSendTyped
<1>30. ASSUME NEW k \in Conns, ReturnUnclaimed(k) PROVE TypeOK' /\ Whereabouts'
  BY <1>30 DEF ReturnUnclaimed, NoLiveWaiter, ReturnPC
<1>31. ASSUME NEW k \in Conns, ReturnPush(k) PROVE TypeOK' /\ Whereabouts'
  BY <1>31 DEF ReturnPush, ReturnPC
<1>32. ASSUME NEW k \in Conns, MaybeNotifyDrain(k) PROVE TypeOK' /\ Whereabouts'
  BY <1>32, MaybeNotifyDrainTyped
<1>33. ASSUME NEW k \in Conns, ProvisionDrainCheck(k) PROVE TypeOK' /\ Whereabouts'
  BY <1>33 DEF ProvisionDrainCheck, ReturnPC
<1>34. ASSUME NEW k \in Conns, ProvisionWaiterCheck(k) PROVE TypeOK' /\ Whereabouts'
  BY <1>34 DEF ProvisionWaiterCheck, ReturnPC
<1>35. ASSUME NEW k \in Conns, ProvisionSend(k) PROVE TypeOK' /\ Whereabouts'
  BY <1>35, ProvisionSendTyped
<1>36. ASSUME NEW k \in Conns, ProvisionUnclaimed(k) PROVE TypeOK' /\ Whereabouts'
  BY <1>36 DEF ProvisionUnclaimed, NoLiveWaiter, ReturnPC
<1>37. ASSUME NEW k \in Conns, ProvisionPush(k) PROVE TypeOK' /\ Whereabouts'
  <2>1. DataOK'
    BY <1>37, ProvisionPushData
  <2>2. LabelsOK' /\ Whereabouts'
    BY <1>37 DEF ProvisionPush, ReturnPC
  <2> QED
    BY <2>1, <2>2
<1>38. ASSUME NEW k \in Conns, Break(k) PROVE TypeOK' /\ Whereabouts'
  BY <1>38 DEF Break, Elems, ReturnPC
<1>39. ASSUME NEW k \in Conns, Expire(k) PROVE TypeOK' /\ Whereabouts'
  BY <1>39 DEF Expire, Elems, ReturnPC
<1>40. ASSUME MaintTick PROVE TypeOK' /\ Whereabouts'
  BY <1>40 DEF MaintTick, MaintPC
<1>41. ASSUME MaintShutdown PROVE TypeOK' /\ Whereabouts'
  BY <1>41 DEF MaintShutdown, MaintPC
<1>42. ASSUME MaintEvict PROVE TypeOK' /\ Whereabouts'
  <2>1. DataOK'
    BY <1>42, MaintEvictData
  <2>2. LabelsOK' /\ Whereabouts'
    BY <1>42 DEF MaintEvict, Forget, MaintPC
  <2> QED
    BY <2>1, <2>2
<1>43. ASSUME MaintLoadTotal PROVE TypeOK' /\ Whereabouts'
  BY <1>43 DEF MaintLoadTotal, MaintPC
<1>44. ASSUME MaintLoadInUse PROVE TypeOK' /\ Whereabouts'
  <2>1. DataOK'
    BY <1>44, MaintLoadInUseData
  <2>2. LabelsOK' /\ Whereabouts'
    BY <1>44 DEF MaintLoadInUse, RefillCount, Least, SaturatingSub, MaintPC
  <2> QED
    BY <2>1, <2>2
<1>45. ASSUME MaintPush PROVE TypeOK' /\ Whereabouts'
  <2>1. DataOK'
    BY <1>45, MaintPushData
  <2>2. LabelsOK' /\ Whereabouts'
    BY <1>45 DEF MaintPush, MaintPC
  <2> QED
    BY <2>1, <2>2
<1>46. ASSUME NEW d \in Drainers, DrainBegin(d) PROVE TypeOK' /\ Whereabouts'
  BY <1>46 DEF DrainBegin, DrainPC
<1>47. ASSUME NEW d \in Drainers, DrainIdle(d) PROVE TypeOK' /\ Whereabouts'
  <2>1. DataOK'
    BY <1>47, DrainIdleData
  <2>2. LabelsOK' /\ Whereabouts'
    BY <1>47 DEF DrainIdle, Forget, DrainPC
  <2> QED
    BY <2>1, <2>2
<1>48. ASSUME NEW d \in Drainers, DrainWaiters(d) PROVE TypeOK' /\ Whereabouts'
  <2>1. DataOK'
    BY <1>48, DrainWaitersData
  <2>2. ChannelsOK'
    BY <1>48, DrainWaitersChannels
  <2>3. LabelsOK' /\ HandsOK' /\ LoopsOK'
    BY <1>48 DEF DrainWaiters, DrainPC
  <2> QED
    BY <2>1, <2>2, <2>3
<1>49. ASSUME NEW d \in Drainers, DrainCheck(d) PROVE TypeOK' /\ Whereabouts'
  BY <1>49 DEF DrainCheck, DrainPC
<1>50. ASSUME NEW d \in Drainers, DrainPermit(d) PROVE TypeOK' /\ Whereabouts'
  <2>1. DataOK'
    BY <1>50 DEF DrainPermit
  <2>2. LabelsOK' /\ Whereabouts'
    BY <1>50 DEF DrainPermit, DrainPC
  <2> QED
    BY <2>1, <2>2
<1>51. ASSUME NEW w \in Warmers, WarmBegin(w) PROVE TypeOK' /\ Whereabouts'
  BY <1>51, WarmBeginTyped
<1>52. ASSUME NEW w \in Warmers, WarmConnect(w) PROVE TypeOK' /\ Whereabouts'
  BY <1>52, WarmConnectTyped
<1>53. ASSUME NEW w \in Warmers, WarmPush(w) PROVE TypeOK' /\ Whereabouts'
  <2>1. DataOK'
    BY <1>53, WarmPushData
  <2>2. LabelsOK' /\ Whereabouts'
    BY <1>53 DEF WarmPush, WarmPC
  <2> QED
    BY <2>1, <2>2
<1>54. ASSUME NEW w \in Warmers, WarmCount(w) PROVE TypeOK' /\ Whereabouts'
  BY <1>54, WarmCountTyped
<1>55. CASE UNCHANGED vars
  BY <1>55 DEF vars
<1> QED
  BY <1>1, <1>2, <1>3, <1>4, <1>5, <1>6, <1>7, <1>8, <1>9, <1>10, <1>11, <1>12, <1>13, <1>14,
     <1>15, <1>16, <1>17, <1>18, <1>19, <1>20, <1>21, <1>22, <1>23, <1>24, <1>25, <1>26, <1>27,
     <1>28, <1>29, <1>30, <1>31, <1>32, <1>33, <1>34, <1>35, <1>36, <1>37, <1>38, <1>39, <1>40,
     <1>41, <1>42, <1>43, <1>44, <1>45, <1>46, <1>47, <1>48, <1>49, <1>50, <1>51, <1>52, <1>53,
     <1>54, <1>55
     DEF Next, CreateStep, GetStep, Cancel, ReturnStep, MaintStep, DrainStep, WarmStep

-----------------------------------------------------------------------------
(* Entries of the waiter queue.                                            *)

\* A step that leaves the queue alone keeps its entries live as long as no
\* client with an empty channel stops waiting.
LEMMA LiveFrame ==
  ASSUME LiveEntries, waiters' = waiters,
         \A c \in Clients : pc[c] \in {"parked", "expire"} /\ rx[c] = None =>
                            pc'[c] \in {"parked", "expire"} /\ rx'[c] = None
  PROVE  LiveEntries'
BY DEF LiveEntries

\* An empty queue has no entries.
LEMMA LiveEmpty == waiters' = <<>> => LiveEntries'
BY DEF LiveEntries

\* A client that enqueues was not in the queue: its label says so.
LEMMA EnqueueLive ==
  ASSUME TypeOK, Whereabouts, LiveEntries, NEW c \in Clients, Enqueue(c)
  PROVE  LiveEntries'
<1>1. waiters \in Seq(Clients \cup {Closed}) /\ waiters' = Append(waiters, c)
  BY DEF TypeOK, DataOK, Enqueue
<1>2. /\ Len(waiters) \in Nat /\ DOMAIN waiters = 1..Len(waiters)
      /\ DOMAIN waiters' = 1..(Len(waiters) + 1)
      /\ \A n \in 1..(Len(waiters) + 1) :
           waiters'[n] = IF n = Len(waiters) + 1 THEN c ELSE waiters[n]
  BY <1>1, AppendFacts, LenProperties
<1>3. pc[c] = "enqueue" /\ rx[c] = None
  BY DEF Enqueue, Whereabouts, ChannelsOK
<1>4. /\ pc'[c] = "parked" /\ \A e \in Clients \ {c} : pc'[e] = pc[e]
      /\ rx' = rx
  BY DEF Enqueue, Goto, TypeOK, LabelsOK, Tasks
<1>5. \A n \in DOMAIN waiters : waiters[n] # c
  BY <1>3 DEF LiveEntries
<1>6. ASSUME NEW n \in DOMAIN waiters', waiters'[n] \in Clients
      PROVE  /\ pc'[waiters'[n]] \in {"parked", "expire"} /\ rx'[waiters'[n]] = None
             /\ \A m \in DOMAIN waiters' : waiters'[m] = waiters'[n] => m = n
  <2>1. CASE n = Len(waiters) + 1
    BY <1>2, <1>3, <1>4, <1>5, <2>1
  <2>2. CASE n \in DOMAIN waiters
    <3>1. waiters'[n] = waiters[n] /\ waiters[n] # c
      BY <1>2, <1>5, <2>2
    <3>2. pc[waiters[n]] \in {"parked", "expire"} /\ rx[waiters[n]] = None
      BY <1>6, <2>2, <3>1 DEF LiveEntries
    <3>3. ASSUME NEW m \in DOMAIN waiters', waiters'[m] = waiters'[n]
          PROVE  m = n
      <4>1. m \in DOMAIN waiters /\ waiters[m] = waiters[n]
        BY <1>2, <3>1, <3>3
      <4> QED
        BY <1>6, <2>2, <3>1, <4>1 DEF LiveEntries
    <3> QED
      BY <1>4, <1>6, <3>1, <3>2, <3>3
  <2> QED
    BY <1>2, <1>6, <2>1, <2>2
<1> QED
  BY <1>6 DEF LiveEntries

\* A receiver that goes away closes its own entry.
LEMMA DropReceiverLive ==
  ASSUME TypeOK, LiveEntries, NEW c \in Clients, DropReceiver(c),
         \A e \in Clients \ {c} : pc'[e] = pc[e]
  PROVE  LiveEntries'
<1>1. /\ DOMAIN waiters' = DOMAIN waiters
      /\ \A n \in DOMAIN waiters : waiters'[n] = IF waiters[n] = c THEN Closed ELSE waiters[n]
      /\ \A e \in Clients \ {c} : rx'[e] = rx[e]
  BY DEF DropReceiver, TypeOK, DataOK
<1>2. Closed \notin Clients
  BY TaskAssumption
<1>3. ASSUME NEW n \in DOMAIN waiters', waiters'[n] \in Clients
      PROVE  waiters'[n] = waiters[n] /\ waiters[n] # c
  BY <1>1, <1>2, <1>3
<1> QED
  BY <1>1, <1>3 DEF LiveEntries

\* The entries behind the one that is sent to are those of other clients.
LEMMA SendToWaiterLive ==
  ASSUME TypeOK, LiveEntries, NEW k, SendToWaiter(k), \A c \in Clients : pc'[c] = pc[c]
  PROVE  LiveEntries'
<1>1. PICK i \in DOMAIN waiters :
        /\ waiters[i] \in Clients
        /\ rx' = [rx EXCEPT ![waiters[i]] = k]
        /\ waiters' = SubSeq(waiters, i + 1, Len(waiters))
  BY DEF SendToWaiter
<1>2. /\ DOMAIN waiters' = 1..(Len(waiters) - i)
      /\ \A n \in 1..(Len(waiters) - i) : n + i \in DOMAIN waiters /\ waiters'[n] = waiters[n + i]
  BY <1>1, SuffixProperties DEF TypeOK, DataOK
<1>3. i \in Nat /\ Len(waiters) \in Nat
  BY LenProperties DEF TypeOK, DataOK
<1>4. ASSUME NEW n \in DOMAIN waiters', waiters'[n] \in Clients
      PROVE  /\ waiters'[n] = waiters[n + i] /\ n + i \in DOMAIN waiters /\ n \in Nat
             /\ n + i # i /\ waiters[n + i] # waiters[i]
             /\ rx'[waiters'[n]] = rx[waiters'[n]]
  <2>1. waiters'[n] = waiters[n + i] /\ n + i \in DOMAIN waiters /\ n \in Nat /\ n + i # i
    BY <1>2, <1>3
  <2>2. waiters[n + i] # waiters[i]
    BY <1>1, <2>1 DEF LiveEntries
  <2> QED
    BY <1>1, <1>4, <2>1, <2>2 DEF TypeOK, DataOK
<1>5. ASSUME NEW n \in DOMAIN waiters', NEW m \in DOMAIN waiters',
             waiters'[n] \in Clients, waiters'[m] = waiters'[n]
      PROVE  m = n
  <2>1. m + i = n + i
    BY <1>4, <1>5 DEF LiveEntries
  <2> QED
    BY <1>3, <1>4, <1>5, <2>1
<1> QED
  BY <1>4, <1>5 DEF LiveEntries

\* retain only removes entries.
LEMMA PruneLive ==
  ASSUME TypeOK, LiveEntries, NEW c \in Clients, Prune(c)
  PROVE  LiveEntries'
<1>1. waiters \in Seq(Clients \cup {Closed}) /\ waiters' = Retain(waiters, Clients)
  BY DEF TypeOK, DataOK, Prune
<1>2. \A n \in DOMAIN waiters' : \E i \in DOMAIN waiters : waiters'[n] = waiters[i]
  BY <1>1, RetainProperties
<1>3. \A i, j \in DOMAIN waiters : waiters[i] = waiters[j] /\ waiters[i] \in Clients => i = j
  BY DEF LiveEntries
<1>4. \A n, m \in DOMAIN waiters' : waiters'[n] = waiters'[m] /\ waiters'[n] \in Clients => n = m
  BY <1>1, <1>3, RetainProperties
<1>5. /\ rx' = rx /\ pc[c] = "prune"
      /\ \A e \in Clients \ {c} : pc'[e] = pc[e]
  BY DEF Prune, Goto, TypeOK, LabelsOK, Tasks
<1> QED
  BY <1>2, <1>4, <1>5 DEF LiveEntries

\* Every step keeps the entries of the queue live.
LEMMA StepLive ==
  ASSUME TypeOK, Whereabouts, LiveEntries, [Next]_vars
  PROVE  LiveEntries'
<1> USE TaskAssumption DEF TypeOK, LabelsOK, Tasks, Goto
<1>1. ASSUME NEW t \in Creators, Admit(t) PROVE LiveEntries'
  BY <1>1, LiveFrame DEF Admit, Creators
<1>2. ASSUME NEW t \in Creators, Refuse(t) PROVE LiveEntries'
  BY <1>2, LiveFrame DEF Refuse, Creators
<1>3. ASSUME NEW t \in Creators, RollBack(t) PROVE LiveEntries'
  BY <1>3, LiveFrame DEF RollBack, Creators
<1>4. ASSUME NEW t \in Creators, ConnectOk(t) PROVE LiveEntries'
  BY <1>4, LiveFrame DEF ConnectOk, Creators
<1>5. ASSUME NEW t \in Creators, ConnectErr(t) PROVE LiveEntries'
  BY <1>5, LiveFrame DEF ConnectErr, Creators
<1>6. ASSUME NEW c \in Clients, GetBegin(c) PROVE LiveEntries'
  BY <1>6, LiveFrame DEF GetBegin
<1>7. ASSUME NEW c \in Clients, TakeIdle(c) PROVE LiveEntries'
  BY <1>7, LiveFrame DEF TakeIdle
<1>8. ASSUME NEW c \in Clients, NoIdle(c) PROVE LiveEntries'
  BY <1>8, LiveFrame DEF NoIdle
<1>9. ASSUME NEW c \in Clients, CheckCapacity(c) PROVE LiveEntries'
  BY <1>9, LiveFrame DEF CheckCapacity
<1>10. ASSUME NEW c \in Clients, Enqueue(c) PROVE LiveEntries'
  BY <1>10, EnqueueLive
<1>11. ASSUME NEW c \in Clients, Checkout(c) PROVE LiveEntries'
  BY <1>11, LiveFrame DEF Checkout
<1>12. ASSUME NEW c \in Clients, Receive(c) PROVE LiveEntries'
  BY <1>12, LiveFrame DEF Receive, DataOK
<1>13. ASSUME NEW c \in Clients, ReceiveClosed(c) PROVE LiveEntries'
  BY <1>13, LiveFrame DEF ReceiveClosed, DataOK
<1>14. ASSUME NEW c \in Clients, TimeoutElapsed(c) PROVE LiveEntries'
  BY <1>14, LiveFrame DEF TimeoutElapsed
<1>15. ASSUME NEW c \in Clients, TimeoutDrop(c) PROVE LiveEntries'
  BY <1>15, DropReceiverLive DEF TimeoutDrop
<1>16. ASSUME NEW c \in Clients, Prune(c) PROVE LiveEntries'
  BY <1>16, PruneLive
<1>17. ASSUME NEW c \in Clients, CancelLock(c) PROVE LiveEntries'
  BY <1>17, LiveFrame DEF CancelLock
<1>18. ASSUME NEW c \in Clients, CancelConnect(c) PROVE LiveEntries'
  BY <1>18, LiveFrame DEF CancelConnect
<1>19. ASSUME NEW c \in Clients, CancelParked(c) PROVE LiveEntries'
  BY <1>19, DropReceiverLive DEF CancelParked
<1>20. ASSUME NEW c \in Clients, CancelPrune(c) PROVE LiveEntries'
  BY <1>20, LiveFrame DEF CancelPrune
<1>21. ASSUME NEW c \in Clients, Take(c) PROVE LiveEntries'
  BY <1>21, LiveFrame DEF Take
<1>22. ASSUME NEW c \in Clients, DropGuard(c) PROVE LiveEntries'
  BY <1>22, LiveFrame DEF DropGuard, Whereabouts, HandsOK, DataOK
<1>23. ASSUME NEW k \in Conns, ReturnBegin(k) PROVE LiveEntries'
  BY <1>23, LiveFrame DEF ReturnBegin
<1>24. ASSUME NEW k \in Conns, ReturnDestroy(k) PROVE LiveEntries'
  BY <1>24, LiveFrame DEF ReturnDestroy
<1>25. ASSUME NEW k \in Conns, ReturnReset(k) PROVE LiveEntries'
  BY <1>25, LiveFrame DEF ReturnReset
<1>26. ASSUME NEW k \in Conns, ReturnPanic(k) PROVE LiveEntries'
  BY <1>26, LiveFrame DEF ReturnPanic
<1>27. ASSUME NEW k \in Conns, ReturnDraining(k) PROVE LiveEntries'
  BY <1>27, LiveFrame DEF ReturnDraining
<1>28. ASSUME NEW k \in Conns, ReturnKeep(k) PROVE LiveEntries'
  BY <1>28, LiveFrame DEF ReturnKeep
<1>29. ASSUME NEW k \in Conns, ReturnSend(k) PROVE LiveEntries'
  BY <1>29, SendToWaiterLive DEF ReturnSend
<1>30. ASSUME NEW k \in Conns, ReturnUnclaimed(k) PROVE LiveEntries'
  BY <1>30, LiveEmpty DEF ReturnUnclaimed, NoLiveWaiter
<1>31. ASSUME NEW k \in Conns, ReturnPush(k) PROVE LiveEntries'
  BY <1>31, LiveFrame DEF ReturnPush
<1>32. ASSUME NEW k \in Conns, MaybeNotifyDrain(k) PROVE LiveEntries'
  BY <1>32, LiveFrame DEF MaybeNotifyDrain, NotifyOne
<1>33. ASSUME NEW k \in Conns, ProvisionDrainCheck(k) PROVE LiveEntries'
  BY <1>33, LiveFrame DEF ProvisionDrainCheck
<1>34. ASSUME NEW k \in Conns, ProvisionWaiterCheck(k) PROVE LiveEntries'
  BY <1>34, LiveFrame DEF ProvisionWaiterCheck
<1>35. ASSUME NEW k \in Conns, ProvisionSend(k) PROVE LiveEntries'
  BY <1>35, SendToWaiterLive DEF ProvisionSend
<1>36. ASSUME NEW k \in Conns, ProvisionUnclaimed(k) PROVE LiveEntries'
  BY <1>36, LiveEmpty DEF ProvisionUnclaimed, NoLiveWaiter
<1>37. ASSUME NEW k \in Conns, ProvisionPush(k) PROVE LiveEntries'
  BY <1>37, LiveFrame DEF ProvisionPush
<1>38. ASSUME NEW k \in Conns, Break(k) PROVE LiveEntries'
  BY <1>38, LiveFrame DEF Break
<1>39. ASSUME NEW k \in Conns, Expire(k) PROVE LiveEntries'
  BY <1>39, LiveFrame DEF Expire
<1>40. ASSUME MaintTick PROVE LiveEntries'
  BY <1>40, LiveFrame DEF MaintTick
<1>41. ASSUME MaintShutdown PROVE LiveEntries'
  BY <1>41, LiveFrame DEF MaintShutdown
<1>42. ASSUME MaintEvict PROVE LiveEntries'
  BY <1>42, LiveFrame DEF MaintEvict
<1>43. ASSUME MaintLoadTotal PROVE LiveEntries'
  BY <1>43, LiveFrame DEF MaintLoadTotal
<1>44. ASSUME MaintLoadInUse PROVE LiveEntries'
  BY <1>44, LiveFrame DEF MaintLoadInUse
<1>45. ASSUME MaintPush PROVE LiveEntries'
  BY <1>45, LiveFrame DEF MaintPush
<1>46. ASSUME NEW d \in Drainers, DrainBegin(d) PROVE LiveEntries'
  BY <1>46, LiveFrame DEF DrainBegin
<1>47. ASSUME NEW d \in Drainers, DrainIdle(d) PROVE LiveEntries'
  BY <1>47, LiveFrame DEF DrainIdle
<1>48. ASSUME NEW d \in Drainers, DrainWaiters(d) PROVE LiveEntries'
  BY <1>48, LiveEmpty DEF DrainWaiters
<1>49. ASSUME NEW d \in Drainers, DrainCheck(d) PROVE LiveEntries'
  BY <1>49, LiveFrame DEF DrainCheck
<1>50. ASSUME NEW d \in Drainers, DrainPermit(d) PROVE LiveEntries'
  BY <1>50, LiveFrame DEF DrainPermit
<1>51. ASSUME NEW w \in Warmers, WarmBegin(w) PROVE LiveEntries'
  BY <1>51, LiveFrame DEF WarmBegin
<1>52. ASSUME NEW w \in Warmers, WarmConnect(w) PROVE LiveEntries'
  BY <1>52, LiveFrame DEF WarmConnect
<1>53. ASSUME NEW w \in Warmers, WarmPush(w) PROVE LiveEntries'
  BY <1>53, LiveFrame DEF WarmPush
<1>54. ASSUME NEW w \in Warmers, WarmCount(w) PROVE LiveEntries'
  BY <1>54, LiveFrame DEF WarmCount
<1>55. CASE UNCHANGED vars
  BY <1>55, LiveFrame DEF vars
<1> QED
  BY <1>1, <1>2, <1>3, <1>4, <1>5, <1>6, <1>7, <1>8, <1>9, <1>10, <1>11, <1>12, <1>13, <1>14,
     <1>15, <1>16, <1>17, <1>18, <1>19, <1>20, <1>21, <1>22, <1>23, <1>24, <1>25, <1>26, <1>27,
     <1>28, <1>29, <1>30, <1>31, <1>32, <1>33, <1>34, <1>35, <1>36, <1>37, <1>38, <1>39, <1>40,
     <1>41, <1>42, <1>43, <1>44, <1>45, <1>46, <1>47, <1>48, <1>49, <1>50, <1>51, <1>52, <1>53,
     <1>54, <1>55
     DEF Next, CreateStep, GetStep, Cancel, ReturnStep, MaintStep, DrainStep, WarmStep

-----------------------------------------------------------------------------
(* Clients that wait are queued.                                           *)

\* A step that leaves the queue alone keeps them queued, as long as no client
\* starts to wait and no channel is emptied under one that does.
LEMMA QueuedFrame ==
  ASSUME Queued, waiters' = waiters,
         \A c \in Clients : pc'[c] \in {"parked", "expire"} /\ rx'[c] = None =>
                            pc[c] \in {"parked", "expire"} /\ rx[c] = None
  PROVE  Queued'
BY DEF Queued

LEMMA EnqueueQueued ==
  ASSUME TypeOK, Queued, NEW c \in Clients, Enqueue(c)
  PROVE  Queued'
<1>1. waiters \in Seq(Clients \cup {Closed}) /\ waiters' = Append(waiters, c)
  BY DEF TypeOK, DataOK, Enqueue
<1>2. /\ Len(waiters) \in Nat /\ DOMAIN waiters = 1..Len(waiters)
      /\ DOMAIN waiters' = 1..(Len(waiters) + 1)
      /\ \A n \in 1..(Len(waiters) + 1) :
           waiters'[n] = IF n = Len(waiters) + 1 THEN c ELSE waiters[n]
  BY <1>1, AppendFacts, LenProperties
<1>3. rx' = rx /\ \A e \in Clients \ {c} : pc'[e] = pc[e]
  BY DEF Enqueue, Goto, TypeOK, LabelsOK, Tasks
<1>4. \E n \in DOMAIN waiters' : waiters'[n] = c
  BY <1>2
<1>5. \A i \in DOMAIN waiters : i \in DOMAIN waiters' /\ waiters'[i] = waiters[i]
  BY <1>2
<1> QED
  BY <1>3, <1>4, <1>5 DEF Queued

\* A receiver that goes away takes no other entry with it.
LEMMA DropReceiverQueued ==
  ASSUME TypeOK, Queued, NEW c \in Clients, DropReceiver(c), pc'[c] \notin {"parked", "expire"},
         \A e \in Clients \ {c} : pc'[e] = pc[e]
  PROVE  Queued'
<1>1. /\ DOMAIN waiters' = DOMAIN waiters
      /\ \A n \in DOMAIN waiters : waiters'[n] = IF waiters[n] = c THEN Closed ELSE waiters[n]
      /\ \A e \in Clients \ {c} : rx'[e] = rx[e]
  BY DEF DropReceiver, TypeOK, DataOK
<1> QED
  BY <1>1 DEF Queued

\* The entries popped before the one that is sent to are closed ones.
LEMMA SendToWaiterQueued ==
  ASSUME TypeOK, Queued, NEW k, k # None, SendToWaiter(k), \A c \in Clients : pc'[c] = pc[c]
  PROVE  Queued'
<1>1. PICK i \in DOMAIN waiters :
        /\ waiters[i] \in Clients /\ \A j \in 1..(i - 1) : waiters[j] = Closed
        /\ rx' = [rx EXCEPT ![waiters[i]] = k]
        /\ waiters' = SubSeq(waiters, i + 1, Len(waiters))
  BY DEF SendToWaiter
<1>2. /\ DOMAIN waiters' = 1..(Len(waiters) - i)
      /\ \A n \in 1..(Len(waiters) - i) : n + i \in DOMAIN waiters /\ waiters'[n] = waiters[n + i]
  <2>1. waiters \in Seq(Clients \cup {Closed}) /\ waiters' = SubSeq(waiters, i + 1, Len(waiters))
    BY <1>1 DEF TypeOK, DataOK
  <2> QED
    BY <2>1, SuffixProperties
<1>3. Len(waiters) \in Nat /\ DOMAIN waiters = 1..Len(waiters)
  BY LenProperties DEF TypeOK, DataOK
<1>4. ASSUME NEW c \in Clients, pc'[c] \in {"parked", "expire"}, rx'[c] = None
      PROVE  \E n \in DOMAIN waiters' : waiters'[n] = c
  <2>1. c # waiters[i] /\ rx[c] = None
    BY <1>1, <1>4 DEF TypeOK, DataOK
  <2>2. PICK j \in DOMAIN waiters : waiters[j] = c
    BY <1>4, <2>1 DEF Queued
  <2>3. j # i /\ j \notin 1..(i - 1)
    BY <1>1, <2>1, <2>2, TaskAssumption
  <2>4. j - i \in 1..(Len(waiters) - i) /\ (j - i) + i = j
    BY <1>1, <1>3, <2>3
  <2> QED
    BY <1>2, <2>2, <2>4
<1> QED
  BY <1>4 DEF Queued

\* A queue of closed entries has no client to lose.
LEMMA NoLiveWaiterQueued ==
  ASSUME TypeOK, Queued, NoLiveWaiter, rx' = rx, \A c \in Clients : pc'[c] = pc[c]
  PROVE  Queued'
BY TaskAssumption DEF Queued, NoLiveWaiter

LEMMA PruneQueued ==
  ASSUME TypeOK, Queued, NEW c \in Clients, Prune(c)
  PROVE  Queued'
<1>1. waiters \in Seq(Clients \cup {Closed}) /\ waiters' = Retain(waiters, Clients)
  BY DEF TypeOK, DataOK, Prune
<1>2. \A i \in DOMAIN waiters : waiters[i] \in Clients => \E n \in DOMAIN waiters' : waiters'[n] = waiters[i]
  BY <1>1, RetainProperties
<1>3. rx' = rx /\ pc'[c] = "out" /\ \A e \in Clients \ {c} : pc'[e] = pc[e]
  BY DEF Prune, Goto, TypeOK, LabelsOK, Tasks
<1> QED
  BY <1>2, <1>3 DEF Queued

\* drain() answers every client whose entry it clears.
LEMMA DrainWaitersQueued ==
  ASSUME TypeOK, Queued, NEW d \in Drainers, DrainWaiters(d)
  PROVE  Queued'
<1>1. \A c \in Clients : pc'[c] = pc[c]
  BY TaskAssumption DEF DrainWaiters, Goto, TypeOK, LabelsOK, Tasks
<1>2. \A c \in Clients : rx'[c] = None => c \notin Elems(waiters) /\ rx[c] = None
  BY TaskAssumption DEF DrainWaiters
<1> QED
  BY <1>1, <1>2 DEF Queued, Elems

\* Every step keeps the waiting clients queued.
LEMMA StepQueued ==
  ASSUME TypeOK, Whereabouts, Queued, [Next]_vars
  PROVE  Queued'
<1> USE TaskAssumption DEF TypeOK, LabelsOK, Tasks, Goto
<1>1. ASSUME NEW t \in Creators, Admit(t) PROVE Queued'
  BY <1>1, QueuedFrame DEF Admit, Creators
<1>2. ASSUME NEW t \in Creators, Refuse(t) PROVE Queued'
  BY <1>2, QueuedFrame DEF Refuse, Creators
<1>3. ASSUME NEW t \in Creators, RollBack(t) PROVE Queued'
  BY <1>3, QueuedFrame DEF RollBack, Creators, AfterRefusal
<1>4. ASSUME NEW t \in Creators, ConnectOk(t) PROVE Queued'
  BY <1>4, QueuedFrame DEF ConnectOk, Creators, AfterCreate
<1>5. ASSUME NEW t \in Creators, ConnectErr(t) PROVE Queued'
  BY <1>5, QueuedFrame DEF ConnectErr, Creators, AfterRefusal
<1>6. ASSUME NEW c \in Clients, GetBegin(c) PROVE Queued'
  BY <1>6, QueuedFrame DEF GetBegin
<1>7. ASSUME NEW c \in Clients, TakeIdle(c) PROVE Queued'
  BY <1>7, QueuedFrame DEF TakeIdle
<1>8. ASSUME NEW c \in Clients, NoIdle(c) PROVE Queued'
  BY <1>8, QueuedFrame DEF NoIdle
<1>9. ASSUME NEW c \in Clients, CheckCapacity(c) PROVE Queued'
  BY <1>9, QueuedFrame DEF CheckCapacity
<1>10. ASSUME NEW c \in Clients, Enqueue(c) PROVE Queued'
  BY <1>10, EnqueueQueued
<1>11. ASSUME NEW c \in Clients, Checkout(c) PROVE Queued'
  BY <1>11, QueuedFrame DEF Checkout
<1>12. ASSUME NEW c \in Clients, Receive(c) PROVE Queued'
  BY <1>12, QueuedFrame DEF Receive, DataOK
<1>13. ASSUME NEW c \in Clients, ReceiveClosed(c) PROVE Queued'
  BY <1>13, QueuedFrame DEF ReceiveClosed, DataOK
<1>14. ASSUME NEW c \in Clients, TimeoutElapsed(c) PROVE Queued'
  BY <1>14, QueuedFrame DEF TimeoutElapsed
<1>15. ASSUME NEW c \in Clients, TimeoutDrop(c) PROVE Queued'
  BY <1>15, DropReceiverQueued DEF TimeoutDrop
<1>16. ASSUME NEW c \in Clients, Prune(c) PROVE Queued'
  BY <1>16, PruneQueued
<1>17. ASSUME NEW c \in Clients, CancelLock(c) PROVE Queued'
  BY <1>17, QueuedFrame DEF CancelLock
<1>18. ASSUME NEW c \in Clients, CancelConnect(c) PROVE Queued'
  BY <1>18, QueuedFrame DEF CancelConnect
<1>19. ASSUME NEW c \in Clients, CancelParked(c) PROVE Queued'
  BY <1>19, DropReceiverQueued DEF CancelParked
<1>20. ASSUME NEW c \in Clients, CancelPrune(c) PROVE Queued'
  BY <1>20, QueuedFrame DEF CancelPrune
<1>21. ASSUME NEW c \in Clients, Take(c) PROVE Queued'
  BY <1>21, QueuedFrame DEF Take
<1>22. ASSUME NEW c \in Clients, DropGuard(c) PROVE Queued'
  BY <1>22, QueuedFrame DEF DropGuard, Whereabouts, HandsOK, DataOK
<1>23. ASSUME NEW k \in Conns, ReturnBegin(k) PROVE Queued'
  BY <1>23, QueuedFrame DEF ReturnBegin
<1>24. ASSUME NEW k \in Conns, ReturnDestroy(k) PROVE Queued'
  BY <1>24, QueuedFrame DEF ReturnDestroy
<1>25. ASSUME NEW k \in Conns, ReturnReset(k) PROVE Queued'
  BY <1>25, QueuedFrame DEF ReturnReset
<1>26. ASSUME NEW k \in Conns, ReturnPanic(k) PROVE Queued'
  BY <1>26, QueuedFrame DEF ReturnPanic
<1>27. ASSUME NEW k \in Conns, ReturnDraining(k) PROVE Queued'
  BY <1>27, QueuedFrame DEF ReturnDraining
<1>28. ASSUME NEW k \in Conns, ReturnKeep(k) PROVE Queued'
  BY <1>28, QueuedFrame DEF ReturnKeep
<1>29. ASSUME NEW k \in Conns, ReturnSend(k) PROVE Queued'
  BY <1>29, SendToWaiterQueued DEF ReturnSend
<1>30. ASSUME NEW k \in Conns, ReturnUnclaimed(k) PROVE Queued'
  BY <1>30, NoLiveWaiterQueued DEF ReturnUnclaimed
<1>31. ASSUME NEW k \in Conns, ReturnPush(k) PROVE Queued'
  BY <1>31, QueuedFrame DEF ReturnPush
<1>32. ASSUME NEW k \in Conns, MaybeNotifyDrain(k) PROVE Queued'
  BY <1>32, QueuedFrame DEF MaybeNotifyDrain, NotifyOne
<1>33. ASSUME NEW k \in Conns, ProvisionDrainCheck(k) PROVE Queued'
  BY <1>33, QueuedFrame DEF ProvisionDrainCheck
<1>34. ASSUME NEW k \in Conns, ProvisionWaiterCheck(k) PROVE Queued'
  BY <1>34, QueuedFrame DEF ProvisionWaiterCheck
<1>35. ASSUME NEW k \in Conns, ProvisionSend(k) PROVE Queued'
  BY <1>35, SendToWaiterQueued DEF ProvisionSend, Whereabouts, HandsOK
<1>36. ASSUME NEW k \in Conns, ProvisionUnclaimed(k) PROVE Queued'
  BY <1>36, NoLiveWaiterQueued DEF ProvisionUnclaimed
<1>37. ASSUME NEW k \in Conns, ProvisionPush(k) PROVE Queued'
  BY <1>37, QueuedFrame DEF ProvisionPush
<1>38. ASSUME NEW k \in Conns, Break(k) PROVE Queued'
  BY <1>38, QueuedFrame DEF Break
<1>39. ASSUME NEW k \in Conns, Expire(k) PROVE Queued'
  BY <1>39, QueuedFrame DEF Expire
<1>40. ASSUME MaintTick PROVE Queued'
  BY <1>40, QueuedFrame DEF MaintTick
<1>41. ASSUME MaintShutdown PROVE Queued'
  BY <1>41, QueuedFrame DEF MaintShutdown
<1>42. ASSUME MaintEvict PROVE Queued'
  BY <1>42, QueuedFrame DEF MaintEvict
<1>43. ASSUME MaintLoadTotal PROVE Queued'
  BY <1>43, QueuedFrame DEF MaintLoadTotal
<1>44. ASSUME MaintLoadInUse PROVE Queued'
  BY <1>44, QueuedFrame DEF MaintLoadInUse
<1>45. ASSUME MaintPush PROVE Queued'
  BY <1>45, QueuedFrame DEF MaintPush
<1>46. ASSUME NEW d \in Drainers, DrainBegin(d) PROVE Queued'
  BY <1>46, QueuedFrame DEF DrainBegin
<1>47. ASSUME NEW d \in Drainers, DrainIdle(d) PROVE Queued'
  BY <1>47, QueuedFrame DEF DrainIdle
<1>48. ASSUME NEW d \in Drainers, DrainWaiters(d) PROVE Queued'
  BY <1>48, DrainWaitersQueued
<1>49. ASSUME NEW d \in Drainers, DrainCheck(d) PROVE Queued'
  BY <1>49, QueuedFrame DEF DrainCheck
<1>50. ASSUME NEW d \in Drainers, DrainPermit(d) PROVE Queued'
  BY <1>50, QueuedFrame DEF DrainPermit
<1>51. ASSUME NEW w \in Warmers, WarmBegin(w) PROVE Queued'
  BY <1>51, QueuedFrame DEF WarmBegin
<1>52. ASSUME NEW w \in Warmers, WarmConnect(w) PROVE Queued'
  BY <1>52, QueuedFrame DEF WarmConnect
<1>53. ASSUME NEW w \in Warmers, WarmPush(w) PROVE Queued'
  BY <1>53, QueuedFrame DEF WarmPush
<1>54. ASSUME NEW w \in Warmers, WarmCount(w) PROVE Queued'
  BY <1>54, QueuedFrame DEF WarmCount
<1>55. CASE UNCHANGED vars
  BY <1>55, QueuedFrame DEF vars
<1> QED
  BY <1>1, <1>2, <1>3, <1>4, <1>5, <1>6, <1>7, <1>8, <1>9, <1>10, <1>11, <1>12, <1>13, <1>14,
     <1>15, <1>16, <1>17, <1>18, <1>19, <1>20, <1>21, <1>22, <1>23, <1>24, <1>25, <1>26, <1>27,
     <1>28, <1>29, <1>30, <1>31, <1>32, <1>33, <1>34, <1>35, <1>36, <1>37, <1>38, <1>39, <1>40,
     <1>41, <1>42, <1>43, <1>44, <1>45, <1>46, <1>47, <1>48, <1>49, <1>50, <1>51, <1>52, <1>53,
     <1>54, <1>55
     DEF Next, CreateStep, GetStep, Cancel, ReturnStep, MaintStep, DrainStep, WarmStep

-----------------------------------------------------------------------------
(* Owners.                                                                 *)

\* The places a connection can be in keep at most what they had.
Shrinks ==
  /\ \A n \in DOMAIN idle' : \E i \in DOMAIN idle : idle'[n] = idle[i]
  /\ \A n, m \in DOMAIN idle' : idle'[n] = idle'[m] => n = m
  /\ \A c \in Clients : rx'[c] \in Conns => rx'[c] = rx[c]
  /\ \A t \in Tasks : hand'[t] # None => hand'[t] = hand[t]
  /\ \A k \in Conns : pc'[k] # "none" => pc[k] # "none"

\* Owners that only lose connections stay the only ones.
LEMMA OwnersShrink ==
  ASSUME OneOwner, DataOK, DataOK', Shrinks
  PROVE  OneOwner'
BY TaskAssumption DEF OneOwner, DataOK, Shrinks, Elems, InChannel

\* A step that moves no connection changes no owner.
LEMMA OwnersFrame ==
  ASSUME OneOwner, UNCHANGED <<idle, rx, hand>>, \A k \in Conns : pc'[k] # "none" => pc[k] # "none"
  PROVE  OneOwner'
BY DEF OneOwner, Elems, InChannel

\* A connection that is nowhere else may be pushed on the idle queue, ...
LEMMA OwnersIdle ==
  ASSUME OneOwner, DataOK, DataOK', NEW k \in Conns, idle' = Append(idle, k),
         \A n \in DOMAIN idle : idle[n] # k,
         \A c \in Clients : rx'[c] \in Conns => rx'[c] = rx[c] /\ rx'[c] # k,
         \A t \in Tasks : hand'[t] # None => hand'[t] = hand[t] /\ hand'[t] # k,
         \A j \in Conns : pc'[j] # "none" => pc[j] # "none" /\ j # k
  PROVE  OneOwner'
<1>1. /\ Len(idle) \in Nat /\ DOMAIN idle = 1..Len(idle) /\ DOMAIN idle' = 1..(Len(idle) + 1)
      /\ \A n \in 1..(Len(idle) + 1) : idle'[n] = IF n = Len(idle) + 1 THEN k ELSE idle[n]
  BY AppendFacts, LenProperties DEF DataOK
<1>2. \A n \in DOMAIN idle' : idle'[n] = k \/ (n \in DOMAIN idle /\ idle'[n] = idle[n])
  BY <1>1
<1>3. \A n, m \in DOMAIN idle' : idle'[n] = idle'[m] => n = m
  BY <1>1 DEF OneOwner
<1>4. \A j : j \in Elems(idle') => j = k \/ j \in Elems(idle)
  BY <1>2 DEF Elems
<1> QED
  BY <1>3, <1>4, TaskAssumption DEF OneOwner, DataOK, InChannel

\* ... sent on a channel, ...
LEMMA OwnersChannel ==
  ASSUME OneOwner, DataOK, DataOK', NEW k \in Conns, NEW e \in Clients,
         rx' = [rx EXCEPT ![e] = k], idle' = idle,
         \A n \in DOMAIN idle : idle[n] # k,
         \A c \in Clients : rx[c] # k,
         \A t \in Tasks : hand'[t] # None => hand'[t] = hand[t] /\ hand'[t] # k,
         \A j \in Conns : pc'[j] # "none" => pc[j] # "none" /\ j # k
  PROVE  OneOwner'
BY TaskAssumption DEF OneOwner, DataOK, InChannel, Elems

\* ... taken in a hand, ...
LEMMA OwnersHand ==
  ASSUME OneOwner, DataOK, DataOK', NEW k \in Conns, NEW t \in Tasks,
         hand' = [hand EXCEPT ![t] = k],
         \A n \in DOMAIN idle' : idle'[n] # k /\ \E i \in DOMAIN idle : idle'[n] = idle[i],
         \A n, m \in DOMAIN idle' : idle'[n] = idle'[m] => n = m,
         \A c \in Clients : rx'[c] \in Conns => rx'[c] = rx[c] /\ rx'[c] # k,
         \A u \in Tasks : hand[u] # k,
         \A j \in Conns : pc'[j] # "none" => pc[j] # "none" /\ j # k
  PROVE  OneOwner'
BY TaskAssumption DEF OneOwner, DataOK, InChannel, Elems

\* ... or given to its return task.
LEMMA OwnersTask ==
  ASSUME OneOwner, DataOK, DataOK', NEW k \in Conns, idle' = idle, rx' = rx,
         \A n \in DOMAIN idle : idle[n] # k,
         \A c \in Clients : rx[c] # k,
         \A t \in Tasks : hand'[t] # None => hand'[t] = hand[t] /\ hand'[t] # k,
         \A j \in Conns \ {k} : pc'[j] # "none" => pc[j] # "none"
  PROVE  OneOwner'
BY TaskAssumption DEF OneOwner, DataOK, InChannel, Elems

\* create_and_track and warm_up connect to a socket nobody has.
LEMMA FreeConn ==
  ASSUME NEW k \in Free
  PROVE  /\ k \in Conns /\ pc[k] = "none"
         /\ \A n \in DOMAIN idle : idle[n] # k
         /\ \A c \in Clients : rx[c] # k
         /\ \A t \in Tasks : hand[t] # k
BY DEF Free, OpenConns, Elems

LEMMA ConnectOkOwned ==
  ASSUME TypeOK, TypeOK', OneOwner, NEW t \in Creators, ConnectOk(t)
  PROVE  OneOwner'
<1>1. PICK k \in Free : hand' = [hand EXCEPT ![t] = k]
  BY DEF ConnectOk
<1>2. UNCHANGED <<idle, rx>> /\ t \in Tasks
  BY DEF ConnectOk, Creators, Tasks
<1>3. \A j \in Conns : pc'[j] # "none" => pc[j] # "none" /\ j # k
  BY <1>1, FreeConn, TaskAssumption DEF ConnectOk, Goto, AfterCreate, TypeOK, LabelsOK, Tasks
<1> QED
  BY <1>1, <1>2, <1>3, FreeConn, OwnersHand DEF TypeOK, OneOwner

LEMMA WarmConnectOwned ==
  ASSUME TypeOK, TypeOK', OneOwner, NEW w \in Warmers, WarmConnect(w)
  PROVE  OneOwner'
<1>1. UNCHANGED <<idle, rx>> /\ w \in Tasks /\ \A j \in Conns : pc'[j] = pc[j]
  BY TaskAssumption DEF WarmConnect, Goto, Tasks, TypeOK, LabelsOK
<1>2. CASE UNCHANGED hand
  BY <1>1, <1>2, OwnersFrame
<1>3. ASSUME NEW k \in Free, hand' = [hand EXCEPT ![w] = k]
      PROVE  OneOwner'
  <2>1. /\ k \in Conns /\ pc[k] = "none"
        /\ \A n \in DOMAIN idle : idle[n] # k
        /\ \A c \in Clients : rx[c] # k
        /\ \A t \in Tasks : hand[t] # k
    BY FreeConn
  <2>2. \A n, m \in DOMAIN idle' : idle'[n] = idle'[m] => n = m
    BY <1>1 DEF OneOwner
  <2> QED
    BY <1>1, <1>3, <2>1, <2>2, OwnersHand DEF TypeOK
<1> QED
  BY <1>2, <1>3 DEF WarmConnect

LEMMA TakeIdleOwned ==
  ASSUME TypeOK, TypeOK', OneOwner, NEW c \in Clients, TakeIdle(c)
  PROVE  OneOwner'
<1>1. PICK i \in DOMAIN idle :
        hand' = [hand EXCEPT ![c] = idle[i]] /\ idle' = SubSeq(idle, i + 1, Len(idle))
  BY DEF TakeIdle
<1>2. idle \in Seq(Conns) /\ rx' = rx /\ c \in Tasks /\ \A j \in Conns : pc'[j] = pc[j]
  BY TaskAssumption DEF TakeIdle, Goto, Tasks, TypeOK, LabelsOK, DataOK
<1>3. /\ DOMAIN idle' = 1..(Len(idle) - i) /\ i \in Nat /\ idle[i] \in Conns
      /\ \A n \in 1..(Len(idle) - i) : n + i \in DOMAIN idle /\ idle'[n] = idle[n + i]
  BY <1>1, <1>2, SuffixProperties, LenProperties, ElementOfSeq
<1>4. \A n \in DOMAIN idle' : n \in Nat /\ n + i # i
  BY <1>3, LenProperties
<1>5. \A n \in DOMAIN idle' : idle'[n] # idle[i] /\ \E j \in DOMAIN idle : idle'[n] = idle[j]
  BY <1>3, <1>4 DEF OneOwner
<1>6. \A n, m \in DOMAIN idle' : idle'[n] = idle'[m] => n = m
  <2>1. \A n, m \in DOMAIN idle' : idle'[n] = idle'[m] => n + i = m + i
    BY <1>3 DEF OneOwner
  <2> QED
    BY <1>3, <1>4, <2>1
<1>7. /\ \A e \in Clients : rx[e] # idle[i]
      /\ \A u \in Tasks : hand[u] # idle[i]
      /\ \A j \in Conns : pc[j] # "none" => j # idle[i]
  <2>1. idle[i] \in Elems(idle) /\ idle[i] # None
    BY <1>3, TaskAssumption DEF Elems
  <2> QED
    BY <1>3, <2>1 DEF OneOwner, InChannel
<1> QED
  BY <1>1, <1>2, <1>3, <1>5, <1>6, <1>7, OwnersHand, ZenonT(40) DEF TypeOK

LEMMA ReceiveOwned ==
  ASSUME TypeOK, TypeOK', OneOwner, NEW c \in Clients, Receive(c)
  PROVE  OneOwner'
<1>1. /\ rx[c] \in Conns /\ hand' = [hand EXCEPT ![c] = rx[c]] /\ rx' = [rx EXCEPT ![c] = None]
      /\ idle' = idle /\ c \in Tasks /\ \A j \in Conns : pc'[j] = pc[j]
  BY TaskAssumption DEF Receive, Goto, Tasks, TypeOK, LabelsOK
<1>2. /\ \A n \in DOMAIN idle : idle[n] # rx[c]
      /\ \A e \in Clients \ {c} : rx[e] # rx[c]
      /\ \A u \in Tasks : hand[u] # rx[c]
      /\ \A j \in Conns : pc[j] # "none" => j # rx[c]
  BY <1>1, TaskAssumption DEF OneOwner, Elems, InChannel
<1>3. \A e \in Clients : rx'[e] \in Conns => rx'[e] = rx[e] /\ rx'[e] # rx[c]
  BY <1>1, <1>2, TaskAssumption DEF TypeOK, DataOK
<1>4. /\ \A n \in DOMAIN idle' : idle'[n] # rx[c] /\ \E i \in DOMAIN idle : idle'[n] = idle[i]
      /\ \A n, m \in DOMAIN idle' : idle'[n] = idle'[m] => n = m
      /\ \A j \in Conns : pc'[j] # "none" => pc[j] # "none" /\ j # rx[c]
  BY <1>1, <1>2 DEF OneOwner
<1> QED
  BY <1>1, <1>2, <1>3, <1>4, OwnersHand DEF TypeOK

LEMMA DropGuardOwned ==
  ASSUME TypeOK, TypeOK', Whereabouts, OneOwner, NEW c \in Clients, DropGuard(c)
  PROVE  OneOwner'
<1>1. /\ hand[c] \in Conns /\ hand' = [hand EXCEPT ![c] = None]
      /\ idle' = idle /\ rx' = rx /\ c \in Tasks
  BY DEF DropGuard, Tasks, TypeOK, DataOK, Whereabouts, HandsOK
<1>2. \A j \in Conns \ {hand[c]} : pc'[j] = pc[j]
  BY TaskAssumption DEF DropGuard, TypeOK, LabelsOK, Tasks
<1>3. /\ \A n \in DOMAIN idle : idle[n] # hand[c]
      /\ \A e \in Clients : rx[e] # hand[c]
      /\ \A u \in Tasks \ {c} : hand[u] # hand[c]
  BY <1>1, TaskAssumption DEF OneOwner, Elems
<1>4. \A u \in Tasks : hand'[u] # None => hand'[u] = hand[u] /\ hand'[u] # hand[c]
  BY <1>1, <1>3 DEF TypeOK, DataOK
<1> QED
  BY <1>1, <1>2, <1>3, <1>4, OwnersTask DEF TypeOK

LEMMA ReturnSendOwned ==
  ASSUME TypeOK, TypeOK', LiveEntries, OneOwner, NEW k \in Conns, ReturnSend(k)
  PROVE  OneOwner'
<1>1. PICK e \in Clients : rx' = [rx EXCEPT ![e] = k]
  BY DEF ReturnSend, SendToWaiter
<1>2. /\ idle' = idle /\ hand' = hand /\ pc[k] # "none" /\ pc'[k] = "none"
      /\ \A j \in Conns \ {k} : pc'[j] = pc[j]
  BY DEF ReturnSend, Goto, Tasks, TypeOK, LabelsOK
<1>3. /\ \A n \in DOMAIN idle : idle[n] # k
      /\ \A c \in Clients : rx[c] # k
      /\ \A u \in Tasks : hand'[u] # None => hand'[u] = hand[u] /\ hand'[u] # k
      /\ \A j \in Conns : pc'[j] # "none" => pc[j] # "none" /\ j # k
  BY <1>2 DEF OneOwner, Elems
<1> QED
  BY <1>1, <1>2, <1>3, OwnersChannel DEF TypeOK

LEMMA ProvisionSendOwned ==
  ASSUME TypeOK, TypeOK', Whereabouts, OneOwner, NEW k \in Conns, ProvisionSend(k)
  PROVE  OneOwner'
<1>1. PICK e \in Clients : rx' = [rx EXCEPT ![e] = hand[k]]
  BY DEF ProvisionSend, SendToWaiter
<1>2. /\ idle' = idle /\ hand[k] \in Conns /\ hand' = [hand EXCEPT ![k] = None]
      /\ \A j \in Conns : pc'[j] # "none" => pc[j] # "none"
  BY TaskAssumption DEF ProvisionSend, Goto, Tasks, TypeOK, DataOK, LabelsOK, Whereabouts, HandsOK
<1>3. /\ \A n \in DOMAIN idle : idle[n] # hand[k]
      /\ \A c \in Clients : rx[c] # hand[k]
      /\ \A u \in Tasks \ {k} : hand[u] # hand[k]
      /\ \A j \in Conns : pc[j] # "none" => j # hand[k]
  BY <1>2, TaskAssumption DEF OneOwner, Elems, Tasks
<1>4. \A u \in Tasks : hand'[u] # None => hand'[u] = hand[u] /\ hand'[u] # hand[k]
  BY <1>2, <1>3 DEF TypeOK, DataOK
<1> QED
  BY <1>1, <1>2, <1>3, <1>4, OwnersChannel DEF TypeOK

LEMMA ReturnPushOwned ==
  ASSUME TypeOK, TypeOK', OneOwner, NEW k \in Conns, ReturnPush(k)
  PROVE  OneOwner'
<1>1. /\ idle' = Append(idle, k) /\ hand' = hand /\ rx' = rx /\ pc[k] # "none" /\ pc'[k] = "none"
      /\ \A j \in Conns \ {k} : pc'[j] = pc[j]
  BY DEF ReturnPush, Goto, Tasks, TypeOK, LabelsOK
<1> QED
  BY <1>1, OwnersIdle DEF TypeOK, OneOwner, Elems

\* The owner of a fresh connection pushes it.
LEMMA PushOwned ==
  ASSUME TypeOK, TypeOK', Whereabouts, OneOwner, NEW t \in Tasks,
         pc[t] \in {"ppush", "mpush", "wpush"},
         idle' = Append(idle, hand[t]), hand' = [hand EXCEPT ![t] = None], rx' = rx,
         \A j \in Conns : pc'[j] # "none" => pc[j] # "none"
  PROVE  OneOwner'
<1>1. hand[t] \in Conns
  BY DEF TypeOK, DataOK, Whereabouts, HandsOK
<1>2. /\ \A n \in DOMAIN idle : idle[n] # hand[t]
      /\ \A c \in Clients : rx[c] # hand[t]
      /\ \A u \in Tasks \ {t} : hand[u] # hand[t]
      /\ \A j \in Conns : pc[j] # "none" => j # hand[t]
  BY <1>1, TaskAssumption DEF OneOwner, Elems
<1>3. \A u \in Tasks : hand'[u] # None => hand'[u] = hand[u] /\ hand'[u] # hand[t]
  BY <1>2 DEF TypeOK, DataOK
<1> QED
  BY <1>1, <1>2, <1>3, OwnersIdle DEF TypeOK

LEMMA MaintEvictOwned ==
  ASSUME TypeOK, TypeOK', OneOwner, MaintEvict
  PROVE  OneOwner'
<1>1. idle \in Seq(Conns) /\ idle' = Retain(idle, Conns \ expired)
  BY DEF MaintEvict, TypeOK, DataOK
<1>2. \A n \in DOMAIN idle' : \E i \in DOMAIN idle : idle'[n] = idle[i]
  BY <1>1, RetainProperties
<1>3. \A i, j \in DOMAIN idle : idle[i] = idle[j] /\ idle[i] \in Conns => i = j
  BY DEF OneOwner
<1>4. \A n, m \in DOMAIN idle' : idle'[n] = idle'[m] /\ idle'[n] \in Conns => n = m
  BY <1>1, <1>3, RetainProperties
<1>5. \A n \in DOMAIN idle' : idle'[n] \in Conns
  BY <1>1, <1>2, LenProperties, ElementOfSeq
<1>6. rx' = rx /\ hand' = hand /\ \A k \in Conns : pc'[k] = pc[k]
  BY TaskAssumption DEF MaintEvict, Goto, TypeOK, LabelsOK, Tasks
<1>7. Shrinks
  BY <1>2, <1>4, <1>5, <1>6 DEF Shrinks
<1> QED
  BY <1>7, OwnersShrink DEF TypeOK

\* Every step leaves each connection one owner.
LEMMA StepOwned ==
  ASSUME TypeOK, TypeOK', Whereabouts, LiveEntries, OneOwner, [Next]_vars
  PROVE  OneOwner'
<1> USE TaskAssumption DEF TypeOK, LabelsOK, Tasks, Goto
<1>1. ASSUME NEW t \in Creators, Admit(t) PROVE OneOwner'
  BY <1>1, OwnersFrame DEF Admit, Creators
<1>2. ASSUME NEW t \in Creators, Refuse(t) PROVE OneOwner'
  BY <1>2, OwnersFrame DEF Refuse, Creators
<1>3. ASSUME NEW t \in Creators, RollBack(t) PROVE OneOwner'
  BY <1>3, OwnersFrame DEF RollBack, Creators, AfterRefusal
<1>4. ASSUME NEW t \in Creators, ConnectOk(t) PROVE OneOwner'
  BY <1>4, ConnectOkOwned
<1>5. ASSUME NEW t \in Creators, ConnectErr(t) PROVE OneOwner'
  BY <1>5, OwnersFrame DEF ConnectErr, Creators, AfterRefusal
<1>6. ASSUME NEW c \in Clients, GetBegin(c) PROVE OneOwner'
  BY <1>6, OwnersFrame DEF GetBegin
<1>7. ASSUME NEW c \in Clients, TakeIdle(c) PROVE OneOwner'
  BY <1>7, TakeIdleOwned
<1>8. ASSUME NEW c \in Clients, NoIdle(c) PROVE OneOwner'
  BY <1>8, OwnersShrink DEF Shrinks, OneOwner, DataOK, NoIdle
<1>9. ASSUME NEW c \in Clients, CheckCapacity(c) PROVE OneOwner'
  BY <1>9, OwnersFrame DEF CheckCapacity
<1>10. ASSUME NEW c \in Clients, Enqueue(c) PROVE OneOwner'
  BY <1>10, OwnersFrame DEF Enqueue
<1>11. ASSUME NEW c \in Clients, Checkout(c) PROVE OneOwner'
  BY <1>11, OwnersFrame DEF Checkout
<1>12. ASSUME NEW c \in Clients, Receive(c) PROVE OneOwner'
  BY <1>12, ReceiveOwned
<1>13. ASSUME NEW c \in Clients, ReceiveClosed(c) PROVE OneOwner'
  BY <1>13, OwnersShrink DEF Shrinks, OneOwner, DataOK, ReceiveClosed
<1>14. ASSUME NEW c \in Clients, TimeoutElapsed(c) PROVE OneOwner'
  BY <1>14, OwnersFrame DEF TimeoutElapsed
<1>15. ASSUME NEW c \in Clients, TimeoutDrop(c) PROVE OneOwner'
  BY <1>15, OwnersShrink DEF Shrinks, OneOwner, DataOK, TimeoutDrop, DropReceiver
<1>16. ASSUME NEW c \in Clients, Prune(c) PROVE OneOwner'
  BY <1>16, OwnersFrame DEF Prune
<1>17. ASSUME NEW c \in Clients, CancelLock(c) PROVE OneOwner'
  BY <1>17, OwnersFrame DEF CancelLock
<1>18. ASSUME NEW c \in Clients, CancelConnect(c) PROVE OneOwner'
  BY <1>18, OwnersFrame DEF CancelConnect
<1>19. ASSUME NEW c \in Clients, CancelParked(c) PROVE OneOwner'
  BY <1>19, OwnersShrink DEF Shrinks, OneOwner, DataOK, CancelParked, DropReceiver
<1>20. ASSUME NEW c \in Clients, CancelPrune(c) PROVE OneOwner'
  BY <1>20, OwnersFrame DEF CancelPrune
<1>21. ASSUME NEW c \in Clients, Take(c) PROVE OneOwner'
  BY <1>21, OwnersShrink DEF Shrinks, OneOwner, DataOK, Take
<1>22. ASSUME NEW c \in Clients, DropGuard(c) PROVE OneOwner'
  BY <1>22, DropGuardOwned
<1>23. ASSUME NEW k \in Conns, ReturnBegin(k) PROVE OneOwner'
  BY <1>23, OwnersFrame DEF ReturnBegin
<1>24. ASSUME NEW k \in Conns, ReturnDestroy(k) PROVE OneOwner'
  BY <1>24, OwnersFrame DEF ReturnDestroy
<1>25. ASSUME NEW k \in Conns, ReturnReset(k) PROVE OneOwner'
  BY <1>25, OwnersFrame DEF ReturnReset
<1>26. ASSUME NEW k \in Conns, ReturnPanic(k) PROVE OneOwner'
  BY <1>26, OwnersFrame DEF ReturnPanic
<1>27. ASSUME NEW k \in Conns, ReturnDraining(k) PROVE OneOwner'
  BY <1>27, OwnersFrame DEF ReturnDraining
<1>28. ASSUME NEW k \in Conns, ReturnKeep(k) PROVE OneOwner'
  BY <1>28, OwnersFrame DEF ReturnKeep
<1>29. ASSUME NEW k \in Conns, ReturnSend(k) PROVE OneOwner'
  BY <1>29, ReturnSendOwned
<1>30. ASSUME NEW k \in Conns, ReturnUnclaimed(k) PROVE OneOwner'
  BY <1>30, OwnersFrame DEF ReturnUnclaimed
<1>31. ASSUME NEW k \in Conns, ReturnPush(k) PROVE OneOwner'
  BY <1>31, ReturnPushOwned
<1>32. ASSUME NEW k \in Conns, MaybeNotifyDrain(k) PROVE OneOwner'
  BY <1>32, OwnersFrame DEF MaybeNotifyDrain, NotifyOne
<1>33. ASSUME NEW k \in Conns, ProvisionDrainCheck(k) PROVE OneOwner'
  BY <1>33, OwnersFrame DEF ProvisionDrainCheck
<1>34. ASSUME NEW k \in Conns, ProvisionWaiterCheck(k) PROVE OneOwner'
  BY <1>34, OwnersFrame DEF ProvisionWaiterCheck
<1>35. ASSUME NEW k \in Conns, ProvisionSend(k) PROVE OneOwner'
  BY <1>35, ProvisionSendOwned
<1>36. ASSUME NEW k \in Conns, ProvisionUnclaimed(k) PROVE OneOwner'
  BY <1>36, OwnersFrame DEF ProvisionUnclaimed
<1>37. ASSUME NEW k \in Conns, ProvisionPush(k) PROVE OneOwner'
  BY <1>37, PushOwned DEF ProvisionPush
<1>38. ASSUME NEW k \in Conns, Break(k) PROVE OneOwner'
  BY <1>38, OwnersFrame DEF Break
<1>39. ASSUME NEW k \in Conns, Expire(k) PROVE OneOwner'
  BY <1>39, OwnersFrame DEF Expire
<1>40. ASSUME MaintTick PROVE OneOwner'
  BY <1>40, OwnersFrame DEF MaintTick
<1>41. ASSUME MaintShutdown PROVE OneOwner'
  BY <1>41, OwnersFrame DEF MaintShutdown
<1>42. ASSUME MaintEvict PROVE OneOwner'
  BY <1>42, MaintEvictOwned
<1>43. ASSUME MaintLoadTotal PROVE OneOwner'
  BY <1>43, OwnersFrame DEF MaintLoadTotal
<1>44. ASSUME MaintLoadInUse PROVE OneOwner'
  BY <1>44, OwnersFrame DEF MaintLoadInUse
<1>45. ASSUME MaintPush PROVE OneOwner'
  BY <1>45, PushOwned DEF MaintPush
<1>46. ASSUME NEW d \in Drainers, DrainBegin(d) PROVE OneOwner'
  BY <1>46, OwnersFrame DEF DrainBegin
<1>47. ASSUME NEW d \in Drainers, DrainIdle(d) PROVE OneOwner'
  BY <1>47, OwnersShrink DEF Shrinks, OneOwner, DataOK, DrainIdle
<1>48. ASSUME NEW d \in Drainers, DrainWaiters(d) PROVE OneOwner'
  BY <1>48, OwnersShrink DEF Shrinks, OneOwner, DataOK, DrainWaiters
<1>49. ASSUME NEW d \in Drainers, DrainCheck(d) PROVE OneOwner'
  BY <1>49, OwnersFrame DEF DrainCheck
<1>50. ASSUME NEW d \in Drainers, DrainPermit(d) PROVE OneOwner'
  BY <1>50, OwnersFrame DEF DrainPermit
<1>51. ASSUME NEW w \in Warmers, WarmBegin(w) PROVE OneOwner'
  BY <1>51, OwnersFrame DEF WarmBegin
<1>52. ASSUME NEW w \in Warmers, WarmConnect(w) PROVE OneOwner'
  BY <1>52, WarmConnectOwned
<1>53. ASSUME NEW w \in Warmers, WarmPush(w) PROVE OneOwner'
  BY <1>53, PushOwned DEF WarmPush
<1>54. ASSUME NEW w \in Warmers, WarmCount(w) PROVE OneOwner'
  BY <1>54, OwnersFrame DEF WarmCount
<1>55. CASE UNCHANGED vars
  BY <1>55, OwnersFrame DEF vars
<1> QED
  BY <1>1, <1>2, <1>3, <1>4, <1>5, <1>6, <1>7, <1>8, <1>9, <1>10, <1>11, <1>12, <1>13, <1>14,
     <1>15, <1>16, <1>17, <1>18, <1>19, <1>20, <1>21, <1>22, <1>23, <1>24, <1>25, <1>26, <1>27,
     <1>28, <1>29, <1>30, <1>31, <1>32, <1>33, <1>34, <1>35, <1>36, <1>37, <1>38, <1>39, <1>40,
     <1>41, <1>42, <1>43, <1>44, <1>45, <1>46, <1>47, <1>48, <1>49, <1>50, <1>51, <1>52, <1>53,
     <1>54, <1>55
     DEF Next, CreateStep, GetStep, Cancel, ReturnStep, MaintStep, DrainStep, WarmStep
-----------------------------------------------------------------------------
(* The theorems.                                                           *)

\* The inductive invariant.  None of its parts is inductive alone: a return task
\* may answer a waiter (ChannelsOK) only because live entries belong to waiting
\* clients, and a dropped guard may start a return task (HandsOK) only because
\* its connection has no other owner.
IndInv == TypeOK /\ Whereabouts /\ Queued /\ LiveEntries /\ OneOwner

\* new() pushes different connections.
LEMMA InitDistinct == Init => \A i, j \in DOMAIN idle : idle[i] = idle[j] => i = j
<1> SUFFICES ASSUME Init PROVE \A i, j \in DOMAIN idle : idle[i] = idle[j] => i = j
  OBVIOUS
<1>1. PICK n \in 0..MinIdle : idle \in [1..n -> Conns] /\ Cardinality(Elems(idle)) = n
  BY DEF Init
<1>2. n \in Nat
  BY <1>1, ConfigAssumption
<1>3. IsFiniteSet(1..n) /\ Cardinality(1..n) = n
  BY <1>2, FS_Interval
<1>4. DOMAIN idle = 1..n
  BY <1>1
<1>5. idle \in Surjection(1..n, Elems(idle))
  BY <1>1, <1>4 DEF Elems, Surjection
<1>6. idle \in Injection(1..n, Elems(idle))
  BY <1>1, <1>3, <1>5, FS_Surjection
<1> QED
  BY <1>4, <1>6 DEF Injection, IsInjective

LEMMA InitInd == Init => IndInv
<1> SUFFICES ASSUME Init PROVE IndInv
  OBVIOUS
<1>1. Queued /\ LiveEntries
  BY TaskAssumption DEF Init, Queued, LiveEntries, Tasks
<1>2. OneOwner
  <2>1. /\ \A t \in Tasks : hand[t] = None
        /\ \A c \in Clients : rx[c] = None
    BY DEF Init
  <2>2. ASSUME NEW k \in Conns PROVE pc[k] = "none"
    <3>1. k \in Tasks
      BY DEF Tasks
    <3>2. pc[k] = CASE k \in Conns -> "none" [] k = Maint -> "sleep" [] OTHER -> "out"
      BY <3>1 DEF Init
    <3>3. k # Maint
      BY TaskAssumption
    <3> QED
      BY <3>2, <3>3
  <2> QED
    BY <2>1, <2>2, InitDistinct, TaskAssumption DEF OneOwner, InChannel
<1> QED
  BY <1>1, <1>2, InitTyped DEF IndInv

LEMMA StepInd == IndInv /\ [Next]_vars => IndInv'
<1> SUFFICES ASSUME IndInv, [Next]_vars PROVE IndInv'
  OBVIOUS
<1>1. TypeOK' /\ Whereabouts'
  BY StepTyped DEF IndInv
<1>2. LiveEntries' /\ Queued'
  BY StepLive, StepQueued DEF IndInv
<1>3. OneOwner'
  BY <1>1, StepOwned DEF IndInv
<1> QED
  BY <1>1, <1>2, <1>3 DEF IndInv

\* Every reachable state satisfies the inductive invariant: no step of any task of
\* the pool breaks the types, the ownership or the waiter queue.
THEOREM Inductive == Spec => []IndInv
BY InitInd, StepInd, PTL DEF Spec

\* Every variable keeps its type, for every number of clients, connections,
\* drainers and warmers, and every configuration.
THEOREM TypeCorrect == Spec => []TypeOK
<1>1. IndInv => TypeOK
  BY DEF IndInv
<1> QED
  BY <1>1, Inductive, PTL

\* No connection is ever in two hands: whatever get, return, provisioning,
\* maintenance, drain and warm_up do to it, it has one owner.
THEOREM OwnersUnique == Spec => []OneOwner
<1>1. IndInv => OneOwner
  BY DEF IndInv
<1> QED
  BY <1>1, Inductive, PTL

\* A client that waits is in the queue once, and its entry can be answered.
THEOREM WaitersStayReachable == Spec => []WaitersReachable
<1>1. IndInv => WaitersReachable
  BY DEF IndInv, WaitersReachable
<1> QED
  BY <1>1, Inductive, PTL

\* Every local variable is where its task is: a connection in a hand is being handed over,
\* used or returned, a channel is filled only for a client that still waits, and the loops
\* of maintenance and warm_up have work left (get, return_conn_async,
\* try_provision_for_waiter, maintenance_task, warm_up).
THEOREM EverythingInPlace == Spec => []Whereabouts
<1>1. IndInv => Whereabouts
  BY DEF IndInv
<1> QED
  BY <1>1, Inductive, PTL

-----------------------------------------------------------------------------
(* Counting the tasks of T whose entry of f is in L.                       *)

CountIn(f, T, L) == Cardinality({u \in T : f[u] \in L})

LEMMA CountType ==
  ASSUME NEW T, IsFiniteSet(T), NEW f, NEW L
  PROVE  IsFiniteSet({u \in T : f[u] \in L}) /\ CountIn(f, T, L) \in Nat
<1>1. {u \in T : f[u] \in L} \in SUBSET T
  OBVIOUS
<1> QED
  BY <1>1, FS_Subset, FS_CardinalityType DEF CountIn

\* One entry changes: the count moves by at most one.
LEMMA CountMove ==
  ASSUME NEW T, IsFiniteSet(T), NEW L, NEW f, NEW g, NEW t, NEW l,
         \A u \in T : g[u] = IF u = t THEN l ELSE f[u]
  PROVE  /\ t \in T /\ l \in L /\ f[t] \notin L => CountIn(g, T, L) = CountIn(f, T, L) + 1
         /\ t \in T /\ l \notin L /\ f[t] \in L
              => CountIn(g, T, L) = CountIn(f, T, L) - 1 /\ CountIn(f, T, L) > 0
         /\ (t \in T => (l \in L <=> f[t] \in L)) => CountIn(g, T, L) = CountIn(f, T, L)
<1> DEFINE F == {u \in T : f[u] \in L}
           G == {u \in T : g[u] \in L}
<1>1. /\ IsFiniteSet(F) /\ Cardinality(F) \in Nat
      /\ IsFiniteSet(G) /\ Cardinality(G) \in Nat
  <2>1. F \in SUBSET T /\ G \in SUBSET T
    OBVIOUS
  <2> QED
    BY <2>1, FS_Subset, FS_CardinalityType
<1>2. \A u \in T : g[u] = IF u = t THEN l ELSE f[u]
  OBVIOUS
<1>3. ASSUME t \in T, l \in L, f[t] \notin L
      PROVE  Cardinality(G) = Cardinality(F) + 1
  <2>1. G = F \cup {t} /\ t \notin F
    BY <1>2, <1>3
  <2> QED
    BY <1>1, <2>1, FS_AddElement
<1>4. ASSUME t \in T, l \notin L, f[t] \in L
      PROVE  Cardinality(G) = Cardinality(F) - 1 /\ Cardinality(F) > 0
  <2>1. G = F \ {t} /\ t \in F
    BY <1>2, <1>4
  <2>2. Cardinality(F) # 0
    BY <1>1, <2>1, FS_EmptySet
  <2>3. Cardinality(F \ {t}) = Cardinality(F) - 1
    BY <1>1, <2>1, FS_RemoveElement
  <2> HIDE DEF F, G
  <2> QED
    BY <1>1, <2>1, <2>2, <2>3
<1>5. ASSUME t \in T => (l \in L <=> f[t] \in L)
      PROVE  Cardinality(G) = Cardinality(F)
  <2>1. G = F
    BY <1>2, <1>5
  <2> QED
    BY <2>1
<1> QED
  BY <1>3, <1>4, <1>5 DEF CountIn

-----------------------------------------------------------------------------
(* The counters as counts of labels.                                       *)

\* Labels at which a task owns, or is opening, a connection of its own; and those
\* at which a return task has not decided about its connection.
OwnL == {"connect", "got", "held", "psend", "ppush", "mpush"}
RetL == {"start", "check", "drainck", "route", "push"}

Held == {c \in Clients : pc[c] = "held"}

LEMMA FiniteTasks ==
  /\ IsFiniteSet(Clients) /\ IsFiniteSet(Conns) /\ IsFiniteSet(Creators)
  /\ IsFiniteSet(Clients \cup Conns)
  /\ Clients \subseteq Tasks /\ Conns \subseteq Tasks /\ Creators \subseteq Tasks
<1>1. IsFiniteSet({Maint})
  BY FS_Singleton
<1> QED
  BY <1>1, TaskAssumption, FS_Union DEF Creators, Tasks

LEMMA UsableSum ==
  ASSUME TypeOK, HandsOK
  PROVE  /\ Usable = Len(idle) + CountIn(rx, Clients, Conns) + CountIn(pc, Creators, OwnL)
                       + CountIn(pc, Conns, RetL)
         /\ Cardinality(RollingBack) = CountIn(pc, Creators, {"rollback"})
         /\ Len(idle) \in Nat /\ CountIn(rx, Clients, Conns) \in Nat
         /\ CountIn(pc, Creators, OwnL) \in Nat /\ CountIn(pc, Conns, RetL) \in Nat
         /\ CountIn(pc, Creators, {"rollback"}) \in Nat
<1>1. InHand = {t \in Creators : pc[t] \in OwnL}
  <2>1. ASSUME NEW t \in Creators
        PROVE  hand[t] # None \/ pc[t] = "connect" <=> pc[t] \in OwnL
    <3>1. pc[t] # "wpush"
      BY DEF TypeOK, LabelsOK, Creators, ClientPC, ReturnPC, MaintPC
    <3>2. t \in Tasks
      BY FiniteTasks
    <3>3. hand[t] # None <=> pc[t] \in {"got", "held", "psend", "ppush", "mpush", "wpush"}
      BY <3>2 DEF HandsOK
    <3> QED
      BY <3>1, <3>3 DEF OwnL
  <2> QED
    BY <2>1 DEF InHand
<1>2. InChannel = {c \in Clients : rx[c] \in Conns}
  BY DEF InChannel
<1>3. Returning = {k \in Conns : pc[k] \in RetL}
  BY DEF Returning, RetL
<1>4. RollingBack = {t \in Creators : pc[t] \in {"rollback"}}
  BY DEF RollingBack
<1>5. Len(idle) \in Nat
  BY LenProperties DEF TypeOK, DataOK
<1>6. /\ CountIn(rx, Clients, Conns) \in Nat /\ CountIn(pc, Creators, OwnL) \in Nat
      /\ CountIn(pc, Conns, RetL) \in Nat /\ CountIn(pc, Creators, {"rollback"}) \in Nat
  BY FiniteTasks, CountType
<1>7. /\ Cardinality(InChannel) = CountIn(rx, Clients, Conns)
      /\ Cardinality(InHand) = CountIn(pc, Creators, OwnL)
      /\ Cardinality(Returning) = CountIn(pc, Conns, RetL)
      /\ Cardinality(RollingBack) = CountIn(pc, Creators, {"rollback"})
  BY <1>1, <1>2, <1>3, <1>4 DEF CountIn
<1> QED
  BY <1>5, <1>6, <1>7 DEF Usable

\* The counts after a task has gone to label l.
LEMMA GotoCounts ==
  ASSUME LabelsOK, NEW t \in Tasks, NEW l, Goto(t, l), NEW T \in SUBSET Tasks, IsFiniteSet(T), NEW L
  PROVE  /\ t \in T /\ l \in L /\ pc[t] \notin L => CountIn(pc', T, L) = CountIn(pc, T, L) + 1
         /\ t \in T /\ l \notin L /\ pc[t] \in L
              => CountIn(pc', T, L) = CountIn(pc, T, L) - 1 /\ CountIn(pc, T, L) > 0
         /\ (t \in T => (l \in L <=> pc[t] \in L)) => CountIn(pc', T, L) = CountIn(pc, T, L)
<1>1. \A u \in T : pc'[u] = IF u = t THEN l ELSE pc[u]
  BY DEF LabelsOK, Goto
<1> QED
  BY <1>1, CountMove

Owned    == CountIn(pc, Creators, OwnL)
Deciding == CountIn(pc, Conns, RetL)
Rolling  == CountIn(pc, Creators, {"rollback"})
Sent     == CountIn(rx, Clients, Conns)

\* What a step of task t to label l does to the sums.
LEMMA GotoSums ==
  ASSUME LabelsOK, NEW t \in Tasks, NEW l, Goto(t, l)
  PROVE  /\ t \in Creators /\ l \in OwnL /\ pc[t] \notin OwnL => Owned' = Owned + 1
         /\ t \in Creators /\ l \notin OwnL /\ pc[t] \in OwnL => Owned' = Owned - 1 /\ Owned > 0
         /\ (t \in Creators => (l \in OwnL <=> pc[t] \in OwnL)) => Owned' = Owned
         /\ t \in Conns /\ l \in RetL /\ pc[t] \notin RetL => Deciding' = Deciding + 1
         /\ t \in Conns /\ l \notin RetL /\ pc[t] \in RetL => Deciding' = Deciding - 1 /\ Deciding > 0
         /\ (t \in Conns => (l \in RetL <=> pc[t] \in RetL)) => Deciding' = Deciding
         /\ t \in Creators /\ l = "rollback" /\ pc[t] # "rollback" => Rolling' = Rolling + 1
         /\ t \in Creators /\ l # "rollback" /\ pc[t] = "rollback" => Rolling' = Rolling - 1 /\ Rolling > 0
         /\ (l = "rollback" <=> pc[t] = "rollback") => Rolling' = Rolling
         /\ (l = "held" <=> pc[t] = "held") => Held' = Held
<1>1. /\ t \in Creators /\ l \in OwnL /\ pc[t] \notin OwnL => Owned' = Owned + 1
      /\ t \in Creators /\ l \notin OwnL /\ pc[t] \in OwnL => Owned' = Owned - 1 /\ Owned > 0
      /\ (t \in Creators => (l \in OwnL <=> pc[t] \in OwnL)) => Owned' = Owned
  BY GotoCounts, FiniteTasks DEF Owned
<1>2. /\ t \in Conns /\ l \in RetL /\ pc[t] \notin RetL => Deciding' = Deciding + 1
      /\ t \in Conns /\ l \notin RetL /\ pc[t] \in RetL => Deciding' = Deciding - 1 /\ Deciding > 0
      /\ (t \in Conns => (l \in RetL <=> pc[t] \in RetL)) => Deciding' = Deciding
  BY GotoCounts, FiniteTasks DEF Deciding
<1>3. /\ t \in Creators /\ l = "rollback" /\ pc[t] # "rollback" => Rolling' = Rolling + 1
      /\ t \in Creators /\ l # "rollback" /\ pc[t] = "rollback" => Rolling' = Rolling - 1 /\ Rolling > 0
      /\ (l = "rollback" <=> pc[t] = "rollback") => Rolling' = Rolling
  <2> DEFINE L == {"rollback"}
  <2>1. \A x : x \in L <=> x = "rollback"
    OBVIOUS
  <2> HIDE DEF L
  <2>2. /\ t \in Creators /\ l \in L /\ pc[t] \notin L
             => CountIn(pc', Creators, L) = CountIn(pc, Creators, L) + 1
        /\ t \in Creators /\ l \notin L /\ pc[t] \in L
             => CountIn(pc', Creators, L) = CountIn(pc, Creators, L) - 1 /\ CountIn(pc, Creators, L) > 0
        /\ (t \in Creators => (l \in L <=> pc[t] \in L))
             => CountIn(pc', Creators, L) = CountIn(pc, Creators, L)
    BY GotoCounts, FiniteTasks
  <2>3. Rolling = CountIn(pc, Creators, L) /\ Rolling' = CountIn(pc', Creators, L)
    BY DEF Rolling, L
  <2> QED
    BY <2>1, <2>2, <2>3
<1>4. (l = "held" <=> pc[t] = "held") => Held' = Held
  <2>1. \A c \in Clients : pc'[c] = IF c = t THEN l ELSE pc[c]
    BY FiniteTasks DEF LabelsOK, Goto
  <2> QED
    BY <2>1 DEF Held
<1> QED
  BY <1>1, <1>2, <1>3, <1>4

-----------------------------------------------------------------------------
(* The kinds of steps.                                                     *)

Rollers == Cardinality(RollingBack)

Quiet == /\ Usable' = Usable /\ Rollers' = Rollers
         /\ total_count' = total_count /\ leaked' = leaked

Reserved == /\ total_count < MaxSize
            /\ Usable' = Usable + 1 /\ Rollers' = Rollers
            /\ total_count' = Inc(total_count) /\ leaked' = leaked

Refused == /\ Usable' = Usable /\ Rollers' = Rollers + 1
           /\ total_count' = Inc(total_count) /\ leaked' = leaked

RolledBack == /\ Rollers > 0
              /\ Usable' = Usable /\ Rollers' = Rollers - 1
              /\ total_count' = Sub(total_count, 1) /\ leaked' = leaked

ClosedSome(n) == /\ n \in Nat /\ n <= Usable
                 /\ Usable' = Usable - n /\ Rollers' = Rollers
                 /\ total_count' = Sub(total_count, n) /\ leaked' = leaked

Lost == /\ Usable > 0
        /\ Usable' = Usable - 1 /\ Rollers' = Rollers
        /\ total_count' = total_count /\ leaked' = leaked + 1

\* What a step does to the books, and to the set of clients that hold a guard.
Booked ==
  \/ /\ Quiet \/ Reserved \/ Refused \/ RolledBack \/ Lost \/ \E n \in Nat : ClosedSome(n)
     /\ Held' = Held
  \/ \E c \in Clients \ Held : Quiet /\ Held' = Held \cup {c}
  \/ \E c \in Held : (Quiet \/ ClosedSome(1)) /\ Held' = Held \ {c}

\* Both states of a step are well formed.
Formed == TypeOK /\ HandsOK /\ TypeOK' /\ HandsOK'

SumsHold ==
  TypeOK /\ HandsOK =>
    /\ Usable = Len(idle) + Sent + Owned + Deciding /\ Rollers = Rolling
    /\ Len(idle) \in Nat /\ Sent \in Nat /\ Owned \in Nat /\ Deciding \in Nat
    /\ Rolling \in Nat

LEMMA SumsNow == SumsHold
BY UsableSum DEF SumsHold, Sent, Owned, Deciding, Rolling, Rollers

LEMMA SumsNext == SumsHold'
BY SumsNow, PTL

LEMMA Sums ==
  ASSUME Formed
  PROVE  /\ Usable = Len(idle) + Sent + Owned + Deciding /\ Rollers = Rolling
         /\ Usable' = Len(idle') + Sent' + Owned' + Deciding' /\ Rollers' = Rolling'
         /\ Len(idle) \in Nat /\ Sent \in Nat /\ Owned \in Nat /\ Deciding \in Nat
         /\ Len(idle') \in Nat /\ Sent' \in Nat /\ Owned' \in Nat /\ Deciding' \in Nat
         /\ Rolling \in Nat /\ Rolling' \in Nat
         /\ total_count \in Nat /\ leaked \in Nat
BY SumsNow, SumsNext DEF SumsHold, Formed, TypeOK, DataOK

\* A step that only moves a task between labels of the same kind changes no sum.
LEMMA GotoQuiet ==
  ASSUME Formed, NEW t \in Tasks, NEW l, Goto(t, l), UNCHANGED <<idle, rx, total_count, leaked>>,
         t \in Creators => (l \in OwnL <=> pc[t] \in OwnL),
         t \in Conns => (l \in RetL <=> pc[t] \in RetL),
         l = "rollback" <=> pc[t] = "rollback", l = "held" <=> pc[t] = "held"
  PROVE  Booked
<1>1. LabelsOK
  BY DEF Formed, TypeOK
<1>2. Owned' = Owned /\ Deciding' = Deciding /\ Rolling' = Rolling /\ Held' = Held
  BY <1>1, GotoSums
<1>3. Sent' = Sent /\ Len(idle') = Len(idle)
  BY DEF Sent
<1> QED
  BY <1>2, <1>3, Sums, SMTT(30) DEF Booked, Quiet

LEMMA StillQuiet ==
  ASSUME Formed, UNCHANGED <<pc, idle, rx, total_count, leaked>>
  PROVE  Booked
<1>1. Owned' = Owned /\ Deciding' = Deciding /\ Rolling' = Rolling /\ Held' = Held
  BY DEF Owned, Deciding, Rolling, Held
<1>2. Sent' = Sent /\ Len(idle') = Len(idle)
  BY DEF Sent
<1> QED
  BY <1>1, <1>2, Sums, SMTT(30) DEF Booked, Quiet

-----------------------------------------------------------------------------
(* create_and_track.                                                       *)

LEMMA AdmitBooked ==
  ASSUME Formed, NEW t \in Creators, Admit(t)
  PROVE  Booked
<1>1. LabelsOK /\ t \in Tasks
  BY FiniteTasks DEF Formed, TypeOK
<1>2. pc[t] = "reserve" /\ Goto(t, "connect")
  BY DEF Admit
<1>3. Owned' = Owned + 1 /\ Deciding' = Deciding /\ Rolling' = Rolling /\ Held' = Held
  BY <1>1, <1>2, GotoSums DEF OwnL, RetL
<1>4. Sent' = Sent /\ Len(idle') = Len(idle)
  BY DEF Sent, Admit
<1>5. total_count < MaxSize /\ total_count' = Inc(total_count) /\ leaked' = leaked
  BY DEF Admit
<1> QED
  BY <1>3, <1>4, <1>5, Sums, SMTT(30) DEF Booked, Reserved

LEMMA RefuseBooked ==
  ASSUME Formed, NEW t \in Creators, Refuse(t)
  PROVE  Booked
<1>1. LabelsOK /\ t \in Tasks
  BY FiniteTasks DEF Formed, TypeOK
<1>2. pc[t] = "reserve" /\ Goto(t, "rollback")
  BY DEF Refuse
<1>3. Owned' = Owned /\ Deciding' = Deciding /\ Rolling' = Rolling + 1 /\ Held' = Held
  BY <1>1, <1>2, GotoSums DEF OwnL, RetL
<1>4. Sent' = Sent /\ Len(idle') = Len(idle)
  BY DEF Sent, Refuse
<1> QED
  BY <1>3, <1>4, Sums, SMTT(30) DEF Booked, Refused, Refuse

LEMMA RollBackBooked ==
  ASSUME Formed, NEW t \in Creators, RollBack(t)
  PROVE  Booked
<1>1. LabelsOK /\ t \in Tasks
  BY FiniteTasks DEF Formed, TypeOK
<1>2. pc[t] = "rollback" /\ Goto(t, AfterRefusal(t))
  BY DEF RollBack
<1>3. AfterRefusal(t) \in {"enqueue", "notify", "sleep"}
  BY DEF AfterRefusal
<1>4. Owned' = Owned /\ Deciding' = Deciding /\ Rolling' = Rolling - 1 /\ Rolling > 0 /\ Held' = Held
  BY <1>1, <1>2, <1>3, GotoSums DEF OwnL, RetL
<1>5. Sent' = Sent /\ Len(idle') = Len(idle)
  BY DEF Sent, RollBack
<1> QED
  BY <1>4, <1>5, Sums, SMTT(30) DEF Booked, RolledBack, RollBack

LEMMA ConnectErrBooked ==
  ASSUME Formed, NEW t \in Creators, ConnectErr(t)
  PROVE  Booked
<1>1. LabelsOK /\ t \in Tasks
  BY FiniteTasks DEF Formed, TypeOK
<1>2. pc[t] = "connect" /\ Goto(t, AfterRefusal(t))
  BY DEF ConnectErr
<1>3. AfterRefusal(t) \in {"enqueue", "notify", "sleep"}
  BY DEF AfterRefusal
<1>4. Owned' = Owned - 1 /\ Owned > 0 /\ Deciding' = Deciding /\ Rolling' = Rolling /\ Held' = Held
  BY <1>1, <1>2, <1>3, GotoSums DEF OwnL, RetL
<1>5. Sent' = Sent /\ Len(idle') = Len(idle)
  BY DEF Sent, ConnectErr
<1>6. ClosedSome(1)
  <2>1. Usable' = Usable - 1 /\ 1 <= Usable /\ Rollers' = Rollers
    BY <1>4, <1>5, Sums, SMTT(30)
  <2>2. total_count' = Sub(total_count, 1) /\ leaked' = leaked
    BY DEF ConnectErr
  <2> QED
    BY <2>1, <2>2 DEF ClosedSome
<1> QED
  BY <1>4, <1>6 DEF Booked

LEMMA ConnectOkBooked ==
  ASSUME Formed, NEW t \in Creators, ConnectOk(t)
  PROVE  Booked
<1>1. t \in Tasks
  BY FiniteTasks
<1>2. pc[t] = "connect" /\ Goto(t, AfterCreate(t)) /\ UNCHANGED <<idle, rx, total_count, leaked>>
  BY DEF ConnectOk
<1>3. AfterCreate(t) \in {"got", "psend", "mpush"}
  BY DEF AfterCreate
<1> QED
  BY <1>1, <1>2, <1>3, GotoQuiet DEF OwnL, RetL

-----------------------------------------------------------------------------
(* get() and the guard.                                                    *)

LEMMA TakeSums ==
  ASSUME Formed, NEW i, i \in Nat, i >= 1, i <= Len(idle),
         Len(idle') = Len(idle) - i, Sent' = Sent, Owned' = Owned + 1, Deciding' = Deciding
  PROVE  Usable' = Usable - (i - 1) /\ i - 1 <= Usable
<1>1. Len(idle) \in Nat /\ Sent \in Nat /\ Owned \in Nat /\ Deciding \in Nat
  BY Sums
<1>2. Usable = Len(idle) + Sent + Owned + Deciding
  BY Sums
<1>3. Usable' = (Len(idle) - i) + Sent + (Owned + 1) + Deciding
  BY Sums
<1>4. (Len(idle) - i) + Sent + (Owned + 1) + Deciding
        = (Len(idle) + Sent + Owned + Deciding) - (i - 1)
  BY <1>1
<1>5. i - 1 <= Len(idle) + Sent + Owned + Deciding
  BY <1>1
<1>6. Usable' = Usable - (i - 1)
  BY <1>2, <1>3, <1>4
<1>7. i - 1 <= Usable
  BY <1>2, <1>5
<1> QED
  BY <1>6, <1>7

LEMMA TakeIdleBooked ==
  ASSUME Formed, NEW c \in Clients, TakeIdle(c)
  PROVE  Booked
<1>1. LabelsOK /\ c \in Tasks /\ c \in Creators /\ c \notin Conns
  BY FiniteTasks, TaskAssumption DEF Formed, TypeOK, Creators
<1>2. PICK i \in DOMAIN idle : /\ idle' = SubSeq(idle, i + 1, Len(idle))
                               /\ total_count' = Sub(total_count, i - 1)
  BY DEF TakeIdle
<1>3. Owned' = Owned + 1 /\ Deciding' = Deciding /\ Rolling' = Rolling /\ Held' = Held
  BY <1>1, GotoSums DEF TakeIdle, OwnL, RetL
<1>4. Sent' = Sent /\ leaked' = leaked
  BY DEF Sent, TakeIdle
<1>5. idle \in Seq(Conns) /\ Len(idle) \in Nat /\ i \in 1..Len(idle)
  BY <1>2, LenProperties DEF Formed, TypeOK, DataOK
<1>6. Len(idle') = Len(idle) - i
  BY <1>2, <1>5, SuffixProperties
<1>7. i \in Nat /\ i >= 1 /\ i <= Len(idle)
  BY <1>5
<1>8. Rollers' = Rollers
  BY <1>3, Sums, SMTT(30)
<1>9. Usable' = Usable - (i - 1) /\ i - 1 <= Usable
  BY <1>3, <1>4, <1>6, <1>7, TakeSums
<1>10. ClosedSome(i - 1) /\ i - 1 \in Nat
  BY <1>2, <1>4, <1>7, <1>8, <1>9 DEF ClosedSome
<1> QED
  BY <1>3, <1>10 DEF Booked

LEMMA NoIdleBooked ==
  ASSUME Formed, NEW c \in Clients, NoIdle(c)
  PROVE  Booked
<1>1. LabelsOK /\ c \in Tasks
  BY FiniteTasks DEF Formed, TypeOK
<1>2. Owned' = Owned /\ Deciding' = Deciding /\ Rolling' = Rolling /\ Held' = Held
  BY <1>1, GotoSums DEF NoIdle, OwnL, RetL
<1>3. Sent' = Sent /\ leaked' = leaked /\ Len(idle') = 0 /\ total_count' = Sub(total_count, Len(idle))
  BY EmptySeq DEF Sent, NoIdle
<1>4. ClosedSome(Len(idle))
  BY <1>2, <1>3, Sums, SMTT(30) DEF ClosedSome
<1> QED
  BY <1>2, <1>4, Sums, SMTT(30) DEF Booked

\* A client that goes to "held" or leaves it.
LEMMA HeldMove ==
  ASSUME LabelsOK, NEW c \in Clients, NEW l, Goto(c, l)
  PROVE  Held' = IF l = "held" THEN Held \cup {c} ELSE Held \ {c}
<1>1. \A e \in Clients : pc'[e] = IF e = c THEN l ELSE pc[e]
  BY FiniteTasks DEF LabelsOK, Goto
<1> QED
  BY <1>1 DEF Held

LEMMA CheckoutBooked ==
  ASSUME Formed, NEW c \in Clients, Checkout(c)
  PROVE  Booked
<1>1. LabelsOK /\ c \in Tasks /\ pc[c] = "got" /\ Goto(c, "held")
  BY FiniteTasks DEF Formed, TypeOK, Checkout
<1>2. Owned' = Owned /\ Deciding' = Deciding /\ Rolling' = Rolling
  BY <1>1, GotoSums DEF OwnL, RetL
<1>3. Sent' = Sent /\ Len(idle') = Len(idle)
  BY DEF Sent, Checkout
<1>4. Held' = Held \cup {c} /\ c \notin Held
  BY <1>1, HeldMove DEF Held
<1>5. Quiet
  BY <1>2, <1>3, Sums, SMTT(30) DEF Quiet, Checkout
<1> QED
  BY <1>4, <1>5 DEF Booked

\* rx after the entry of one client has changed.
LEMMA SentMove ==
  ASSUME NEW c \in Clients, NEW v, \A u \in Clients : rx'[u] = IF u = c THEN v ELSE rx[u]
  PROVE  /\ v \in Conns /\ rx[c] \notin Conns => Sent' = Sent + 1
         /\ v \notin Conns /\ rx[c] \in Conns => Sent' = Sent - 1 /\ Sent > 0
         /\ (v \in Conns <=> rx[c] \in Conns) => Sent' = Sent
<1>1. IsFiniteSet(Clients)
  BY FiniteTasks
<1>2. /\ c \in Clients /\ v \in Conns /\ rx[c] \notin Conns
           => CountIn(rx', Clients, Conns) = CountIn(rx, Clients, Conns) + 1
      /\ c \in Clients /\ v \notin Conns /\ rx[c] \in Conns
           => /\ CountIn(rx', Clients, Conns) = CountIn(rx, Clients, Conns) - 1
              /\ CountIn(rx, Clients, Conns) > 0
      /\ (c \in Clients => (v \in Conns <=> rx[c] \in Conns))
           => CountIn(rx', Clients, Conns) = CountIn(rx, Clients, Conns)
  BY <1>1, CountMove
<1> QED
  BY <1>2 DEF Sent

\* The same for a whole-record update of rx.
LEMMA RxEntry ==
  ASSUME DataOK, NEW c \in Clients, NEW v, rx' = [rx EXCEPT ![c] = v]
  PROVE  \A u \in Clients : rx'[u] = IF u = c THEN v ELSE rx[u]
BY DEF DataOK

LEMMA ReceiveBooked ==
  ASSUME Formed, NEW c \in Clients, Receive(c)
  PROVE  Booked
<1>1. LabelsOK /\ DataOK /\ c \in Tasks /\ c \in Creators /\ None \notin Conns
  BY FiniteTasks, TaskAssumption DEF Formed, TypeOK, Creators
<1>2. Owned' = Owned + 1 /\ Deciding' = Deciding /\ Rolling' = Rolling /\ Held' = Held
  BY <1>1, TaskAssumption, GotoSums DEF Receive, OwnL, RetL
<1>3. Sent' = Sent - 1
  BY <1>1, RxEntry, SentMove DEF Receive
<1>4. Len(idle') = Len(idle)
  BY DEF Receive
<1>5. Usable' = Usable /\ Rollers' = Rollers
  BY <1>2, <1>3, <1>4, Sums, SMTT(90)
<1> QED
  BY <1>2, <1>5 DEF Booked, Quiet, Receive

LEMMA ReceiveClosedBooked ==
  ASSUME Formed, NEW c \in Clients, ReceiveClosed(c)
  PROVE  Booked
<1>1. LabelsOK /\ DataOK /\ c \in Tasks /\ None \notin Conns /\ Closed \notin Conns
  BY FiniteTasks, TaskAssumption DEF Formed, TypeOK
<1>2. Owned' = Owned /\ Deciding' = Deciding /\ Rolling' = Rolling /\ Held' = Held
  BY <1>1, GotoSums DEF ReceiveClosed, OwnL, RetL
<1>3. Sent' = Sent
  BY <1>1, RxEntry, SentMove DEF ReceiveClosed
<1>4. Len(idle') = Len(idle)
  BY DEF ReceiveClosed
<1> QED
  BY <1>2, <1>3, <1>4, Sums, SMTT(30) DEF Booked, Quiet, ReceiveClosed

\* A client drops its receiver and goes from one waiting label to another, or out.
LEMMA DropReceiverBooked ==
  ASSUME Formed, NEW c \in Clients, DropReceiver(c), NEW l, Goto(c, l),
         pc[c] \in {"parked", "expire"}, l \in {"prune", "out"}, UNCHANGED <<idle, total_count>>
  PROVE  Booked
<1>1. LabelsOK /\ DataOK /\ c \in Tasks /\ None \notin Conns
  BY FiniteTasks, TaskAssumption DEF Formed, TypeOK
<1>2. Owned' = Owned /\ Deciding' = Deciding /\ Rolling' = Rolling /\ Held' = Held
  BY <1>1, GotoSums DEF OwnL, RetL
<1>3. Len(idle') = Len(idle) /\ rx' = [rx EXCEPT ![c] = None]
  BY DEF DropReceiver
<1>4. CASE rx[c] \in Conns
  <2>1. Sent' = Sent - 1 /\ Sent > 0 /\ leaked' = leaked + 1
    BY <1>1, <1>3, <1>4, RxEntry, SentMove DEF DropReceiver
  <2>2. Usable' = Usable - 1 /\ Usable > 0 /\ Rollers' = Rollers
    BY <1>2, <1>3, <2>1, Sums, SMTT(90)
  <2>3. Lost
    BY <2>1, <2>2 DEF Lost
  <2> QED
    BY <1>2, <2>3 DEF Booked
<1>5. CASE rx[c] \notin Conns
  <2>1. Sent' = Sent /\ leaked' = leaked
    BY <1>1, <1>3, <1>5, RxEntry, SentMove DEF DropReceiver
  <2>2. Quiet
    BY <1>2, <1>3, <2>1, Sums, SMTT(30) DEF Quiet
  <2> QED
    BY <1>2, <2>2 DEF Booked
<1> QED
  BY <1>4, <1>5

LEMMA CancelConnectBooked ==
  ASSUME Formed, NEW c \in Clients, CancelConnect(c)
  PROVE  Booked
<1>1. LabelsOK /\ c \in Tasks /\ c \in Creators
  BY FiniteTasks DEF Formed, TypeOK, Creators
<1>2. Owned' = Owned - 1 /\ Owned > 0 /\ Deciding' = Deciding /\ Rolling' = Rolling /\ Held' = Held
  BY <1>1, GotoSums DEF CancelConnect, OwnL, RetL
<1>3. Sent' = Sent /\ Len(idle') = Len(idle) /\ leaked' = leaked + 1 /\ total_count' = total_count
  BY DEF Sent, CancelConnect
<1>4. Usable' = Usable - 1 /\ Usable > 0 /\ Rollers' = Rollers
  BY <1>2, <1>3, Sums, SMTT(30)
<1>5. Lost
  BY <1>3, <1>4 DEF Lost
<1> QED
  BY <1>2, <1>5 DEF Booked

LEMMA TakeBooked ==
  ASSUME Formed, NEW c \in Clients, Take(c)
  PROVE  Booked
<1>1. LabelsOK /\ c \in Tasks /\ c \in Creators /\ pc[c] = "held" /\ Goto(c, "out")
  BY FiniteTasks DEF Formed, TypeOK, Creators, Take
<1>2. Owned' = Owned - 1 /\ Owned > 0 /\ Deciding' = Deciding /\ Rolling' = Rolling
  BY <1>1, GotoSums DEF OwnL, RetL
<1>3. Sent' = Sent /\ Len(idle') = Len(idle) /\ leaked' = leaked /\ total_count' = Sub(total_count, 1)
  BY DEF Sent, Take
<1>4. Held' = Held \ {c} /\ c \in Held
  BY <1>1, HeldMove DEF Held
<1>5. ClosedSome(1)
  <2>1. Usable' = Usable - 1 /\ 1 <= Usable /\ Rollers' = Rollers
    BY <1>2, <1>3, Sums, SMTT(30)
  <2> QED
    BY <1>3, <2>1 DEF ClosedSome
<1> QED
  BY <1>4, <1>5 DEF Booked

\* The guard is dropped: the connection passes from the client to its return task.
LEMMA DropGuardBooked ==
  ASSUME Formed, OneOwner, NEW c \in Clients, DropGuard(c)
  PROVE  Booked
<1> DEFINE k == hand[c]
           mid == [pc EXCEPT ![c] = "out"]
<1>1. /\ LabelsOK /\ c \in Tasks /\ c \in Creators /\ c \notin Conns /\ pc[c] = "held"
      /\ pc \in [Tasks -> ClientPC \cup ReturnPC \cup MaintPC \cup DrainPC \cup WarmPC]
  BY FiniteTasks, TaskAssumption DEF Formed, TypeOK, LabelsOK, Creators, DropGuard
<1>2. k \in Conns /\ k # None /\ k \in Tasks /\ k \in Creators /\ k # c /\ k \notin Clients
  BY <1>1, FiniteTasks, TaskAssumption DEF Formed, TypeOK, DataOK, HandsOK, Creators
<1>3. pc[k] = "none"
  BY <1>1, <1>2 DEF OneOwner
<1>4. pc' = [pc EXCEPT ![c] = "out", ![k] = "start"]
  BY DEF DropGuard
<1>5. /\ \A u \in Tasks : mid[u] = IF u = c THEN "out" ELSE pc[u]
      /\ \A u \in Tasks : pc'[u] = IF u = k THEN "start" ELSE mid[u]
  BY <1>1, <1>2, <1>4
<1> HIDE DEF k, mid
<1>6. CountIn(mid, Creators, OwnL) = CountIn(pc, Creators, OwnL) - 1
  <2>1. /\ IsFiniteSet(Creators) /\ c \in Creators /\ "out" \notin OwnL /\ pc[c] \in OwnL
        /\ \A u \in Creators : mid[u] = IF u = c THEN "out" ELSE pc[u]
    BY <1>1, <1>5, FiniteTasks DEF OwnL
  <2> QED
    BY <2>1, CountMove
<1>7. mid[k] = "none"
  BY <1>2, <1>3, <1>5
<1>8. CountIn(pc', Creators, OwnL) = CountIn(mid, Creators, OwnL)
  <2>1. \A u \in Creators : pc'[u] \in OwnL <=> mid[u] \in OwnL
    BY <1>5, <1>7, FiniteTasks DEF OwnL
  <2> QED
    BY <2>1 DEF CountIn
<1>9. CountIn(mid, Conns, RetL) = CountIn(pc, Conns, RetL)
  <2>1. /\ IsFiniteSet(Conns) /\ c \notin Conns
        /\ \A u \in Conns : mid[u] = IF u = c THEN "out" ELSE pc[u]
    BY <1>1, <1>5, FiniteTasks
  <2> QED
    BY <2>1, CountMove
<1>10. CountIn(pc', Conns, RetL) = CountIn(mid, Conns, RetL) + 1
  <2>1. \A u \in Conns : pc'[u] = IF u = k THEN "start" ELSE mid[u]
    BY <1>5, FiniteTasks
  <2>2. "start" \in RetL /\ mid[k] \notin RetL /\ k \in Conns
    BY <1>2, <1>7 DEF RetL
  <2>3. IsFiniteSet(Conns)
    BY FiniteTasks
  <2> HIDE <1>4, <1>5
  <2> QED
    BY <2>1, <2>2, <2>3, CountMove
<1>11. Rolling' = Rolling
  <2>1. \A u \in Creators : pc'[u] = "rollback" <=> pc[u] = "rollback"
    BY <1>1, <1>2, <1>3, <1>5, <1>7, FiniteTasks
  <2> QED
    BY <2>1 DEF Rolling, CountIn
<1>12. Held' = Held \ {c} /\ c \in Held
  BY <1>1, <1>2, <1>5, FiniteTasks DEF Held
<1>13. Owned' = Owned - 1 /\ Deciding' = Deciding + 1
  BY <1>6, <1>8, <1>9, <1>10 DEF Owned, Deciding
<1>14. /\ Sent' = Sent /\ Len(idle') = Len(idle)
       /\ total_count' = total_count /\ leaked' = leaked
  BY DEF Sent, DropGuard
<1>15. Usable' = Usable /\ Rollers' = Rollers
  BY <1>11, <1>13, <1>14, Sums, SMTT(30)
<1> QED
  BY <1>12, <1>14, <1>15 DEF Booked, Quiet

-----------------------------------------------------------------------------
(* The return task.                                                        *)

\* A task that leaves the deciding labels, or its own connection, for l: a label
\* outside all sums.
Gone(l) == l \in {"none", "notify", "prov", "reserve", "sleep"}

LEMMA DecidedSums ==
  ASSUME LabelsOK, NEW k \in Conns, NEW l, Goto(k, l), pc[k] \in RetL, Gone(l)
  PROVE  Owned' = Owned /\ Deciding' = Deciding - 1 /\ Deciding > 0 /\ Rolling' = Rolling /\ Held' = Held
BY GotoSums, FiniteTasks DEF Gone, OwnL, RetL

LEMMA DisownedSums ==
  ASSUME LabelsOK, NEW t \in Creators, NEW l, Goto(t, l), pc[t] \in {"psend", "ppush", "mpush"}, Gone(l)
  PROVE  Owned' = Owned - 1 /\ Owned > 0 /\ Deciding' = Deciding /\ Rolling' = Rolling /\ Held' = Held
BY GotoSums, FiniteTasks DEF Gone, OwnL, RetL

\* A return task destroys its connection.
LEMMA DestroyBooked ==
  ASSUME Formed, NEW k \in Conns, NEW l, Goto(k, l), pc[k] \in RetL, Gone(l),
         total_count' = Sub(total_count, 1), UNCHANGED <<idle, rx, leaked>>
  PROVE  Booked
<1>1. Owned' = Owned /\ Deciding' = Deciding - 1 /\ Deciding > 0 /\ Rolling' = Rolling /\ Held' = Held
  BY DecidedSums DEF Formed, TypeOK
<1>2. Sent' = Sent /\ Len(idle') = Len(idle) /\ leaked' = leaked
  BY DEF Sent
<1>3. Usable' = Usable - 1 /\ 1 <= Usable /\ Rollers' = Rollers
  BY <1>1, <1>2, Sums, SMTT(30)
<1>4. ClosedSome(1)
  BY <1>2, <1>3 DEF ClosedSome
<1> QED
  BY <1>1, <1>4 DEF Booked

LEMMA ReturnPanicBooked ==
  ASSUME Formed, NEW k \in Conns, ReturnPanic(k)
  PROVE  Booked
<1>1. Owned' = Owned /\ Deciding' = Deciding - 1 /\ Deciding > 0 /\ Rolling' = Rolling /\ Held' = Held
  BY DecidedSums DEF Formed, TypeOK, ReturnPanic, RetL, Gone
<1>2. Sent' = Sent /\ Len(idle') = Len(idle) /\ leaked' = leaked + 1 /\ total_count' = total_count
  BY DEF Sent, ReturnPanic
<1>3. Usable' = Usable - 1 /\ Usable > 0 /\ Rollers' = Rollers
  BY <1>1, <1>2, Sums, SMTT(30)
<1>4. Lost
  BY <1>2, <1>3 DEF Lost
<1> QED
  BY <1>1, <1>4 DEF Booked

\* A connection sent to a waiter lands in an empty channel.
LEMMA SendSums ==
  ASSUME DataOK, LiveEntries, NEW k \in Conns, SendToWaiter(k)
  PROVE  Sent' = Sent + 1
<1>1. PICK i \in DOMAIN waiters : waiters[i] \in Clients /\ rx' = [rx EXCEPT ![waiters[i]] = k]
  BY DEF SendToWaiter
<1>2. rx[waiters[i]] \notin Conns
  BY <1>1, TaskAssumption DEF LiveEntries
<1>3. \A u \in Clients : rx'[u] = IF u = waiters[i] THEN k ELSE rx[u]
  BY <1>1, RxEntry
<1> QED
  BY <1>1, <1>2, <1>3, SentMove

\* One connection less on this side, one more in a channel.
LEMMA SendUsable ==
  ASSUME Formed, Len(idle') = Len(idle), Sent' = Sent + 1, Rolling' = Rolling,
         \/ Owned' = Owned /\ Deciding' = Deciding - 1
         \/ Owned' = Owned - 1 /\ Deciding' = Deciding
  PROVE  Usable' = Usable /\ Rollers' = Rollers
<1>1. Usable = Len(idle) + Sent + Owned + Deciding
  BY Sums
<1>2. Len(idle) \in Nat /\ Sent \in Nat /\ Owned \in Nat /\ Deciding \in Nat
  BY Sums
<1>3. Usable' = Len(idle) + (Sent + 1) + Owned' + Deciding'
  BY Sums
<1>4. Rollers' = Rollers
  BY Sums
<1>5. CASE Owned' = Owned /\ Deciding' = Deciding - 1
  <2>1. Usable' = Len(idle) + (Sent + 1) + Owned + (Deciding - 1)
    BY <1>3, <1>5
  <2>2. Len(idle) + (Sent + 1) + Owned + (Deciding - 1) = Len(idle) + Sent + Owned + Deciding
    BY <1>2
  <2> QED
    BY <1>1, <1>4, <2>1, <2>2
<1>6. CASE Owned' = Owned - 1 /\ Deciding' = Deciding
  <2>1. Usable' = Len(idle) + (Sent + 1) + (Owned - 1) + Deciding
    BY <1>3, <1>6
  <2>2. Len(idle) + (Sent + 1) + (Owned - 1) + Deciding = Len(idle) + Sent + Owned + Deciding
    BY <1>2
  <2> QED
    BY <1>1, <1>4, <2>1, <2>2
<1> QED
  BY <1>5, <1>6

LEMMA ReturnSendBooked ==
  ASSUME Formed, LiveEntries, NEW k \in Conns, ReturnSend(k)
  PROVE  Booked
<1>1. Owned' = Owned /\ Deciding' = Deciding - 1 /\ Rolling' = Rolling /\ Held' = Held
  BY DecidedSums DEF Formed, TypeOK, ReturnSend, RetL, Gone
<1>2. Sent' = Sent + 1
  BY SendSums DEF Formed, TypeOK, ReturnSend
<1>3. Len(idle') = Len(idle) /\ total_count' = total_count /\ leaked' = leaked
  BY DEF ReturnSend
<1>4. Usable' = Usable /\ Rollers' = Rollers
  BY <1>1, <1>2, <1>3, SendUsable
<1> QED
  BY <1>1, <1>3, <1>4 DEF Booked, Quiet

LEMMA ProvisionSendBooked ==
  ASSUME Formed, LiveEntries, NEW k \in Conns, ProvisionSend(k)
  PROVE  Booked
<1>1. hand[k] \in Conns /\ k \in Creators
  BY FiniteTasks DEF Formed, TypeOK, DataOK, HandsOK, ProvisionSend, Creators
<1>2. Owned' = Owned - 1 /\ Deciding' = Deciding /\ Rolling' = Rolling /\ Held' = Held
  BY <1>1, DisownedSums DEF Formed, TypeOK, ProvisionSend, Gone
<1>3. Sent' = Sent + 1
  BY <1>1, SendSums DEF Formed, TypeOK, ProvisionSend
<1>4. Len(idle') = Len(idle) /\ total_count' = total_count /\ leaked' = leaked
  BY DEF ProvisionSend
<1>5. Usable' = Usable /\ Rollers' = Rollers
  BY <1>2, <1>3, <1>4, SendUsable
<1> QED
  BY <1>2, <1>4, <1>5 DEF Booked, Quiet

LEMMA ReturnPushBooked ==
  ASSUME Formed, NEW k \in Conns, ReturnPush(k)
  PROVE  Booked
<1>1. Owned' = Owned /\ Deciding' = Deciding - 1 /\ Rolling' = Rolling /\ Held' = Held
  BY DecidedSums DEF Formed, TypeOK, ReturnPush, RetL, Gone
<1>2. Len(idle') = Len(idle) + 1
  BY AppendFacts DEF Formed, TypeOK, DataOK, ReturnPush
<1>3. Sent' = Sent /\ total_count' = total_count /\ leaked' = leaked
  BY DEF Sent, ReturnPush
<1>4. Usable' = Usable /\ Rollers' = Rollers
  BY <1>1, <1>2, <1>3, Sums, SMTT(30)
<1> QED
  BY <1>1, <1>3, <1>4 DEF Booked, Quiet

\* A creator pushes its new connection to idle.
LEMMA PushBooked ==
  ASSUME Formed, NEW t \in Creators, NEW l, Goto(t, l), pc[t] \in {"ppush", "mpush"}, Gone(l),
         idle' = Append(idle, hand[t]), UNCHANGED <<rx, total_count, leaked>>
  PROVE  Booked
<1>1. Owned' = Owned - 1 /\ Deciding' = Deciding /\ Rolling' = Rolling /\ Held' = Held
  BY DisownedSums DEF Formed, TypeOK
<1>2. hand[t] \in Conns
  BY FiniteTasks DEF Formed, TypeOK, DataOK, HandsOK
<1>3. Len(idle') = Len(idle) + 1
  BY <1>2, AppendFacts DEF Formed, TypeOK, DataOK
<1>4. Sent' = Sent
  BY DEF Sent
<1>5. Usable' = Usable /\ Rollers' = Rollers
  BY <1>1, <1>3, <1>4, Sums, SMTT(30)
<1> QED
  BY <1>1, <1>5 DEF Booked, Quiet

LEMMA MaybeNotifyDrainBooked ==
  ASSUME Formed, NEW k \in Conns, MaybeNotifyDrain(k)
  PROVE  Booked
<1>1. /\ pc[k] = "notify" /\ UNCHANGED <<idle, rx, total_count, leaked>>
      /\ \/ Goto(k, "none")
         \/ \E d \in Drainers : pc[d] = "await" /\ pc' = [pc EXCEPT ![k] = "none", ![d] = "zero"]
  BY DEF MaybeNotifyDrain, NotifyOne
<1>2. CASE Goto(k, "none")
  BY <1>1, <1>2, GotoQuiet, FiniteTasks DEF OwnL, RetL
<1>3. ASSUME NEW d \in Drainers, pc[d] = "await", pc' = [pc EXCEPT ![k] = "none", ![d] = "zero"]
      PROVE  Booked
  <2>1. d \notin Clients /\ d \notin Conns /\ d \notin Creators /\ k \notin Clients
    BY TaskAssumption DEF Creators
  <2>2. \A u \in Creators : pc'[u] = IF u = k THEN "none" ELSE pc[u]
    BY <1>3, <2>1, FiniteTasks DEF Formed, TypeOK, LabelsOK
  <2>3. Owned' = Owned
    <3>1. \A u \in Creators : pc'[u] \in OwnL <=> pc[u] \in OwnL
      BY <1>1, <2>2 DEF OwnL
    <3> QED
      BY <3>1 DEF Owned, CountIn
  <2>4. Deciding' = Deciding
    <3>1. \A u \in Conns : pc'[u] \in RetL <=> pc[u] \in RetL
      BY <1>1, <2>2 DEF Creators, RetL
    <3> QED
      BY <3>1 DEF Deciding, CountIn
  <2>5. Rolling' = Rolling
    <3>1. \A u \in Creators : pc'[u] = "rollback" <=> pc[u] = "rollback"
      BY <1>1, <2>2
    <3> QED
      BY <3>1 DEF Rolling, CountIn
  <2>6. Held' = Held
    BY <2>1, <2>2 DEF Held, Creators
  <2>7. Sent' = Sent /\ Len(idle') = Len(idle)
    BY <1>1 DEF Sent
  <2>8. Usable' = Usable /\ Rollers' = Rollers
    BY <2>3, <2>4, <2>5, <2>7, Sums, SMTT(30)
  <2> QED
    BY <1>1, <2>6, <2>8 DEF Booked, Quiet
<1> QED
  BY <1>1, <1>2, <1>3

-----------------------------------------------------------------------------
(* maintenance and drain().                                                *)

\* Closing n connections of the idle queue.
LEMMA IdleClosed ==
  ASSUME Formed, NEW n \in Nat, Len(idle') = Len(idle) - n, n <= Len(idle), Sent' = Sent,
         Owned' = Owned, Deciding' = Deciding, Rolling' = Rolling, Held' = Held,
         leaked' = leaked, total_count' = Sub(total_count, n)
  PROVE  Booked
<1>1. Usable = Len(idle) + Sent + Owned + Deciding
  BY Sums
<1>2. Usable' = (Len(idle) - n) + Sent + Owned + Deciding
  BY Sums
<1>3. /\ Len(idle) \in Nat /\ Sent \in Nat /\ Owned \in Nat /\ Deciding \in Nat
      /\ Rollers' = Rollers
  BY Sums
<1>4. Usable' = Usable - n /\ n <= Usable
  <2>1. (Len(idle) - n) + Sent + Owned + Deciding = (Len(idle) + Sent + Owned + Deciding) - n
    BY <1>3
  <2>2. n <= Len(idle) + Sent + Owned + Deciding
    BY <1>3
  <2> QED
    BY <1>1, <1>2, <2>1, <2>2
<1>5. ClosedSome(n)
  BY <1>3, <1>4 DEF ClosedSome
<1> QED
  BY <1>5 DEF Booked

LEMMA MaintEvictBooked ==
  ASSUME Formed, MaintEvict
  PROVE  Booked
<1>1. LabelsOK /\ Maint \in Tasks /\ Maint \notin Conns
  BY TaskAssumption DEF Formed, TypeOK, Tasks
<1>2. Owned' = Owned /\ Deciding' = Deciding /\ Rolling' = Rolling /\ Held' = Held
  BY <1>1, GotoSums DEF MaintEvict, OwnL, RetL
<1>3. Sent' = Sent /\ leaked' = leaked
  BY DEF Sent, MaintEvict
<1>4. Len(idle') <= Len(idle)
  BY RetainProperties DEF MaintEvict, Formed, TypeOK, DataOK
<1>5. total_count' = Sub(total_count, Len(idle) - Len(idle'))
  BY DEF MaintEvict
<1>6. Len(idle) \in Nat /\ Len(idle') \in Nat
  BY Sums
<1> DEFINE n == Len(idle) - Len(idle')
<1>7. n \in Nat /\ Len(idle') = Len(idle) - n /\ n <= Len(idle)
  BY <1>4, <1>6
<1>8. total_count' = Sub(total_count, n)
  BY <1>5
<1> HIDE DEF n
<1> QED
  BY <1>2, <1>3, <1>7, <1>8, IdleClosed

LEMMA DrainIdleBooked ==
  ASSUME Formed, NEW d \in Drainers, DrainIdle(d)
  PROVE  Booked
<1>1. LabelsOK /\ d \in Tasks
  BY DEF Formed, TypeOK, Tasks
<1>2. Owned' = Owned /\ Deciding' = Deciding /\ Rolling' = Rolling /\ Held' = Held
  BY <1>1, GotoSums DEF DrainIdle, OwnL, RetL
<1>3. Sent' = Sent /\ leaked' = leaked /\ total_count' = Sub(total_count, Len(idle)) /\ Len(idle') = 0
  BY EmptySeq DEF Sent, DrainIdle
<1>4. Len(idle) \in Nat
  BY Sums
<1>5. Len(idle') = Len(idle) - Len(idle) /\ Len(idle) <= Len(idle)
  BY <1>3, <1>4
<1> QED
  BY <1>2, <1>3, <1>4, <1>5, IdleClosed

\* The channels drain() closes are empty.
LEMMA DrainWaitersBooked ==
  ASSUME Formed, LiveEntries, NEW d \in Drainers, DrainWaiters(d)
  PROVE  Booked
<1>1. LabelsOK /\ d \in Tasks /\ d \notin Creators /\ d \notin Conns
  BY TaskAssumption DEF Formed, TypeOK, Tasks, Creators, DrainWaiters
<1>2. Owned' = Owned /\ Deciding' = Deciding /\ Rolling' = Rolling /\ Held' = Held
  BY <1>1, GotoSums DEF DrainWaiters, OwnL, RetL
<1>3. ASSUME NEW c \in Clients PROVE rx'[c] \in Conns <=> rx[c] \in Conns
  <2>1. rx'[c] = IF c \in Elems(waiters) THEN Closed ELSE rx[c]
    BY DEF DrainWaiters
  <2>2. c \in Elems(waiters) => rx[c] = None
    BY DEF LiveEntries, Elems
  <2> QED
    BY <2>1, <2>2, TaskAssumption
<1>4. Sent' = Sent
  BY <1>3 DEF Sent, CountIn
<1>5. Len(idle') = Len(idle) /\ total_count' = total_count /\ leaked' = leaked
  BY DEF DrainWaiters
<1> QED
  BY <1>2, <1>4, <1>5, Sums, SMTT(30) DEF Booked, Quiet

-----------------------------------------------------------------------------
(* Every step.                                                             *)

\* With no warm_up(), which counts its connections late, every step is one of the
\* kinds of bookkeeping.
LEMMA StepBooked ==
  ASSUME Warmers = {}, IndInv, [Next]_vars
  PROVE  Booked
<1>1. Formed /\ LiveEntries /\ OneOwner
  BY StepTyped DEF IndInv, Formed, Whereabouts
<1> USE <1>1, FiniteTasks DEF Tasks
<1>2. ASSUME NEW t \in Creators, Admit(t) PROVE Booked
  BY <1>2, AdmitBooked
<1>3. ASSUME NEW t \in Creators, Refuse(t) PROVE Booked
  BY <1>3, RefuseBooked
<1>4. ASSUME NEW t \in Creators, RollBack(t) PROVE Booked
  BY <1>4, RollBackBooked
<1>5. ASSUME NEW t \in Creators, ConnectOk(t) PROVE Booked
  BY <1>5, ConnectOkBooked
<1>6. ASSUME NEW t \in Creators, ConnectErr(t) PROVE Booked
  BY <1>6, ConnectErrBooked
<1>7. ASSUME NEW c \in Clients, GetBegin(c) PROVE Booked
  BY <1>7, GotoQuiet, TaskAssumption DEF GetBegin, OwnL, RetL
<1>8. ASSUME NEW c \in Clients, TakeIdle(c) PROVE Booked
  BY <1>8, TakeIdleBooked
<1>9. ASSUME NEW c \in Clients, NoIdle(c) PROVE Booked
  BY <1>9, NoIdleBooked
<1>10. ASSUME NEW c \in Clients, CheckCapacity(c) PROVE Booked
  BY <1>10, GotoQuiet, TaskAssumption DEF CheckCapacity, OwnL, RetL
<1>11. ASSUME NEW c \in Clients, Enqueue(c) PROVE Booked
  BY <1>11, GotoQuiet, TaskAssumption DEF Enqueue, OwnL, RetL
<1>12. ASSUME NEW c \in Clients, Checkout(c) PROVE Booked
  BY <1>12, CheckoutBooked
<1>13. ASSUME NEW c \in Clients, Receive(c) PROVE Booked
  BY <1>13, ReceiveBooked
<1>14. ASSUME NEW c \in Clients, ReceiveClosed(c) PROVE Booked
  BY <1>14, ReceiveClosedBooked
<1>15. ASSUME NEW c \in Clients, TimeoutElapsed(c) PROVE Booked
  BY <1>15, GotoQuiet, TaskAssumption DEF TimeoutElapsed, OwnL, RetL
<1>16. ASSUME NEW c \in Clients, TimeoutDrop(c) PROVE Booked
  BY <1>16, DropReceiverBooked DEF TimeoutDrop
<1>17. ASSUME NEW c \in Clients, Prune(c) PROVE Booked
  BY <1>17, GotoQuiet, TaskAssumption DEF Prune, OwnL, RetL
<1>18. ASSUME NEW c \in Clients, CancelLock(c) PROVE Booked
  BY <1>18, GotoQuiet, TaskAssumption DEF CancelLock, OwnL, RetL
<1>19. ASSUME NEW c \in Clients, CancelConnect(c) PROVE Booked
  BY <1>19, CancelConnectBooked
<1>20. ASSUME NEW c \in Clients, CancelParked(c) PROVE Booked
  BY <1>20, DropReceiverBooked DEF CancelParked
<1>21. ASSUME NEW c \in Clients, CancelPrune(c) PROVE Booked
  BY <1>21, GotoQuiet, TaskAssumption DEF CancelPrune, OwnL, RetL
<1>22. ASSUME NEW c \in Clients, Take(c) PROVE Booked
  BY <1>22, TakeBooked
<1>23. ASSUME NEW c \in Clients, DropGuard(c) PROVE Booked
  BY <1>23, DropGuardBooked
<1>24. ASSUME NEW k \in Conns, ReturnBegin(k) PROVE Booked
  BY <1>24, GotoQuiet, TaskAssumption DEF ReturnBegin, OwnL, RetL
<1>25. ASSUME NEW k \in Conns, ReturnDestroy(k) PROVE Booked
  BY <1>25, DestroyBooked DEF ReturnDestroy, RetL, Gone
<1>26. ASSUME NEW k \in Conns, ReturnReset(k) PROVE Booked
  BY <1>26, GotoQuiet, TaskAssumption DEF ReturnReset, OwnL, RetL
<1>27. ASSUME NEW k \in Conns, ReturnPanic(k) PROVE Booked
  BY <1>27, ReturnPanicBooked
<1>28. ASSUME NEW k \in Conns, ReturnDraining(k) PROVE Booked
  BY <1>28, DestroyBooked DEF ReturnDraining, RetL, Gone
<1>29. ASSUME NEW k \in Conns, ReturnKeep(k) PROVE Booked
  BY <1>29, GotoQuiet, TaskAssumption DEF ReturnKeep, OwnL, RetL
<1>30. ASSUME NEW k \in Conns, ReturnSend(k) PROVE Booked
  BY <1>30, ReturnSendBooked
<1>31. ASSUME NEW k \in Conns, ReturnUnclaimed(k) PROVE Booked
  BY <1>31, GotoQuiet, TaskAssumption DEF ReturnUnclaimed, OwnL, RetL
<1>32. ASSUME NEW k \in Conns, ReturnPush(k) PROVE Booked
  BY <1>32, ReturnPushBooked
<1>33. ASSUME NEW k \in Conns, MaybeNotifyDrain(k) PROVE Booked
  BY <1>33, MaybeNotifyDrainBooked
<1>34. ASSUME NEW k \in Conns, ProvisionDrainCheck(k) PROVE Booked
  BY <1>34, GotoQuiet, TaskAssumption DEF ProvisionDrainCheck, OwnL, RetL
<1>35. ASSUME NEW k \in Conns, ProvisionWaiterCheck(k) PROVE Booked
  BY <1>35, GotoQuiet, TaskAssumption DEF ProvisionWaiterCheck, OwnL, RetL
<1>36. ASSUME NEW k \in Conns, ProvisionSend(k) PROVE Booked
  BY <1>36, ProvisionSendBooked
<1>37. ASSUME NEW k \in Conns, ProvisionUnclaimed(k) PROVE Booked
  BY <1>37, GotoQuiet, TaskAssumption DEF ProvisionUnclaimed, OwnL, RetL
<1>38. ASSUME NEW k \in Conns, ProvisionPush(k) PROVE Booked
  BY <1>38, PushBooked DEF ProvisionPush, Gone, Creators
<1>39. ASSUME NEW k \in Conns, Break(k) PROVE Booked
  BY <1>39, StillQuiet DEF Break
<1>40. ASSUME NEW k \in Conns, Expire(k) PROVE Booked
  BY <1>40, StillQuiet DEF Expire
<1>41. ASSUME MaintTick PROVE Booked
  BY <1>41, GotoQuiet, TaskAssumption DEF MaintTick, OwnL, RetL
<1>42. ASSUME MaintShutdown PROVE Booked
  BY <1>42, GotoQuiet, TaskAssumption DEF MaintShutdown, OwnL, RetL
<1>43. ASSUME MaintEvict PROVE Booked
  BY <1>43, MaintEvictBooked
<1>44. ASSUME MaintLoadTotal PROVE Booked
  BY <1>44, GotoQuiet, TaskAssumption DEF MaintLoadTotal, OwnL, RetL
<1>45. ASSUME MaintLoadInUse PROVE Booked
  BY <1>45, GotoQuiet, TaskAssumption DEF MaintLoadInUse, OwnL, RetL
<1>46. ASSUME MaintPush PROVE Booked
  BY <1>46, PushBooked DEF MaintPush, Gone, Creators
<1>47. ASSUME NEW d \in Drainers, DrainBegin(d) PROVE Booked
  BY <1>47, GotoQuiet, TaskAssumption DEF DrainBegin, OwnL, RetL
<1>48. ASSUME NEW d \in Drainers, DrainIdle(d) PROVE Booked
  BY <1>48, DrainIdleBooked
<1>49. ASSUME NEW d \in Drainers, DrainWaiters(d) PROVE Booked
  BY <1>49, DrainWaitersBooked
<1>50. ASSUME NEW d \in Drainers, DrainCheck(d) PROVE Booked
  BY <1>50, GotoQuiet, TaskAssumption DEF DrainCheck, OwnL, RetL
<1>51. ASSUME NEW d \in Drainers, DrainPermit(d) PROVE Booked
  BY <1>51, GotoQuiet, TaskAssumption DEF DrainPermit, OwnL, RetL
<1>52. CASE UNCHANGED vars
  BY <1>52, StillQuiet DEF vars
<1>53. Impatient \subseteq Clients /\ Takers \subseteq Clients
  BY TaskAssumption
<1> QED
  BY <1>2, <1>3, <1>4, <1>5, <1>6, <1>7, <1>8, <1>9, <1>10, <1>11, <1>12, <1>13, <1>14, <1>15,
     <1>16, <1>17, <1>18, <1>19, <1>20, <1>21, <1>22, <1>23, <1>24, <1>25, <1>26, <1>27, <1>28,
     <1>29, <1>30, <1>31, <1>32, <1>33, <1>34, <1>35, <1>36, <1>37, <1>38, <1>39, <1>40, <1>41,
     <1>42, <1>43, <1>44, <1>45, <1>46, <1>47, <1>48, <1>49, <1>50, <1>51, <1>52, <1>53
     DEF Next, CreateStep, GetStep, Cancel, ReturnStep, MaintStep, DrainStep

-----------------------------------------------------------------------------
(* The counts and the capacity.                                            *)

\* The counters have room: there are fewer tasks in any of them than WidthAssumption
\* allows for.
LEMMA Width ==
  /\ UsizeMax \in Nat /\ MaxSize \in Nat /\ Cardinality(Creators) \in Nat
  /\ MaxSize < UsizeMax /\ MaxSize + Cardinality(Creators) <= UsizeMax
  /\ \A S \in SUBSET Creators : Cardinality(S) \in Nat /\ Cardinality(S) <= Cardinality(Creators)
<1>1. IsFiniteSet(Creators) /\ Maint \in Creators
  BY FiniteTasks DEF Creators
<1>2. \A S \in SUBSET Creators : Cardinality(S) \in Nat /\ Cardinality(S) <= Cardinality(Creators)
  BY <1>1, FS_Subset, FS_CardinalityType
<1>3. Cardinality(Creators) \in Nat /\ Cardinality(Creators) # 0
  BY <1>1, FS_CardinalityType, FS_EmptySet
<1>4. UsizeMax \in Nat /\ MaxSize \in Nat /\ MaxSize + Cardinality(Creators) <= UsizeMax
  BY ConfigAssumption, WidthAssumption
<1>5. MaxSize < UsizeMax
  BY <1>3, <1>4
<1> QED
  BY <1>2, <1>3, <1>4, <1>5

LEMMA SubExact ==
  ASSUME NEW n \in Nat, NEW m \in Nat, m <= n
  PROVE  Sub(n, m) = n - m
BY DEF Sub

CountInv == IndInv /\ CountExact /\ CapacityHeld

LEMMA InitCounts == Warmers = {} /\ Init => CountInv
<1> SUFFICES ASSUME Init PROVE CountInv
  OBVIOUS
<1>1. IndInv
  BY InitInd
<1>2. /\ \A t \in Creators : hand[t] = None /\ pc[t] \in {"out", "none", "sleep"}
      /\ \A c \in Clients : rx[c] = None
      /\ \A k \in Conns : pc[k] \in {"out", "none", "sleep"}
      /\ total_count = Len(idle) /\ leaked = 0
  BY FiniteTasks DEF Init
<1>3. InChannel = {} /\ InHand = {} /\ Returning = {} /\ RollingBack = {}
  BY <1>2, TaskAssumption DEF InChannel, InHand, Returning, RollingBack
<1>4. Len(idle) \in Nat /\ Len(idle) <= MaxSize
  <2>1. PICK n \in 0..MinIdle : idle \in [1..n -> Conns]
    BY DEF Init
  <2>2. n \in Nat /\ n <= MaxSize
    BY <2>1, ConfigAssumption
  <2>3. Len(idle) = n
    <3>1. idle \in Seq(Conns)
      BY <1>1 DEF IndInv, TypeOK, DataOK
    <3>2. DOMAIN idle = 1..n /\ DOMAIN idle = 1..Len(idle) /\ Len(idle) \in Nat
      BY <2>1, <3>1, LenProperties
    <3> QED
      BY <2>2, <3>2
  <2> QED
    BY <2>2, <2>3
<1>5. Cardinality({}) = 0
  BY FS_EmptySet
<1>6. Usable = Len(idle) /\ Cardinality(RollingBack) = 0
  BY <1>3, <1>4, <1>5 DEF Usable
<1>7. CountExact /\ CapacityHeld
  BY <1>2, <1>4, <1>6 DEF CountExact, CapacityHeld
<1> QED
  BY <1>1, <1>7 DEF CountInv

\* Each kind of bookkeeping keeps total_count exact, and only an optimistic increment
\* that saw room makes the pool grow.
LEMMA StepCounts == Warmers = {} /\ CountInv /\ [Next]_vars => CountInv'
<1> SUFFICES ASSUME Warmers = {}, CountInv, [Next]_vars PROVE CountInv'
  OBVIOUS
<1>1. IndInv /\ IndInv' /\ Booked
  BY StepInd, StepBooked DEF CountInv
<1>2. /\ Usable \in Nat /\ Usable' \in Nat /\ Rollers \in Nat /\ Rollers' \in Nat
      /\ leaked \in Nat /\ total_count \in Nat
  <2>1. Formed
    BY <1>1 DEF Formed, IndInv, Whereabouts
  <2>2. /\ Usable = Len(idle) + Sent + Owned + Deciding /\ Rollers = Rolling
        /\ Usable' = Len(idle') + Sent' + Owned' + Deciding' /\ Rollers' = Rolling'
        /\ Len(idle) \in Nat /\ Sent \in Nat /\ Owned \in Nat /\ Deciding \in Nat
        /\ Len(idle') \in Nat /\ Sent' \in Nat /\ Owned' \in Nat /\ Deciding' \in Nat
        /\ Rolling \in Nat /\ Rolling' \in Nat
        /\ total_count \in Nat /\ leaked \in Nat
    BY <2>1, Sums, SMTT(30)
  <2> QED
    BY <2>2, SMTT(40)
<1>3. total_count = Usable + Rollers + leaked /\ Usable + leaked <= MaxSize
  BY DEF CountInv, CountExact, CapacityHeld, Rollers
<1>4. MaxSize \in Nat
  BY ConfigAssumption
<1>5. total_count' = Usable' + Rollers' + leaked' /\ Usable' + leaked' <= MaxSize
  <2> HIDE DEF Usable, Rollers
  <2>1. CASE Quiet
    BY <1>3, <2>1 DEF Quiet
  <2>2. CASE Reserved
    <3>1. total_count' = total_count + 1
      BY <1>2, <2>2, Width, IncExact DEF Reserved
    <3> QED
      BY <1>2, <1>3, <1>4, <2>2, <3>1 DEF Reserved
  <2>3. CASE Refused
    <3>1. Rollers' <= Cardinality(Creators)
      BY Width DEF Rollers, RollingBack
    <3>2. Rollers' = Rollers + 1
      BY <2>3 DEF Refused
    <3>3. total_count < UsizeMax
      BY <1>2, <1>3, <3>1, <3>2, Width
    <3>4. total_count' = total_count + 1
      BY <1>2, <2>3, <3>3, IncExact DEF Refused
    <3> QED
      BY <1>2, <1>3, <1>4, <2>3, <3>4 DEF Refused
  <2>4. CASE RolledBack
    <3>1. 1 <= total_count
      BY <1>2, <1>3, <2>4 DEF RolledBack
    <3>2. total_count' = total_count - 1
      BY <1>2, <2>4, <3>1, SubExact DEF RolledBack
    <3> QED
      BY <1>2, <1>3, <2>4, <3>2 DEF RolledBack
  <2>5. ASSUME NEW n \in Nat, ClosedSome(n)
        PROVE  total_count' = Usable' + Rollers' + leaked' /\ Usable' + leaked' <= MaxSize
    <3>1. n <= Usable /\ Usable' = Usable - n /\ Rollers' = Rollers /\ leaked' = leaked
      BY <2>5 DEF ClosedSome
    <3>2. n <= total_count
      BY <1>2, <1>3, <3>1
    <3>3. total_count' = total_count - n
      BY <1>2, <2>5, <3>2, SubExact DEF ClosedSome
    <3> QED
      BY <1>2, <1>3, <1>4, <3>1, <3>3
  <2>6. CASE Lost
    BY <1>2, <1>3, <1>4, <2>6 DEF Lost
  <2> QED
    BY <1>1, <2>1, <2>2, <2>3, <2>4, <2>5, <2>6 DEF Booked
<1> QED
  BY <1>1, <1>5 DEF CountInv, CountExact, CapacityHeld, Rollers

LEMMA CountsInvariant == ASSUME Warmers = {} PROVE Spec => []CountInv
<1>1. Init => CountInv
  BY InitCounts
<1>2. CountInv /\ [Next]_vars => CountInv'
  BY StepCounts
<1> QED
  BY <1>1, <1>2, PTL DEF Spec

\* total_count is exact in every reachable state of a pool nobody warms up: no path of
\* get, return, provisioning, maintenance or drain, and no cancellation, miscounts.
THEOREM CountStaysExact == ASSUME Warmers = {} PROVE Spec => []CountExact
<1>1. CountInv => CountExact
  BY DEF CountInv
<1> QED
  BY <1>1, CountsInvariant, PTL

\* Racing fetch_adds never let the pool grow over MaxSize: the optimistic increment of
\* create_and_track is enough of a gate.
THEOREM CapacityStaysHeld == ASSUME Warmers = {} PROVE Spec => []CapacityHeld
<1>1. CountInv => CapacityHeld
  BY DEF CountInv
<1> QED
  BY <1>1, CountsInvariant, PTL

-----------------------------------------------------------------------------
(* The contract.                                                           *)

\* Every guard is backed by a connection of its own.
Backed == IsFiniteSet(Held) /\ Cardinality(Held) \in Nat /\ Cardinality(Held) <= Usable /\ Usable \in Nat

LEMMA HeldBacked == IndInv => Backed
<1> SUFFICES ASSUME IndInv PROVE Backed
  OBVIOUS
<1>1. TypeOK /\ HandsOK
  BY DEF IndInv, Whereabouts
<1>2. IsFiniteSet(Held) /\ Cardinality(Held) \in Nat
  <2>1. Held \in SUBSET Clients
    BY DEF Held
  <2> QED
    BY <2>1, FiniteTasks, FS_Subset, FS_CardinalityType
<1>3. IsFiniteSet({t \in Creators : pc[t] \in OwnL})
  BY FiniteTasks, CountType
<1>4. Held \in SUBSET {t \in Creators : pc[t] \in OwnL}
  BY DEF Held, Creators, OwnL
<1>5. Cardinality(Held) <= CountIn(pc, Creators, OwnL)
  BY <1>3, <1>4, FS_Subset DEF CountIn
<1>6. /\ Usable = Len(idle) + CountIn(rx, Clients, Conns) + CountIn(pc, Creators, OwnL)
                    + CountIn(pc, Conns, RetL)
      /\ Len(idle) \in Nat /\ CountIn(rx, Clients, Conns) \in Nat
      /\ CountIn(pc, Creators, OwnL) \in Nat /\ CountIn(pc, Conns, RetL) \in Nat
  BY <1>1, UsableSum
<1>7. Cardinality(Held) <= Usable /\ Usable \in Nat
  BY <1>2, <1>5, <1>6
<1> QED
  BY <1>2, <1>7 DEF Backed

LEMMA StepContract ==
  ASSUME Warmers = {}, CountInv, [Next]_vars
  PROVE  [Contract!Next]_(Contract!vars)
<1>1. Backed /\ Backed' /\ Booked /\ (total_count < MaxSize => Usable < MaxSize)
  <2>1. IndInv /\ IndInv'
    BY StepInd DEF CountInv
  <2>2. Backed'
    <3>1. HeldBacked'
      BY HeldBacked, PTL
    <3> QED
      BY <2>1, <3>1
  <2>3. total_count = Usable + Cardinality(RollingBack) + leaked /\ leaked \in Nat
    BY <2>1 DEF CountInv, CountExact, IndInv, TypeOK, DataOK
  <2>4. Cardinality(RollingBack) \in Nat /\ Usable \in Nat
    BY <2>1, UsableSum, HeldBacked DEF IndInv, Whereabouts, Backed
  <2>5. total_count < MaxSize => Usable < MaxSize
    BY <2>3, <2>4, ConfigAssumption
  <2> QED
    BY <2>1, <2>2, <2>5, HeldBacked, StepBooked DEF CountInv
<1>2. /\ Contract!vars = <<Usable, Held>> /\ (Contract!vars)' = <<Usable', Held'>>
      /\ Contract!Open <=> Usable < MaxSize /\ Usable' = Usable + 1 /\ Held' = Held
      /\ Contract!Close <=> /\ \E n \in 1..(Usable - Cardinality(Held)) : Usable' = Usable - n
                            /\ Held' = Held
      /\ \A c : Contract!Grant(c)
                  <=> /\ c \notin Held /\ Cardinality(Held) < Usable
                      /\ Held' = Held \cup {c} /\ Usable' = Usable
      /\ \A c : Contract!Return(c) <=> c \in Held /\ Held' = Held \ {c} /\ Usable' = Usable
      /\ \A c : Contract!TakeAway(c) <=> c \in Held /\ Held' = Held \ {c} /\ Usable' = Usable - 1
  <2>1. \A S : Contract!Cardinality(S) = Cardinality(S)
    BY DEF Contract!Cardinality, Cardinality, Contract!IsFiniteSet, IsFiniteSet
  <2> DEFINE granted == {c \in Clients : pc[c] = "held"}
  <2>2. granted = Held /\ granted' = Held'
    BY DEF Held
  <2> HIDE DEF Held
  <2>3. Contract!vars = <<Usable, Held>> /\ (Contract!vars)' = <<Usable', Held'>>
    BY <2>2 DEF Contract!vars
  <2>4. /\ Contract!Open <=> Usable < MaxSize /\ Usable' = Usable + 1 /\ Held' = Held
        /\ Contract!Close <=> /\ \E n \in 1..(Usable - Cardinality(Held)) : Usable' = Usable - n
                              /\ Held' = Held
    BY <2>1, <2>2 DEF Contract!Open, Contract!Close
  <2>5. ASSUME NEW c
        PROVE  /\ Contract!Grant(c)
                    <=> /\ c \notin Held /\ Cardinality(Held) < Usable
                        /\ Held' = Held \cup {c} /\ Usable' = Usable
               /\ Contract!Return(c) <=> c \in Held /\ Held' = Held \ {c} /\ Usable' = Usable
               /\ Contract!TakeAway(c) <=> c \in Held /\ Held' = Held \ {c} /\ Usable' = Usable - 1
    BY <2>1, <2>2 DEF Contract!Grant, Contract!Return, Contract!TakeAway
  <2> QED
    BY <2>3, <2>4, <2>5
<1>3. Held \subseteq Clients
  BY DEF Held
<1> HIDE DEF Usable, Held
<1>4. CASE Held' = Held /\ (Quiet \/ Refused \/ RolledBack)
  BY <1>2, <1>4 DEF Quiet, Refused, RolledBack
<1>5. CASE Held' = Held /\ Reserved
  BY <1>2, <1>5, <1>1 DEF Reserved, Contract!Next
<1>6. ASSUME Held' = Held, NEW n \in Nat, n <= Usable, Usable' = Usable - n
      PROVE  [Contract!Next]_(Contract!vars)
  <2>1. n <= Usable - Cardinality(Held)
    BY <1>1, <1>6 DEF Backed
  <2>2. CASE n = 0
    <3>1. Usable' = Usable
      BY <1>1, <1>6, <2>2 DEF Backed
    <3> QED
      BY <1>2, <1>6, <3>1
  <2>3. CASE n # 0
    <3>1. n \in 1..(Usable - Cardinality(Held))
      BY <1>1, <2>1, <2>3 DEF Backed
    <3>2. Contract!Close
      BY <1>2, <1>6, <3>1
    <3> QED
      BY <3>2 DEF Contract!Next
  <2> QED
    BY <2>2, <2>3
<1>7. ASSUME NEW c \in Clients \ Held, Quiet, Held' = Held \cup {c}
      PROVE  Contract!Next
  <2>1. Cardinality(Held') = Cardinality(Held) + 1
    BY <1>1, <1>7, FS_AddElement DEF Backed
  <2>2. Cardinality(Held) < Usable
    BY <1>1, <1>7, <2>1 DEF Backed, Quiet
  <2>3. Contract!Grant(c)
    BY <1>2, <1>7, <2>2 DEF Quiet
  <2> QED
    BY <2>3 DEF Contract!Next
<1>8. ASSUME NEW c \in Held, Quiet, Held' = Held \ {c}
      PROVE  Contract!Next
  BY <1>2, <1>3, <1>8 DEF Quiet, Contract!Next
<1>9. ASSUME NEW c \in Held, ClosedSome(1), Held' = Held \ {c}
      PROVE  Contract!Next
  BY <1>2, <1>3, <1>9 DEF ClosedSome, Contract!Next
<1>10. CASE Held' = Held /\ Lost
  <2>1. 1 \in Nat /\ 1 <= Usable /\ Usable' = Usable - 1
    BY <1>1, <1>10 DEF Lost, Backed
  <2> QED
    BY <1>6, <1>10, <2>1
<1>11. ASSUME Held' = Held, NEW n \in Nat, ClosedSome(n)
       PROVE  [Contract!Next]_(Contract!vars)
  BY <1>6, <1>11 DEF ClosedSome
<1> QED
  BY <1>1, <1>4, <1>5, <1>7, <1>8, <1>9, <1>10, <1>11 DEF Booked

LEMMA InitContract == Warmers = {} /\ Init => Contract!Init
<1> SUFFICES ASSUME Warmers = {}, Init PROVE Contract!Init
  OBVIOUS
<1>1. {c \in Clients : pc[c] = "held"} = {}
  <2>1. \A c \in Clients : pc[c] # "held"
    BY FiniteTasks DEF Init
  <2> QED
    BY <2>1
<1>2. Usable \in 0..MinIdle
  <2>1. CountInv
    BY InitCounts
  <2>2. total_count = Usable + Cardinality(RollingBack) + leaked /\ leaked = 0
    BY <2>1 DEF CountInv, CountExact, Init
  <2>3. Usable \in Nat
    BY <2>1, HeldBacked DEF CountInv, Backed
  <2>4. RollingBack = {}
    <3>1. \A t \in Creators : pc[t] # "rollback"
      BY FiniteTasks DEF Init
    <3> QED
      BY <3>1 DEF RollingBack
  <2>5. Usable = Len(idle)
    BY <2>2, <2>3, <2>4, FS_EmptySet DEF Init
  <2>6. Len(idle) <= MinIdle
    <3>1. PICK n \in 0..MinIdle : idle \in [1..n -> Conns]
      BY DEF Init
    <3>2. idle \in Seq(Conns)
      BY <2>1 DEF CountInv, IndInv, TypeOK, DataOK
    <3>3. DOMAIN idle = 1..n /\ DOMAIN idle = 1..Len(idle) /\ Len(idle) \in Nat
      BY <3>1, <3>2, LenProperties
    <3>4. n \in Nat /\ n <= MinIdle
      BY <3>1, ConfigAssumption
    <3> QED
      BY <3>3, <3>4
  <2> QED
    BY <2>3, <2>5, <2>6, ConfigAssumption
<1> QED
  BY <1>1, <1>2 DEF Contract!Init

\* The pool implements its contract: its queues, counters and tasks, in every
\* interleaving, only ever do to connections and guards what PoolContract allows.
THEOREM PoolImplementsContract == ASSUME Warmers = {} PROVE Spec => ImplementsContract
<1>1. Init => Contract!Init
  BY InitContract
<1>2. CountInv /\ [Next]_vars => [Contract!Next]_(Contract!vars)
  BY StepContract
<1> QED
  BY <1>1, <1>2, CountsInvariant, PTL DEF Spec, ImplementsContract, Contract!Spec

-----------------------------------------------------------------------------
(* First come, first served.                                               *)

\* The pop_front / send loop serves the first entry that is not closed.
LEMMA SendServesFirst ==
  ASSUME DataOK, NEW k, SendToWaiter(k), NEW c \in Clients, rx[c] = None, rx'[c] \in Conns
  PROVE  \E i \in DOMAIN waiters : waiters[i] = c /\ \A j \in 1..(i - 1) : waiters[j] = Closed
<1>1. PICK i \in DOMAIN waiters : /\ waiters[i] \in Clients /\ \A j \in 1..(i - 1) : waiters[j] = Closed
                                  /\ rx' = [rx EXCEPT ![waiters[i]] = k]
  BY DEF SendToWaiter
<1>2. waiters[i] = c
  BY <1>1, TaskAssumption DEF DataOK
<1> QED
  BY <1>1, <1>2

\* Only a send puts a connection into an empty channel.
LEMMA OnlySendsFill ==
  ASSUME DataOK, [Next]_vars, NEW c \in Clients, rx[c] = None, rx'[c] \in Conns
  PROVE  \E k \in Conns : ReturnSend(k) \/ ProvisionSend(k)
<1>1. rx'[c] # rx[c] /\ rx' # rx
  BY TaskAssumption
<1>2. ASSUME NEW t \in Creators, CreateStep(t) PROVE rx' = rx
  BY <1>2 DEF CreateStep, Admit, Refuse, RollBack, ConnectOk, ConnectErr
<1>3. ASSUME NEW e \in Clients, NEW v \in {None, Closed}, rx' = [rx EXCEPT ![e] = v] PROVE FALSE
  BY <1>1, <1>3, TaskAssumption DEF DataOK
<1>4. ASSUME NEW e \in Clients, GetBegin(e) \/ GetStep(e) \/ DropGuard(e) \/ Take(e)
      PROVE  rx' = rx \/ rx' = [rx EXCEPT ![e] = None]
  BY <1>4 DEF GetBegin, GetStep, DropGuard, Take, TakeIdle, NoIdle, CheckCapacity, Enqueue, Checkout,
              Receive, ReceiveClosed, TimeoutElapsed, TimeoutDrop, DropReceiver, Prune
<1>5. ASSUME NEW e \in Clients, Cancel(e)
      PROVE  rx' = rx \/ rx' = [rx EXCEPT ![e] = None]
  BY <1>5 DEF Cancel, CancelLock, CancelConnect, CancelParked, CancelPrune, DropReceiver
<1>6. ASSUME NEW k \in Conns, ReturnStep(k) \/ Break(k) \/ Expire(k)
      PROVE  rx' = rx \/ ReturnSend(k) \/ ProvisionSend(k)
  BY <1>6 DEF ReturnStep, Break, Expire, ReturnBegin, ReturnDestroy, ReturnReset, ReturnPanic,
              ReturnDraining, ReturnKeep, ReturnUnclaimed, ReturnPush, MaybeNotifyDrain,
              ProvisionDrainCheck, ProvisionWaiterCheck, ProvisionUnclaimed, ProvisionPush
<1>7. ASSUME MaintStep PROVE rx' = rx
  BY <1>7 DEF MaintStep, MaintTick, MaintShutdown, MaintEvict, MaintLoadTotal, MaintLoadInUse, MaintPush
<1>8. ASSUME NEW d \in Drainers, DrainBegin(d) \/ DrainStep(d) PROVE rx' = rx \/ DrainWaiters(d)
  BY <1>8 DEF DrainBegin, DrainStep, DrainIdle, DrainCheck, DrainPermit
<1>9. ASSUME NEW d \in Drainers, DrainWaiters(d) PROVE FALSE
  <2>1. rx'[c] = Closed \/ rx'[c] = rx[c]
    BY <1>9 DEF DrainWaiters
  <2> QED
    BY <1>1, <2>1, TaskAssumption
<1>10. ASSUME NEW w \in Warmers, WarmBegin(w) \/ WarmStep(w) PROVE rx' = rx
  BY <1>10 DEF WarmBegin, WarmStep, WarmConnect, WarmPush, WarmCount
<1>11. CASE UNCHANGED vars
  BY <1>1, <1>11 DEF vars
<1> QED
  BY <1>1, <1>2, <1>3, <1>4, <1>5, <1>6, <1>7, <1>8, <1>9, <1>10, <1>11, TaskAssumption DEF Next

\* A connection that comes back, or is made for a waiter, goes to the client that has
\* queued longest and still waits; no step of any task answers another one first.
THEOREM WaitersServedInOrder == Spec => FirstComeFirstServed
<1>1. ASSUME TypeOK, [Next]_vars
      PROVE  [\A c \in Clients : rx[c] = None /\ rx'[c] \in Conns =>
                \E i \in DOMAIN waiters :
                  waiters[i] = c /\ \A j \in 1..(i - 1) : waiters[j] = Closed]_vars
  <2> SUFFICES ASSUME NEW c \in Clients, rx[c] = None, rx'[c] \in Conns
               PROVE  \E i \in DOMAIN waiters :
                        waiters[i] = c /\ \A j \in 1..(i - 1) : waiters[j] = Closed
    OBVIOUS
  <2>1. PICK k \in Conns : ReturnSend(k) \/ ProvisionSend(k)
    BY <1>1, OnlySendsFill DEF TypeOK
  <2>2. CASE ReturnSend(k)
    BY <1>1, <2>2, SendServesFirst DEF TypeOK, ReturnSend
  <2>3. CASE ProvisionSend(k)
    BY <1>1, <2>3, SendServesFirst DEF TypeOK, ProvisionSend
  <2> QED
    BY <2>1, <2>2, <2>3
<1> QED
  BY <1>1, TypeCorrect, PTL DEF Spec, FirstComeFirstServed

-----------------------------------------------------------------------------
(* drain().                                                                *)

\* A drain moves by its own steps, or is woken by the task that saw a zero count.
LEMMA DrainerMoves ==
  ASSUME LabelsOK, DataOK, HandsOK, [Next]_vars, NEW d \in Drainers, pc'[d] # pc[d]
  PROVE  DrainBegin(d) \/ DrainStep(d) \/ (pc[d] = "await" /\ pc'[d] = "zero")
<1>1. d \in Tasks /\ d \notin Creators /\ d \notin Clients /\ d \notin Conns /\ d \notin Warmers /\ d # Maint
  BY TaskAssumption DEF Tasks, Creators
<1>2. ASSUME NEW t, t # d, NEW l, Goto(t, l) PROVE FALSE
  BY <1>1, <1>2 DEF Goto, LabelsOK
<1>3. ASSUME NEW t \in Creators, CreateStep(t) PROVE \E l : Goto(t, l)
  BY <1>3 DEF CreateStep, Admit, Refuse, RollBack, ConnectOk, ConnectErr
<1>4. ASSUME NEW c \in Clients, GetBegin(c) \/ GetStep(c) \/ Cancel(c) \/ Take(c)
      PROVE  \E l : Goto(c, l)
  BY <1>4 DEF GetBegin, GetStep, Cancel, Take, TakeIdle, NoIdle, CheckCapacity, Enqueue, Checkout,
              Receive, ReceiveClosed, TimeoutElapsed, TimeoutDrop, Prune, CancelLock, CancelConnect,
              CancelParked, CancelPrune
<1>5. ASSUME NEW c \in Clients, DropGuard(c) PROVE FALSE
  <2>1. pc' = [pc EXCEPT ![c] = "out", ![hand[c]] = "start"]
    BY <1>5 DEF DropGuard
  <2>2. hand[c] \in Conns
    BY <1>5, FiniteTasks DEF DropGuard, DataOK, HandsOK
  <2>3. pc'[d] = pc[d]
    BY <1>1, <2>1, <2>2 DEF LabelsOK
  <2> QED
    BY <2>3
<1>6. ASSUME NEW k \in Conns, ReturnStep(k) \/ Break(k) \/ Expire(k)
      PROVE  MaybeNotifyDrain(k) \/ pc' = pc \/ \E l : Goto(k, l)
  BY <1>6 DEF ReturnStep, Break, Expire, ReturnBegin, ReturnDestroy, ReturnReset, ReturnPanic,
              ReturnDraining, ReturnKeep, ReturnSend, ReturnUnclaimed, ReturnPush,
              ProvisionDrainCheck, ProvisionWaiterCheck, ProvisionSend, ProvisionUnclaimed, ProvisionPush
<1>7. ASSUME NEW k \in Conns, MaybeNotifyDrain(k) PROVE pc[d] = "await" /\ pc'[d] = "zero"
  <2>1. \/ Goto(k, "none")
        \/ \E e \in Drainers : pc[e] = "await" /\ pc' = [pc EXCEPT ![k] = "none", ![e] = "zero"]
    BY <1>7 DEF MaybeNotifyDrain, NotifyOne
  <2> QED
    BY <1>1, <2>1 DEF Goto, LabelsOK
<1>8. ASSUME MaintStep PROVE \E l : Goto(Maint, l)
  BY <1>8 DEF MaintStep, MaintTick, MaintShutdown, MaintEvict, MaintLoadTotal, MaintLoadInUse, MaintPush
<1>9. ASSUME NEW w \in Warmers, WarmBegin(w) \/ WarmStep(w) PROVE \E l : Goto(w, l)
  BY <1>9 DEF WarmBegin, WarmStep, WarmConnect, WarmPush, WarmCount
<1>10. ASSUME NEW e \in Drainers, e # d, DrainBegin(e) \/ DrainStep(e) PROVE \E l : Goto(e, l)
  BY <1>10 DEF DrainBegin, DrainStep, DrainIdle, DrainWaiters, DrainCheck, DrainPermit
<1>11. ASSUME UNCHANGED vars PROVE FALSE
  BY <1>11 DEF vars
<1> QED
  BY <1>1, <1>2, <1>3, <1>4, <1>5, <1>6, <1>7, <1>8, <1>9, <1>10, <1>11, TaskAssumption DEF Next

\* drain() returns only when the pool has no connection left that anybody could still
\* use: the exact count makes its test of total_count enough.
THEOREM DrainWaitsForAll == ASSUME Warmers = {} PROVE Spec => DrainWaits
<1>1. ASSUME CountInv, [Next]_vars
      PROVE  [\A d \in Drainers : pc[d] = "zero" /\ pc'[d] = "drained" => Usable = 0]_vars
  <2> SUFFICES ASSUME NEW d \in Drainers, pc[d] = "zero", pc'[d] = "drained"
               PROVE  Usable = 0
    OBVIOUS
  <2>1. IndInv /\ total_count = Usable + Cardinality(RollingBack) + leaked
    BY <1>1 DEF CountInv, CountExact
  <2>2. total_count = 0
    <3>1. LabelsOK /\ DataOK /\ HandsOK /\ d \in Tasks
      BY <2>1 DEF IndInv, TypeOK, Whereabouts, Tasks
    <3>2. DrainBegin(d) \/ DrainStep(d)
      BY <1>1, <3>1, DrainerMoves
    <3> QED
      BY <3>1, <3>2 DEF DrainBegin, DrainStep, DrainIdle, DrainWaiters, DrainCheck, DrainPermit, Goto, LabelsOK
  <2>3. Usable \in Nat /\ Cardinality(RollingBack) \in Nat /\ leaked \in Nat
    BY <2>1, HeldBacked, UsableSum DEF IndInv, Backed, Whereabouts, TypeOK, DataOK
  <2> QED
    BY <2>1, <2>2, <2>3
<1> QED
  BY <1>1, CountsInvariant, PTL DEF Spec, DrainWaits

-----------------------------------------------------------------------------
(* The counters of callers.                                                *)

\* Task t goes from one label to another, and both are in L or neither is.
Keeps(t, L) == \E l : Goto(t, l) /\ (l \in L <=> pc[t] \in L)

LEMMA KeepsCount ==
  ASSUME LabelsOK, NEW t, NEW L, Keeps(t, L), NEW T \in SUBSET Tasks
  PROVE  CountIn(pc', T, L) = CountIn(pc, T, L)
<1>1. \A u \in T : pc'[u] \in L <=> pc[u] \in L
  BY DEF Keeps, Goto, LabelsOK
<1> QED
  BY <1>1 DEF CountIn

InUseL == {"held", "start"}
Using  == CountIn(pc, Clients \cup Conns, InUseL)

LEMMA CheckedOutCount == LabelsOK => Cardinality(CheckedOut) = Using /\ Using \in Nat
<1> SUFFICES ASSUME LabelsOK PROVE Cardinality(CheckedOut) = Using /\ Using \in Nat
  OBVIOUS
<1>1. CheckedOut = {u \in Clients \cup Conns : pc[u] \in InUseL}
  BY DEF CheckedOut, InUseL, LabelsOK, ClientPC, ReturnPC
<1>2. Using \in Nat
  BY FiniteTasks, CountType DEF Using
<1> QED
  BY <1>1, <1>2 DEF Using, CountIn

\* A step of t to l, and the count of guards in use.
LEMMA UsingMove ==
  ASSUME LabelsOK, NEW t \in Clients \cup Conns, NEW l, Goto(t, l)
  PROVE  /\ l \in InUseL /\ pc[t] \notin InUseL => Using' = Using + 1
         /\ l \notin InUseL /\ pc[t] \in InUseL => Using' = Using - 1 /\ Using > 0
<1>1. t \in Tasks /\ Clients \cup Conns \in SUBSET Tasks /\ IsFiniteSet(Clients \cup Conns)
  BY FiniteTasks
<1> QED
  BY <1>1, GotoCounts DEF Using

\* The guard is dropped: its client leaves the labels in use, the return task enters.
LEMMA DropGuardUsing ==
  ASSUME LabelsOK, DataOK, HandsOK, OneOwner, NEW c \in Clients, DropGuard(c)
  PROVE  Using' = Using
<1> DEFINE k   == hand[c]
           mid == [pc EXCEPT ![c] = "out"]
           T   == Clients \cup Conns
<1>1. /\ c \in Tasks /\ c \in T /\ c \notin Conns /\ pc[c] = "held" /\ IsFiniteSet(T) /\ T \subseteq Tasks
      /\ pc \in [Tasks -> ClientPC \cup ReturnPC \cup MaintPC \cup DrainPC \cup WarmPC]
  BY FiniteTasks, TaskAssumption DEF LabelsOK, DropGuard
<1>2. k \in Conns /\ k \in T /\ k \in Tasks /\ k # c
  BY <1>1, FiniteTasks DEF DataOK, HandsOK
<1>3. pc[k] = "none"
  BY <1>1, <1>2 DEF OneOwner
<1>4. pc' = [pc EXCEPT ![c] = "out", ![k] = "start"]
  BY DEF DropGuard
<1>5. /\ \A u \in T : mid[u] = IF u = c THEN "out" ELSE pc[u]
      /\ \A u \in T : pc'[u] = IF u = k THEN "start" ELSE mid[u]
  BY <1>1, <1>2, <1>4
<1>6. mid[k] = "none"
  BY <1>2, <1>3, <1>5
<1> HIDE DEF k, mid, T
<1>7. CountIn(mid, T, InUseL) = CountIn(pc, T, InUseL) - 1
  <2>1. \A u \in T : mid[u] = IF u = c THEN "out" ELSE pc[u]
    BY <1>5
  <2>2. "out" \notin InUseL /\ pc[c] \in InUseL /\ c \in T /\ IsFiniteSet(T)
    BY <1>1 DEF InUseL
  <2> HIDE <1>4, <1>5
  <2> QED
    BY <2>1, <2>2, CountMove
<1>8. CountIn(pc', T, InUseL) = CountIn(mid, T, InUseL) + 1
  <2>1. \A u \in T : pc'[u] = IF u = k THEN "start" ELSE mid[u]
    BY <1>5
  <2>2. "start" \in InUseL /\ mid[k] \notin InUseL /\ k \in T /\ IsFiniteSet(T)
    BY <1>1, <1>2, <1>6 DEF InUseL
  <2> HIDE <1>4, <1>5
  <2> QED
    BY <2>1, <2>2, CountMove
<1>9. CountIn(pc, T, InUseL) \in Nat
  BY <1>1, CountType
<1> QED
  BY <1>7, <1>8, <1>9 DEF Using, T

\* drain() is told by notify_one: no caller is touched.
LEMMA NotifyCounts ==
  ASSUME LabelsOK, NEW k \in Conns, MaybeNotifyDrain(k), NEW L, L \subseteq {"held", "start", "parked", "expire", "prune"},
         NEW T, T \subseteq Clients \cup Conns
  PROVE  CountIn(pc', T, L) = CountIn(pc, T, L)
<1>1. \A u \in T : pc'[u] \in L <=> pc[u] \in L
  <2>1. /\ pc[k] = "notify"
        /\ \/ Goto(k, "none")
           \/ \E d \in Drainers : pc[d] = "await" /\ pc' = [pc EXCEPT ![k] = "none", ![d] = "zero"]
    BY DEF MaybeNotifyDrain, NotifyOne
  <2> QED
    BY <2>1, TaskAssumption, FiniteTasks DEF Goto, LabelsOK
<1> QED
  BY <1>1 DEF CountIn

LEMMA StepInUse ==
  ASSUME IndInv, InUseExact, [Next]_vars
  PROVE  InUseExact'
<1>1. LabelsOK /\ DataOK /\ HandsOK /\ OneOwner /\ LabelsOK' /\ in_use_count \in Nat
  BY StepTyped DEF IndInv, Whereabouts, TypeOK, DataOK
<1>2. in_use_count = Using /\ Using \in Nat
  BY <1>1, CheckedOutCount DEF InUseExact
<1>3. Cardinality(CheckedOut)' = Using'
  <2>1. CheckedOutCount'
    BY CheckedOutCount, PTL
  <2> QED
    BY <1>1, <2>1
<1>4. ASSUME NEW t, Keeps(t, InUseL), in_use_count' = in_use_count PROVE in_use_count' = Using'
  BY <1>1, <1>2, <1>4, KeepsCount, FiniteTasks DEF Using
<1>5. ASSUME NEW c \in Clients, Checkout(c) PROVE in_use_count' = Using'
  <2>1. in_use_count' = Inc(in_use_count) /\ Using' = Using + 1
    BY <1>1, <1>5, UsingMove DEF Checkout, InUseL
  <2>2. Using' <= Cardinality(Creators)
    BY Width DEF Using, CountIn, Creators
  <2>3. in_use_count < UsizeMax
    BY <1>2, <2>1, <2>2, Width
  <2> QED
    BY <1>1, <1>2, <2>1, <2>3, IncExact
<1>6. ASSUME NEW t \in Clients \cup Conns, ReturnBegin(t) \/ Take(t) PROVE in_use_count' = Using'
  <2>1. Using' = Using - 1 /\ Using > 0
    BY <1>1, <1>6, UsingMove DEF ReturnBegin, Take, InUseL
  <2>2. in_use_count' = Sub(in_use_count, 1)
    BY <1>6 DEF ReturnBegin, Take
  <2> QED
    BY <1>2, <2>1, <2>2, SubExact
<1>7. ASSUME NEW c \in Clients, DropGuard(c) PROVE in_use_count' = Using'
  BY <1>1, <1>2, <1>7, DropGuardUsing DEF DropGuard
<1>8. ASSUME NEW k \in Conns, MaybeNotifyDrain(k) PROVE in_use_count' = Using'
  <2>1. CountIn(pc', Clients \cup Conns, InUseL) = CountIn(pc, Clients \cup Conns, InUseL)
    BY <1>1, <1>8, NotifyCounts DEF InUseL
  <2> QED
    BY <1>2, <1>8, <2>1 DEF Using, MaybeNotifyDrain
<1>9. ASSUME pc' = pc, in_use_count' = in_use_count PROVE in_use_count' = Using'
  BY <1>2, <1>9 DEF Using
<1>10. ASSUME NEW t \in Creators, CreateStep(t)
       PROVE  Keeps(t, InUseL) /\ in_use_count' = in_use_count
  BY <1>10 DEF CreateStep, Admit, Refuse, RollBack, ConnectOk, ConnectErr, AfterCreate, AfterRefusal,
               Keeps, InUseL
<1>11. ASSUME NEW c \in Clients, GetBegin(c) \/ GetStep(c), ~Checkout(c)
       PROVE  Keeps(c, InUseL) /\ in_use_count' = in_use_count
  BY <1>11 DEF GetBegin, GetStep, TakeIdle, NoIdle, CheckCapacity, Enqueue, Receive, ReceiveClosed,
               TimeoutElapsed, TimeoutDrop, Prune, Keeps, InUseL
<1>12. ASSUME NEW c \in Clients, Cancel(c)
       PROVE  Keeps(c, InUseL) /\ in_use_count' = in_use_count
  BY <1>12 DEF Cancel, CancelLock, CancelConnect, CancelParked, CancelPrune, Keeps, InUseL
<1>13. ASSUME NEW k \in Conns, ReturnStep(k), ~ReturnBegin(k), ~MaybeNotifyDrain(k)
       PROVE  Keeps(k, InUseL) /\ in_use_count' = in_use_count
  BY <1>13 DEF ReturnStep, ReturnDestroy, ReturnReset, ReturnPanic,
               ReturnDraining, ReturnKeep, ReturnSend, ReturnUnclaimed, ReturnPush,
               ProvisionDrainCheck, ProvisionWaiterCheck, ProvisionSend, ProvisionUnclaimed,
               ProvisionPush, Keeps, InUseL
<1>14. ASSUME NEW k \in Conns, Break(k) \/ Expire(k) PROVE pc' = pc /\ in_use_count' = in_use_count
  BY <1>14 DEF Break, Expire
<1>15. ASSUME MaintStep PROVE Keeps(Maint, InUseL) /\ in_use_count' = in_use_count
  BY <1>15 DEF MaintStep, MaintTick, MaintShutdown, MaintEvict, MaintLoadTotal, MaintLoadInUse,
               MaintPush, Keeps, InUseL
<1>16. ASSUME NEW d \in Drainers, DrainBegin(d) \/ DrainStep(d)
       PROVE  Keeps(d, InUseL) /\ in_use_count' = in_use_count
  BY <1>16 DEF DrainBegin, DrainStep, DrainIdle, DrainWaiters, DrainCheck, DrainPermit, Keeps, InUseL
<1>17. ASSUME NEW w \in Warmers, WarmBegin(w) \/ WarmStep(w)
       PROVE  Keeps(w, InUseL) /\ in_use_count' = in_use_count
  BY <1>17 DEF WarmBegin, WarmStep, WarmConnect, WarmPush, WarmCount, Keeps, InUseL
<1>18. ASSUME UNCHANGED vars PROVE in_use_count' = Using'
  BY <1>9, <1>18 DEF vars
<1>19. in_use_count' = Using'
  BY <1>4, <1>5, <1>6, <1>7, <1>8, <1>9, <1>10, <1>11, <1>12, <1>13, <1>14, <1>15, <1>16, <1>17,
     <1>18, TaskAssumption DEF Next
<1> QED
  BY <1>3, <1>19 DEF InUseExact

\* in_use_count is exact: every guard is counted from its checkout until its return task
\* starts or take() gives it away, whatever is cancelled, drained or warmed up meanwhile.
THEOREM InUseStaysExact == Spec => []InUseExact
<1>1. Init => InUseExact
  <2> SUFFICES ASSUME Init PROVE InUseExact
    OBVIOUS
  <2>1. LabelsOK
    BY InitTyped DEF TypeOK
  <2>2. \A u \in Clients \cup Conns : pc[u] \notin InUseL
    BY FiniteTasks DEF Init, InUseL
  <2>3. CheckedOut = {}
    BY <2>2 DEF CheckedOut, InUseL
  <2> QED
    BY <2>3, FS_EmptySet DEF InUseExact, Init
<1>2. IndInv /\ InUseExact /\ [Next]_vars => InUseExact'
  BY StepInUse
<1> QED
  BY <1>1, <1>2, Inductive, PTL DEF Spec

-----------------------------------------------------------------------------
WaitL   == {"parked", "expire", "prune"}
Waiting == CountIn(pc, Clients, WaitL)

\* No drain() has emptied the waiter queue yet.
QueueKept == \A d \in Drainers : pc[d] \in {"out", "clear_idle", "clear_waiters"}

LEMMA WaitingMove ==
  ASSUME LabelsOK, NEW c \in Clients, NEW l, Goto(c, l)
  PROVE  /\ Waiting \in Nat
         /\ l \in WaitL /\ pc[c] \notin WaitL => Waiting' = Waiting + 1
         /\ l \notin WaitL /\ pc[c] \in WaitL => Waiting' = Waiting - 1 /\ Waiting > 0
<1>1. c \in Tasks /\ Clients \in SUBSET Tasks /\ IsFiniteSet(Clients)
  BY FiniteTasks
<1> QED
  BY <1>1, GotoCounts, CountType DEF Waiting

\* A drain that has emptied the queue does not come back.
LEMMA QueueKeptBefore ==
  ASSUME IndInv, [Next]_vars, QueueKept'
  PROVE  QueueKept
<1> SUFFICES ASSUME NEW d \in Drainers PROVE pc[d] \in {"out", "clear_idle", "clear_waiters"}
  BY DEF QueueKept
<1>1. LabelsOK /\ DataOK /\ HandsOK /\ d \in Tasks
  BY DEF IndInv, TypeOK, Whereabouts, Tasks
<1>2. pc'[d] \in {"out", "clear_idle", "clear_waiters"}
  BY DEF QueueKept
<1>3. pc'[d] = pc[d] \/ DrainBegin(d) \/ DrainStep(d)
  BY <1>1, <1>2, DrainerMoves
<1> QED
  BY <1>1, <1>2, <1>3
     DEF DrainBegin, DrainStep, DrainIdle, DrainWaiters, DrainCheck, DrainPermit, Goto, LabelsOK

LEMMA StepWaiting ==
  ASSUME IndInv, QueueKept', waiter_count = Waiting, [Next]_vars
  PROVE  waiter_count' = Waiting'
<1>1. LabelsOK /\ waiter_count \in Nat
  BY DEF IndInv, TypeOK, DataOK
<1>2. ASSUME NEW t, Keeps(t, WaitL), waiter_count' = waiter_count PROVE waiter_count' = Waiting'
  BY <1>1, <1>2, KeepsCount, FiniteTasks DEF Waiting
<1>3. ASSUME NEW c \in Clients, Enqueue(c) PROVE waiter_count' = Waiting'
  <2>1. waiter_count' = Inc(waiter_count) /\ Waiting' = Waiting + 1 /\ Waiting \in Nat
    BY <1>1, <1>3, WaitingMove DEF Enqueue, WaitL
  <2>2. Waiting' <= Cardinality(Creators)
    BY Width DEF Waiting, CountIn, Creators
  <2>3. waiter_count < UsizeMax
    BY <2>1, <2>2, Width
  <2> QED
    BY <1>1, <2>1, <2>3, IncExact
<1>4. ASSUME NEW c \in Clients,
             Receive(c) \/ ReceiveClosed(c) \/ Prune(c) \/ CancelParked(c) \/ CancelPrune(c)
      PROVE  waiter_count' = Waiting'
  <2>1. Waiting' = Waiting - 1 /\ Waiting > 0 /\ Waiting \in Nat
    BY <1>1, <1>4, WaitingMove DEF Receive, ReceiveClosed, Prune, CancelParked, CancelPrune, WaitL
  <2>2. waiter_count' = Sub(waiter_count, 1)
    BY <1>4 DEF Receive, ReceiveClosed, Prune, CancelParked, CancelPrune
  <2> QED
    BY <2>1, <2>2, SubExact
<1>5. ASSUME NEW c \in Clients, DropGuard(c) PROVE waiter_count' = Waiting'
  <2>1. hand[c] \in Conns /\ hand[c] \notin Clients
    BY <1>5, FiniteTasks, TaskAssumption DEF IndInv, TypeOK, DataOK, Whereabouts, HandsOK, DropGuard
  <2>2. \A u \in Clients : pc'[u] \in WaitL <=> pc[u] \in WaitL
    BY <1>1, <1>5, <2>1, FiniteTasks DEF DropGuard, LabelsOK, WaitL
  <2> QED
    BY <1>5, <2>2 DEF Waiting, CountIn, DropGuard
<1>6. ASSUME NEW k \in Conns, MaybeNotifyDrain(k) PROVE waiter_count' = Waiting'
  <2>1. CountIn(pc', Clients, WaitL) = CountIn(pc, Clients, WaitL)
    BY <1>1, <1>6, NotifyCounts DEF WaitL
  <2> QED
    BY <1>6, <2>1 DEF Waiting, MaybeNotifyDrain
<1>7. ASSUME pc' = pc, waiter_count' = waiter_count PROVE waiter_count' = Waiting'
  BY <1>7 DEF Waiting
<1>8. ASSUME NEW t \in Creators, CreateStep(t)
      PROVE  Keeps(t, WaitL) /\ waiter_count' = waiter_count
  BY <1>8 DEF CreateStep, Admit, Refuse, RollBack, ConnectOk, ConnectErr, AfterCreate, AfterRefusal,
              Keeps, WaitL
<1>9. ASSUME NEW c \in Clients,
             \/ GetBegin(c) \/ TakeIdle(c) \/ NoIdle(c) \/ CheckCapacity(c) \/ Checkout(c)
             \/ TimeoutElapsed(c) \/ TimeoutDrop(c) \/ CancelLock(c) \/ CancelConnect(c) \/ Take(c)
      PROVE  Keeps(c, WaitL) /\ waiter_count' = waiter_count
  BY <1>9 DEF GetBegin, TakeIdle, NoIdle, CheckCapacity, Checkout, TimeoutElapsed, TimeoutDrop,
              CancelLock, CancelConnect, Take, Keeps, WaitL
<1>10. ASSUME NEW k \in Conns, ReturnStep(k), ~MaybeNotifyDrain(k)
       PROVE  Keeps(k, WaitL) /\ waiter_count' = waiter_count
  BY <1>10 DEF ReturnStep, ReturnBegin, ReturnDestroy, ReturnReset, ReturnPanic,
               ReturnDraining, ReturnKeep, ReturnSend, ReturnUnclaimed, ReturnPush,
               ProvisionDrainCheck, ProvisionWaiterCheck, ProvisionSend, ProvisionUnclaimed,
               ProvisionPush, Keeps, WaitL
<1>11. ASSUME NEW k \in Conns, Break(k) \/ Expire(k) PROVE pc' = pc /\ waiter_count' = waiter_count
  BY <1>11 DEF Break, Expire
<1>12. ASSUME MaintStep PROVE Keeps(Maint, WaitL) /\ waiter_count' = waiter_count
  BY <1>12 DEF MaintStep, MaintTick, MaintShutdown, MaintEvict, MaintLoadTotal, MaintLoadInUse,
               MaintPush, Keeps, WaitL
<1>13. ASSUME NEW d \in Drainers, DrainBegin(d) \/ DrainStep(d)
       PROVE  Keeps(d, WaitL) /\ waiter_count' = waiter_count
  <2>1. ~DrainWaiters(d)
    BY <1>1 DEF DrainWaiters, QueueKept, Goto, LabelsOK, Tasks
  <2> QED
    BY <1>13, <2>1 DEF DrainBegin, DrainStep, DrainIdle, DrainCheck, DrainPermit, Keeps, WaitL
<1>14. ASSUME NEW w \in Warmers, WarmBegin(w) \/ WarmStep(w)
       PROVE  Keeps(w, WaitL) /\ waiter_count' = waiter_count
  BY <1>14 DEF WarmBegin, WarmStep, WarmConnect, WarmPush, WarmCount, Keeps, WaitL
<1>15. ASSUME UNCHANGED vars PROVE waiter_count' = Waiting'
  BY <1>7, <1>15 DEF vars
<1> QED
  BY <1>2, <1>3, <1>4, <1>5, <1>6, <1>7, <1>8, <1>9, <1>10, <1>11, <1>12, <1>13, <1>14, <1>15,
     TaskAssumption DEF Next, GetStep, Cancel

\* waiter_count is exact as long as no drain() has emptied the queue: every way out of the
\* wait, delivered, closed, timed out or cancelled, takes back its one increment.
THEOREM WaiterCountStaysExact == Spec => []WaiterCountExact
<1>1. WaiterCountExact <=> (QueueKept => waiter_count = Waiting)
  <2>1. Parked = {c \in Clients : pc[c] \in WaitL}
    BY DEF Parked, WaitL
  <2> QED
    BY <2>1 DEF WaiterCountExact, QueueKept, Waiting, CountIn
<1>2. Init => (QueueKept => waiter_count = Waiting)
  <2> SUFFICES ASSUME Init PROVE waiter_count = Waiting
    OBVIOUS
  <2>1. \A c \in Clients : pc[c] \notin WaitL
    BY FiniteTasks DEF Init, WaitL
  <2>2. {c \in Clients : pc[c] \in WaitL} = {}
    BY <2>1
  <2> QED
    BY <2>2, FS_EmptySet DEF Waiting, CountIn, Init
<1>3. IndInv /\ (QueueKept => waiter_count = Waiting) /\ [Next]_vars
        => (QueueKept => waiter_count = Waiting)'
  BY StepWaiting, QueueKeptBefore
<1> QED
  BY <1>1, <1>2, <1>3, Inductive, PTL DEF Spec
=============================================================================
