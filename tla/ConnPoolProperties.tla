------------------------- MODULE ConnPoolProperties -------------------------
(***************************************************************************)
(* What the connection pool promises, stated over ConnPool.                *)
(***************************************************************************)
EXTENDS ConnPool

\* The connections total_count stands for, by who has them: the idle queue, a
\* oneshot channel, a local variable of a task of get(), of a return task or of
\* the maintenance task (connecting or connected), or a return task that has
\* not decided yet what becomes of its own connection.
InChannel == {c \in Clients : rx[c] \in Conns}
InHand    == {t \in Creators : hand[t] # None \/ pc[t] = "connect"}
Returning == {k \in Conns : pc[k] \in {"start", "check", "drainck", "route", "push"}}

Usable == Len(idle) + Cardinality(InChannel) + Cardinality(InHand) + Cardinality(Returning)

RollingBack == {t \in Creators : pc[t] = "rollback"}

\* Tasks inside get() that are counted as waiters.
Parked == {c \in Clients : pc[c] \in {"parked", "expire", "prune"}}

\* Guards that exist, or were dropped and not yet seen by their return task.
CheckedOut == {c \in Clients : pc[c] = "held"} \cup {k \in Conns : pc[k] = "start"}

-----------------------------------------------------------------------------
ClientPC == {"out", "scan", "cap", "reserve", "rollback", "connect", "enqueue", "parked",
             "expire", "prune", "got", "held"}
ReturnPC == {"none", "start", "check", "drainck", "route", "push", "prov", "pwait", "reserve",
             "rollback", "connect", "psend", "ppush", "notify"}
MaintPC  == {"sleep", "evict", "load_total", "load_in_use", "reserve", "rollback", "connect",
             "mpush", "stopped"}
DrainPC  == {"out", "clear_idle", "clear_waiters", "zero", "await", "drained"}
WarmPC   == {"out", "wconnect", "wpush", "wcount", "warm"}

\* Every variable has its type, and every task a label of its kind.
DataOK ==
  /\ draining \in BOOLEAN /\ permit \in BOOLEAN
  /\ idle \in Seq(Conns) /\ waiters \in Seq(Clients \cup {Closed})
  /\ total_count \in Nat /\ in_use_count \in Nat /\ waiter_count \in Nat /\ leaked \in Nat
  /\ rx \in [Clients -> Conns \cup {None, Closed}]
  /\ hand \in [Tasks -> Conns \cup {None}]
  /\ left \in [Warmers \cup {Maint} -> Nat]
  /\ broken \subseteq Conns /\ expired \subseteq Conns

LabelsOK ==
  /\ pc \in [Tasks -> ClientPC \cup ReturnPC \cup MaintPC \cup DrainPC \cup WarmPC]
  /\ \A c \in Clients : pc[c] \in ClientPC
  /\ \A k \in Conns : pc[k] \in ReturnPC
  /\ pc[Maint] \in MaintPC
  /\ \A d \in Drainers : pc[d] \in DrainPC
  /\ \A w \in Warmers : pc[w] \in WarmPC

TypeOK == DataOK /\ LabelsOK

\* The label of a task says what it owns: a connection in its hand, an answer in
\* its channel, connections of its loop still to create.
HandsOK ==
  \A t \in Tasks : hand[t] # None <=> pc[t] \in {"got", "held", "psend", "ppush", "mpush", "wpush"}

ChannelsOK == \A c \in Clients : rx[c] # None => pc[c] \in {"parked", "expire"}

LoopsOK ==
  \A t \in Warmers \cup {Maint} :
    pc[t] \in {"reserve", "rollback", "connect", "mpush", "wconnect", "wpush", "wcount"} => left[t] > 0

Whereabouts == HandsOK /\ ChannelsOK /\ LoopsOK

\* total_count is exact: it is the number of connections somebody can still use
\* or is opening, plus the optimistic increments about to be rolled back, plus
\* what was leaked by a dropped get() future or a panicking reset.  Every path
\* of get, return, provision, maintenance and drain keeps the balance.
CountExact == total_count = Usable + Cardinality(RollingBack) + leaked

\* The capacity gate (fetch_add, then roll back) holds under every race of
\* get, return and maintenance: never more than MaxSize connections.
CapacityHeld == Usable + leaked <= MaxSize

\* in_use_count is exact, whatever is cancelled, drained or destroyed.
InUseExact == in_use_count = Cardinality(CheckedOut)

\* waiter_count is exact until a drain() clears the queue.
WaiterCountExact ==
  (\A d \in Drainers : pc[d] \in {"out", "clear_idle", "clear_waiters"})
     => waiter_count = Cardinality(Parked)

\* A connection has one owner: idle queue, channel, task or return task.
OneOwner ==
  /\ \A i, j \in DOMAIN idle : idle[i] = idle[j] => i = j
  /\ \A c \in InChannel : rx[c] \notin Elems(idle)
  /\ \A c, e \in InChannel : rx[c] = rx[e] => c = e
  /\ \A t \in Tasks : hand[t] # None =>
       /\ hand[t] \notin Elems(idle)
       /\ \A c \in Clients : rx[c] # hand[t]
       /\ \A u \in Tasks : hand[u] = hand[t] => u = t
  /\ \A k \in Conns : pc[k] # "none" =>
       /\ k \notin Elems(idle)
       /\ \A c \in Clients : rx[c] # k
       /\ \A t \in Tasks : hand[t] # k

\* A queue entry that can be sent to belongs to a client that still waits with an
\* empty channel, and is its only one: no connection is sent twice to a client.
LiveEntries ==
  \A i \in DOMAIN waiters : waiters[i] \in Clients =>
    /\ pc[waiters[i]] \in {"parked", "expire"} /\ rx[waiters[i]] = None
    /\ \A j \in DOMAIN waiters : waiters[j] = waiters[i] => j = i

\* A client that waits with an empty channel has an entry in the queue, so a
\* returning connection can find it; and the entries are live or closed.
Queued ==
  \A c \in Clients : pc[c] \in {"parked", "expire"} /\ rx[c] = None =>
    \E i \in DOMAIN waiters : waiters[i] = c

WaitersReachable == Queued /\ LiveEntries

\* Of the clients that wait, the one that queued first is sent the connection: a
\* send into a channel serves the first entry whose client still waits (the
\* pop_front loops of pool.rs:551-567 and 616-628).  It is no promise against a
\* client that does not wait: one that arrives and finds a connection in the idle
\* queue takes it, also when another has queued since the task that returned it
\* saw the queue empty (pool.rs:363, 394-398, 570-574).
FirstComeFirstServed ==
  [][\A c \in Clients : rx[c] = None /\ rx'[c] \in Conns =>
       \E i \in DOMAIN waiters : waiters[i] = c /\ \A j \in 1..(i - 1) : waiters[j] = Closed]_vars

\* drain() returns only when every checkout has come back and nothing is idle
\* or on its way to a waiter.
DrainWaits ==
  [][\A d \in Drainers : pc[d] = "zero" /\ pc'[d] = "drained" => Usable = 0]_vars

\* A get() that waits for a connection ends, with a guard, an error or a timeout:
\* also when the connection it hoped for was leaked, taken or never provisioned.
GetReturns == \A c \in Clients : pc[c] = "parked" ~> pc[c] \in {"out", "held"}

\* The pool implements its contract: at most MaxSize connections, each
\* checked-out guard backed by one of its own.
Contract ==
  INSTANCE PoolContract WITH size <- Usable, granted <- {c \in Clients : pc[c] = "held"}

ImplementsContract == Contract!Spec
=============================================================================
