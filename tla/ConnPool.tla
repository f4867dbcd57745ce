------------------------------ MODULE ConnPool ------------------------------
(***************************************************************************)
(* The generic connection pool of pg-pool (src/pg-pool/src/pool.rs).       *)
(*                                                                         *)
(* Several tasks share two mutexed queues (idle, waiters) and a few atomic *)
(* counters.  A step of this module is what one task does between two      *)
(* points where another thread can see or change that shared state: one    *)
(* critical section, one atomic read-modify-write, or the completion of an *)
(* await.  The tasks are                                                   *)
(*   - the clients, which call get() and drop or take() the guard,         *)
(*   - one return task per connection being given back (return_conn spawns *)
(*     it); it is named after its connection, so Conns are tasks as well,  *)
(*   - the maintenance task, and the callers of drain() and warm_up().     *)
(*                                                                         *)
(* Connections are identifiers.  Only what the pool observes of one is     *)
(* kept: whether has_pending_data() is true (broken) and whether its idle  *)
(* entry is past expires_at (expired).                                     *)
(***************************************************************************)
EXTENDS Integers, Sequences, FiniteSets

CONSTANTS
  Clients,        \* tasks calling get()
  Impatient,      \* the clients whose get() future may be dropped half way
  Takers,         \* the clients that may keep a connection with take()
  Conns,          \* connection identifiers; bounds the sockets open at once
  Drainers,       \* tasks calling drain()
  Warmers,        \* tasks calling warm_up()
  Maint,          \* the maintenance task
  None,           \* no connection; an empty oneshot channel
  Closed,         \* a oneshot channel whose other end is gone
  MinIdle, MaxSize, TestOnCheckout,   \* ConnPoolConfig
  WarmTarget,     \* argument of warm_up()
  UsizeMax,       \* largest usize
  QueueBound      \* bound on the length of the waiter queue

Tasks    == Clients \cup Conns \cup Drainers \cup Warmers \cup {Maint}
Creators == Clients \cup Conns \cup {Maint}     \* callers of create_and_track

ASSUME ConfigAssumption ==
  /\ MinIdle \in Nat /\ MaxSize \in Nat /\ MinIdle <= MaxSize
  /\ WarmTarget \in Nat /\ UsizeMax \in Nat /\ QueueBound \in Nat
  /\ TestOnCheckout \in BOOLEAN

ASSUME TaskAssumption ==
  /\ IsFiniteSet(Clients) /\ IsFiniteSet(Conns)
  /\ IsFiniteSet(Drainers) /\ IsFiniteSet(Warmers)
  /\ Clients \cap Conns = {} /\ Clients \cap Drainers = {} /\ Clients \cap Warmers = {}
  /\ Conns \cap Drainers = {} /\ Conns \cap Warmers = {} /\ Drainers \cap Warmers = {}
  /\ Impatient \subseteq Clients /\ Takers \subseteq Clients
  /\ Maint \notin Clients \cup Conns \cup Drainers \cup Warmers
  /\ None \notin Conns \cup Clients /\ Closed \notin Conns \cup Clients
  /\ None # Closed

\* Counting up alone never overflows a counter: every task adds to it once.
ASSUME WidthAssumption == MaxSize + Cardinality(Creators) <= UsizeMax

VARIABLES
  draining,       \* AtomicBool
  idle,           \* VecDeque<IdleConn>, a sequence of connections
  waiters,        \* VecDeque<Waiter>: the client an entry belongs to, or Closed
  total_count, in_use_count, waiter_count,     \* AtomicUsize
  permit,         \* the stored permit of drain_complete: Notify
  rx,             \* per client, the receiving end of its oneshot channel
  pc,             \* where each task stands
  hand,           \* the connection a task owns in a local variable, or None
  left,           \* connections still to create (loops of maintenance, warm_up)
  broken, expired,
  leaked          \* history: counted connections that were dropped uncounted

vars == <<draining, idle, waiters, total_count, in_use_count, waiter_count,
          permit, rx, pc, hand, left, broken, expired, leaked>>

-----------------------------------------------------------------------------
(* Helpers.                                                                *)

\* AtomicUsize::fetch_add(1) and fetch_sub(m) wrap.
Inc(n) == IF n = UsizeMax THEN 0 ELSE n + 1

Sub(n, m) == IF n >= m THEN n - m ELSE (n - m) % (UsizeMax + 1)

SaturatingSub(n, m) == IF n >= m THEN n - m ELSE 0

Least(n, m) == IF n <= m THEN n ELSE m

Elems(q) == {q[i] : i \in DOMAIN q}

\* The n-th smallest element of a set of naturals, and VecDeque::retain: the
\* entries of q at the positions in I, in order.
Nth(I, n) == CHOOSE i \in I : Cardinality({j \in I : j <= i}) = n

At(q, I) == [n \in 1..Cardinality(I) |-> q[Nth(I, n)]]

Retain(q, S) == At(q, {i \in DOMAIN q : q[i] \in S})

\* Connections some task, channel or the idle queue still owns: their sockets
\* are open.
OpenConns ==
  Elems(idle) \cup {rx[c] : c \in Clients} \cup {hand[t] : t \in Tasks}
    \cup {k \in Conns : pc[k] # "none"}

Free == Conns \ OpenConns

\* What try_get_idle refuses.
Unfit(k) == k \in expired \/ (TestOnCheckout /\ k \in broken)

Goto(t, l) == pc' = [pc EXCEPT ![t] = l]

Forget(S) == broken' = broken \ S /\ expired' = expired \ S

-----------------------------------------------------------------------------
(* Initial state: new() has pre-filled up to MinIdle connections (a failed  *)
(* connect only logs) and spawned the maintenance task.                     *)

Init ==
  /\ draining = FALSE
  /\ idle \in UNION {{q \in [1..n -> Conns] : Cardinality(Elems(q)) = n} : n \in 0..MinIdle}
  /\ total_count = Len(idle)
  /\ waiters = <<>> /\ in_use_count = 0 /\ waiter_count = 0 /\ permit = FALSE
  /\ rx = [c \in Clients |-> None]
  /\ pc = [t \in Tasks |-> CASE t \in Conns -> "none" [] t = Maint -> "sleep" [] OTHER -> "out"]
  /\ hand = [t \in Tasks |-> None]
  /\ left = [t \in Warmers \cup {Maint} |-> 0]
  /\ broken = {} /\ expired = {} /\ leaked = 0

-----------------------------------------------------------------------------
(* The environment: a connection dies or is marked broken; an idle entry   *)
(* passes its expires_at.                                                  *)

Break(k) ==
  /\ k \in (Elems(idle) \cup {rx[c] : c \in Clients} \cup {hand[c] : c \in Clients}) \ broken
  /\ \A c \in Clients : hand[c] = k => pc[c] = "held"
  /\ broken' = broken \cup {k}
  /\ UNCHANGED <<draining, idle, waiters, total_count, in_use_count, waiter_count,
                 permit, rx, pc, hand, left, expired, leaked>>

Expire(k) ==
  /\ k \in Elems(idle) \ expired
  /\ expired' = expired \cup {k}
  /\ UNCHANGED <<draining, idle, waiters, total_count, in_use_count, waiter_count,
                 permit, rx, pc, hand, left, broken, leaked>>

-----------------------------------------------------------------------------
(* create_and_track: optimistic fetch_add, roll back when over MaxSize,     *)
(* otherwise connect, an await that fails, or succeeds with a connection    *)
(* that nobody owns yet (when Conns are used up it can only fail).         *)

AfterCreate(t) == CASE t \in Clients -> "got" [] t \in Conns -> "psend" [] OTHER -> "mpush"

AfterRefusal(t) == CASE t \in Clients -> "enqueue" [] t \in Conns -> "notify" [] OTHER -> "sleep"

\* A failed attempt ends the creating task's loop, when it is in one.
BreakLoop(t) == left' = [u \in DOMAIN left |-> IF u = t THEN 0 ELSE left[u]]

\* Variant: the fetch_add result is not compared with max_size again.
Admit_NoRecheck(t) ==
  /\ pc[t] = "reserve"
  /\ total_count' = Inc(total_count)
  /\ Goto(t, "connect")
  /\ UNCHANGED <<draining, idle, waiters, in_use_count, waiter_count, permit, rx,
                 hand, left, broken, expired, leaked>>

Admit(t) ==
  /\ pc[t] = "reserve" /\ total_count < MaxSize
  /\ total_count' = Inc(total_count)
  /\ Goto(t, "connect")
  /\ UNCHANGED <<draining, idle, waiters, in_use_count, waiter_count, permit, rx,
                 hand, left, broken, expired, leaked>>

Refuse(t) ==
  /\ pc[t] = "reserve" /\ total_count >= MaxSize
  /\ total_count' = Inc(total_count)
  /\ Goto(t, "rollback")
  /\ UNCHANGED <<draining, idle, waiters, in_use_count, waiter_count, permit, rx,
                 hand, left, broken, expired, leaked>>

\* Variant: a refused reservation is not rolled back.
RollBack_Missing(t) ==
  /\ pc[t] = "rollback"
  /\ Goto(t, AfterRefusal(t))
  /\ BreakLoop(t)
  /\ UNCHANGED <<draining, idle, waiters, total_count, in_use_count, waiter_count,
                 permit, rx, hand, broken, expired, leaked>>

RollBack(t) ==
  /\ pc[t] = "rollback"
  /\ total_count' = Sub(total_count, 1)
  /\ Goto(t, AfterRefusal(t))
  /\ BreakLoop(t)
  /\ UNCHANGED <<draining, idle, waiters, in_use_count, waiter_count, permit, rx,
                 hand, broken, expired, leaked>>

ConnectOk(t) ==
  /\ pc[t] = "connect"
  /\ \E k \in Free : hand' = [hand EXCEPT ![t] = k]
  /\ Goto(t, AfterCreate(t))
  /\ UNCHANGED <<draining, idle, waiters, total_count, in_use_count, waiter_count,
                 permit, rx, left, broken, expired, leaked>>

ConnectErr(t) ==
  /\ pc[t] = "connect"
  /\ total_count' = Sub(total_count, 1)
  /\ Goto(t, AfterRefusal(t))
  /\ BreakLoop(t)
  /\ UNCHANGED <<draining, idle, waiters, in_use_count, waiter_count, permit, rx,
                 hand, broken, expired, leaked>>

-----------------------------------------------------------------------------
(* get().                                                                  *)

GetBegin(c) ==
  /\ pc[c] = "out" /\ ~draining
  /\ Goto(c, "scan")
  /\ UNCHANGED <<draining, idle, waiters, total_count, in_use_count, waiter_count,
                 permit, rx, hand, left, broken, expired, leaked>>

\* Variant: the entry is read at the front of the queue but not popped.
TakeIdle_Peek(c) ==
  /\ pc[c] = "scan"
  /\ \E i \in DOMAIN idle :
       /\ ~Unfit(idle[i]) /\ \A j \in 1..(i - 1) : Unfit(idle[j])
       /\ hand' = [hand EXCEPT ![c] = idle[i]]
       /\ idle' = SubSeq(idle, i, Len(idle))
       /\ total_count' = Sub(total_count, i - 1)
       /\ Forget({idle[j] : j \in 1..(i - 1)})
  /\ Goto(c, "got")
  /\ UNCHANGED <<draining, waiters, in_use_count, waiter_count, permit, rx, left, leaked>>

\* try_get_idle, one critical section: entries that are expired or fail the
\* checkout test are destroyed, the first other one is taken.
TakeIdle(c) ==
  /\ pc[c] = "scan"
  /\ \E i \in DOMAIN idle :
       /\ ~Unfit(idle[i]) /\ \A j \in 1..(i - 1) : Unfit(idle[j])
       /\ hand' = [hand EXCEPT ![c] = idle[i]]
       /\ idle' = SubSeq(idle, i + 1, Len(idle))
       /\ total_count' = Sub(total_count, i - 1)
       /\ Forget({idle[j] : j \in 1..(i - 1)})
  /\ Goto(c, "got")
  /\ UNCHANGED <<draining, waiters, in_use_count, waiter_count, permit, rx, left, leaked>>

NoIdle(c) ==
  /\ pc[c] = "scan"
  /\ \A k \in Elems(idle) : Unfit(k)
  /\ idle' = <<>>
  /\ total_count' = Sub(total_count, Len(idle))
  /\ Forget(Elems(idle))
  /\ Goto(c, "cap")
  /\ UNCHANGED <<draining, waiters, in_use_count, waiter_count, permit, rx, hand, left, leaked>>

CheckCapacity(c) ==
  /\ pc[c] = "cap"
  /\ Goto(c, IF total_count < MaxSize THEN "reserve" ELSE "enqueue")
  /\ UNCHANGED <<draining, idle, waiters, total_count, in_use_count, waiter_count,
                 permit, rx, hand, left, broken, expired, leaked>>

Enqueue(c) ==
  /\ pc[c] = "enqueue" /\ Len(waiters) < QueueBound
  /\ waiters' = Append(waiters, c)
  /\ waiter_count' = Inc(waiter_count)
  /\ Goto(c, "parked")
  /\ UNCHANGED <<draining, idle, total_count, in_use_count, permit, rx, hand, left,
                 broken, expired, leaked>>

\* The guard is handed to the caller: in_use_count and total_checkouts go up.
Checkout(c) ==
  /\ pc[c] = "got"
  /\ in_use_count' = Inc(in_use_count)
  /\ Goto(c, "held")
  /\ UNCHANGED <<draining, idle, waiters, total_count, waiter_count, permit, rx, hand,
                 left, broken, expired, leaked>>

\* Variant: any answer on the channel is taken for a connection.
Receive_AnyAnswer(c) ==
  /\ pc[c] = "parked" /\ rx[c] # None
  /\ hand' = [hand EXCEPT ![c] = rx[c]]
  /\ rx' = [rx EXCEPT ![c] = None]
  /\ waiter_count' = Sub(waiter_count, 1)
  /\ Goto(c, "got")
  /\ UNCHANGED <<draining, idle, waiters, total_count, in_use_count, permit, left,
                 broken, expired, leaked>>

\* The oneshot delivers (WaiterCountGuard is dropped on the way out) ...
Receive(c) ==
  /\ pc[c] = "parked" /\ rx[c] \in Conns
  /\ hand' = [hand EXCEPT ![c] = rx[c]]
  /\ rx' = [rx EXCEPT ![c] = None]
  /\ waiter_count' = Sub(waiter_count, 1)
  /\ Goto(c, "got")
  /\ UNCHANGED <<draining, idle, waiters, total_count, in_use_count, permit, left,
                 broken, expired, leaked>>

\* ... or its sender was dropped: PoolError::Closed.
ReceiveClosed(c) ==
  /\ pc[c] = "parked" /\ rx[c] = Closed
  /\ rx' = [rx EXCEPT ![c] = None]
  /\ waiter_count' = Sub(waiter_count, 1)
  /\ Goto(c, "out")
  /\ UNCHANGED <<draining, idle, waiters, total_count, in_use_count, permit, hand, left,
                 broken, expired, leaked>>

\* The receiving end goes away: its queue entry is closed, and a connection
\* already in the channel is dropped with it; no counter is told.
DropReceiver(c) ==
  /\ waiters' = [i \in DOMAIN waiters |-> IF waiters[i] = c THEN Closed ELSE waiters[i]]
  /\ rx' = [rx EXCEPT ![c] = None]
  /\ leaked' = IF rx[c] \in Conns THEN leaked + 1 ELSE leaked
  /\ Forget({rx[c]})

\* Variant: the wait is not wrapped in a timeout.
TimeoutElapsed_Never(c) == pc[c] = "parked" /\ FALSE /\ UNCHANGED vars

\* tokio::time::timeout polls the channel first, so it elapses only on an
\* empty one; the receiver is dropped a moment later.
TimeoutElapsed(c) ==
  /\ pc[c] = "parked" /\ rx[c] = None
  /\ Goto(c, "expire")
  /\ UNCHANGED <<draining, idle, waiters, total_count, in_use_count, waiter_count,
                 permit, rx, hand, left, broken, expired, leaked>>

TimeoutDrop(c) ==
  /\ pc[c] = "expire"
  /\ DropReceiver(c)
  /\ Goto(c, "prune")
  /\ UNCHANGED <<draining, idle, total_count, in_use_count, waiter_count, permit, hand, left>>

\* Variant: retain keeps the dead entries and drops the live ones.
Prune_Inverted(c) ==
  /\ pc[c] = "prune"
  /\ waiters' = Retain(waiters, {Closed})
  /\ waiter_count' = Sub(waiter_count, 1)
  /\ Goto(c, "out")
  /\ UNCHANGED <<draining, idle, total_count, in_use_count, permit, rx, hand, left,
                 broken, expired, leaked>>

\* waiters.retain(|w| !w.tx.is_closed()), then Err(Timeout).
Prune(c) ==
  /\ pc[c] = "prune"
  /\ waiters' = Retain(waiters, Clients)
  /\ waiter_count' = Sub(waiter_count, 1)
  /\ Goto(c, "out")
  /\ UNCHANGED <<draining, idle, total_count, in_use_count, permit, rx, hand, left,
                 broken, expired, leaked>>

\* The get() future is dropped at one of its awaits: on a mutex, ...
CancelLock(c) ==
  /\ pc[c] \in {"scan", "enqueue"}
  /\ Goto(c, "out")
  /\ UNCHANGED <<draining, idle, waiters, total_count, in_use_count, waiter_count,
                 permit, rx, hand, left, broken, expired, leaked>>

\* ... inside C::connect, after create_and_track counted the connection, ...
CancelConnect(c) ==
  /\ pc[c] = "connect"
  /\ leaked' = leaked + 1
  /\ Goto(c, "out")
  /\ UNCHANGED <<draining, idle, waiters, total_count, in_use_count, waiter_count,
                 permit, rx, hand, left, broken, expired>>

\* Variant: without WaiterCountGuard a cancelled wait stays counted.
CancelParked_NoGuard(c) ==
  /\ pc[c] = "parked"
  /\ DropReceiver(c)
  /\ Goto(c, "out")
  /\ UNCHANGED <<draining, idle, total_count, in_use_count, waiter_count, permit, hand, left>>

\* ... on the channel, ...
CancelParked(c) ==
  /\ pc[c] = "parked"
  /\ DropReceiver(c)
  /\ waiter_count' = Sub(waiter_count, 1)
  /\ Goto(c, "out")
  /\ UNCHANGED <<draining, idle, total_count, in_use_count, permit, hand, left>>

\* ... or on the mutex before the timed-out entry is pruned.
CancelPrune(c) ==
  /\ pc[c] = "prune"
  /\ waiter_count' = Sub(waiter_count, 1)
  /\ Goto(c, "out")
  /\ UNCHANGED <<draining, idle, waiters, total_count, in_use_count, permit, rx, hand,
                 left, broken, expired, leaked>>

\* Variant: take() forgets that the connection was in use.
Take_StillInUse(c) ==
  /\ pc[c] = "held"
  /\ total_count' = Sub(total_count, 1)
  /\ hand' = [hand EXCEPT ![c] = None]
  /\ Forget({hand[c]})
  /\ Goto(c, "out")
  /\ UNCHANGED <<draining, idle, waiters, in_use_count, waiter_count, permit, rx, left, leaked>>

\* PoolGuard::take and PoolGuard::drop.
Take(c) ==
  /\ pc[c] = "held"
  /\ in_use_count' = Sub(in_use_count, 1)
  /\ total_count' = Sub(total_count, 1)
  /\ hand' = [hand EXCEPT ![c] = None]
  /\ Forget({hand[c]})
  /\ Goto(c, "out")
  /\ UNCHANGED <<draining, idle, waiters, waiter_count, permit, rx, left, leaked>>

DropGuard(c) ==
  /\ pc[c] = "held"
  /\ hand' = [hand EXCEPT ![c] = None]
  /\ pc' = [pc EXCEPT ![c] = "out", ![hand[c]] = "start"]
  /\ UNCHANGED <<draining, idle, waiters, total_count, in_use_count, waiter_count,
                 permit, rx, left, broken, expired, leaked>>

-----------------------------------------------------------------------------
(* return_conn_async, run by the return task of connection k.              *)

ReturnBegin(k) ==
  /\ pc[k] = "start"
  /\ in_use_count' = Sub(in_use_count, 1)
  /\ Goto(k, "check")
  /\ UNCHANGED <<draining, idle, waiters, total_count, waiter_count, permit, rx, hand,
                 left, broken, expired, leaked>>

\* has_pending_data() or a failed reset(): destroyed, but the value lives on
\* until the task has tried to provision a replacement for a waiter.
ReturnDestroy(k) ==
  /\ pc[k] = "check"
  /\ total_count' = Sub(total_count, 1)
  /\ Goto(k, "prov")
  /\ UNCHANGED <<draining, idle, waiters, in_use_count, waiter_count, permit, rx, hand,
                 left, broken, expired, leaked>>

ReturnReset(k) ==
  /\ pc[k] = "check" /\ k \notin broken
  /\ Goto(k, "drainck")
  /\ UNCHANGED <<draining, idle, waiters, total_count, in_use_count, waiter_count,
                 permit, rx, hand, left, broken, expired, leaked>>

\* A panic in reset() aborts the spawned task; the value is dropped.
ReturnPanic(k) ==
  /\ pc[k] = "check" /\ k \notin broken
  /\ leaked' = leaked + 1
  /\ Forget({k})
  /\ Goto(k, "none")
  /\ UNCHANGED <<draining, idle, waiters, total_count, in_use_count, waiter_count,
                 permit, rx, hand, left>>

ReturnDraining(k) ==
  /\ pc[k] = "drainck" /\ draining
  /\ total_count' = Sub(total_count, 1)
  /\ Goto(k, "notify")
  /\ UNCHANGED <<draining, idle, waiters, in_use_count, waiter_count, permit, rx, hand,
                 left, broken, expired, leaked>>

ReturnKeep(k) ==
  /\ pc[k] = "drainck" /\ ~draining
  /\ Goto(k, "route")
  /\ UNCHANGED <<draining, idle, waiters, total_count, in_use_count, waiter_count,
                 permit, rx, hand, left, broken, expired, leaked>>

\* Variant: pop_back instead of pop_front.
SendToWaiter_Newest(k) ==
  \E i \in DOMAIN waiters :
    /\ waiters[i] \in Clients /\ \A j \in (i + 1)..Len(waiters) : waiters[j] = Closed
    /\ rx' = [rx EXCEPT ![waiters[i]] = k]
    /\ waiters' = SubSeq(waiters, 1, i - 1)

\* The pop_front / send loop under the waiters lock: entries whose receiver
\* is gone are discarded, the first live one gets connection k ...
SendToWaiter(k) ==
  \E i \in DOMAIN waiters :
    /\ waiters[i] \in Clients /\ \A j \in 1..(i - 1) : waiters[j] = Closed
    /\ rx' = [rx EXCEPT ![waiters[i]] = k]
    /\ waiters' = SubSeq(waiters, i + 1, Len(waiters))

\* ... or there is none and the queue is left empty.
NoLiveWaiter ==
  /\ \A i \in DOMAIN waiters : waiters[i] = Closed
  /\ waiters' = <<>>

ReturnSend(k) ==
  /\ pc[k] = "route"
  /\ SendToWaiter(k)
  /\ Goto(k, "none")
  /\ UNCHANGED <<draining, idle, total_count, in_use_count, waiter_count, permit, hand,
                 left, broken, expired, leaked>>

ReturnUnclaimed(k) ==
  /\ pc[k] = "route"
  /\ NoLiveWaiter
  /\ Goto(k, "push")
  /\ UNCHANGED <<draining, idle, total_count, in_use_count, waiter_count, permit, rx, hand,
                 left, broken, expired, leaked>>

ReturnPush(k) ==
  /\ pc[k] = "push"
  /\ idle' = Append(idle, k)
  /\ Goto(k, "none")
  /\ UNCHANGED <<draining, waiters, total_count, in_use_count, waiter_count, permit, rx,
                 hand, left, broken, expired, leaked>>

\* maybe_notify_drain, then the task ends and drops connection k.  notify_one
\* wakes a waiting task or, when there is none, stores a permit.
NotifyOne(k) ==
  IF \E d \in Drainers : pc[d] = "await"
  THEN /\ \E d \in Drainers : pc[d] = "await" /\ pc' = [pc EXCEPT ![k] = "none", ![d] = "zero"]
       /\ UNCHANGED permit
  ELSE permit' = TRUE /\ Goto(k, "none")

MaybeNotifyDrain(k) ==
  /\ pc[k] = "notify"
  /\ IF draining /\ total_count = 0 THEN NotifyOne(k) ELSE Goto(k, "none") /\ UNCHANGED permit
  /\ Forget({k})
  /\ UNCHANGED <<draining, idle, waiters, total_count, in_use_count, waiter_count, rx,
                 hand, left, leaked>>

\* try_provision_for_waiter; create_and_track is the shared code above.
ProvisionDrainCheck(k) ==
  /\ pc[k] = "prov"
  /\ Goto(k, IF draining THEN "notify" ELSE "pwait")
  /\ UNCHANGED <<draining, idle, waiters, total_count, in_use_count, waiter_count,
                 permit, rx, hand, left, broken, expired, leaked>>

ProvisionWaiterCheck(k) ==
  /\ pc[k] = "pwait"
  /\ Goto(k, IF waiters = <<>> THEN "notify" ELSE "reserve")
  /\ UNCHANGED <<draining, idle, waiters, total_count, in_use_count, waiter_count,
                 permit, rx, hand, left, broken, expired, leaked>>

ProvisionSend(k) ==
  /\ pc[k] = "psend"
  /\ SendToWaiter(hand[k])
  /\ hand' = [hand EXCEPT ![k] = None]
  /\ Goto(k, "notify")
  /\ UNCHANGED <<draining, idle, total_count, in_use_count, waiter_count, permit, left,
                 broken, expired, leaked>>

ProvisionUnclaimed(k) ==
  /\ pc[k] = "psend"
  /\ NoLiveWaiter
  /\ Goto(k, "ppush")
  /\ UNCHANGED <<draining, idle, total_count, in_use_count, waiter_count, permit, rx, hand,
                 left, broken, expired, leaked>>

ProvisionPush(k) ==
  /\ pc[k] = "ppush"
  /\ idle' = Append(idle, hand[k])
  /\ hand' = [hand EXCEPT ![k] = None]
  /\ Goto(k, "notify")
  /\ UNCHANGED <<draining, waiters, total_count, in_use_count, waiter_count, permit, rx,
                 left, broken, expired, leaked>>

-----------------------------------------------------------------------------
(* maintenance_task.                                                       *)

MaintTick ==
  /\ pc[Maint] = "sleep"
  /\ Goto(Maint, IF draining THEN "stopped" ELSE "evict")
  /\ UNCHANGED <<draining, idle, waiters, total_count, in_use_count, waiter_count,
                 permit, rx, hand, left, broken, expired, leaked>>

\* drain() has sent on shutdown_tx.
MaintShutdown ==
  /\ pc[Maint] = "sleep" /\ \E d \in Drainers : pc[d] = "drained"
  /\ Goto(Maint, "stopped")
  /\ UNCHANGED <<draining, idle, waiters, total_count, in_use_count, waiter_count,
                 permit, rx, hand, left, broken, expired, leaked>>

MaintEvict ==
  /\ pc[Maint] = "evict"
  /\ idle' = Retain(idle, Conns \ expired)
  /\ total_count' = Sub(total_count, Len(idle) - Len(idle'))
  /\ Forget(Elems(idle) \cap expired)
  /\ Goto(Maint, "load_total")
  /\ UNCHANGED <<draining, waiters, in_use_count, waiter_count, permit, rx, hand, left, leaked>>

\* left first holds the local `total`, then the number of connections to create.
MaintLoadTotal ==
  /\ pc[Maint] = "load_total"
  /\ left' = [left EXCEPT ![Maint] = total_count]
  /\ Goto(Maint, "load_in_use")
  /\ UNCHANGED <<draining, idle, waiters, total_count, in_use_count, waiter_count,
                 permit, rx, hand, broken, expired, leaked>>

RefillCount(total, in_use) ==
  LET current_idle == SaturatingSub(total, in_use)
  IN  IF current_idle < MinIdle /\ total < MaxSize
      THEN Least(MinIdle - current_idle, MaxSize - total) ELSE 0

MaintLoadInUse ==
  /\ pc[Maint] = "load_in_use"
  /\ left' = [left EXCEPT ![Maint] = RefillCount(left[Maint], in_use_count)]
  /\ Goto(Maint, IF left'[Maint] > 0 THEN "reserve" ELSE "sleep")
  /\ UNCHANGED <<draining, idle, waiters, total_count, in_use_count, waiter_count,
                 permit, rx, hand, broken, expired, leaked>>

MaintPush ==
  /\ pc[Maint] = "mpush"
  /\ idle' = Append(idle, hand[Maint])
  /\ hand' = [hand EXCEPT ![Maint] = None]
  /\ left' = [left EXCEPT ![Maint] = @ - 1]
  /\ Goto(Maint, IF left'[Maint] > 0 THEN "reserve" ELSE "sleep")
  /\ UNCHANGED <<draining, waiters, total_count, in_use_count, waiter_count, permit, rx,
                 broken, expired, leaked>>

-----------------------------------------------------------------------------
(* drain().                                                                *)

DrainBegin(d) ==
  /\ pc[d] = "out"
  /\ draining' = TRUE
  /\ Goto(d, "clear_idle")
  /\ UNCHANGED <<idle, waiters, total_count, in_use_count, waiter_count, permit, rx, hand,
                 left, broken, expired, leaked>>

DrainIdle(d) ==
  /\ pc[d] = "clear_idle"
  /\ idle' = <<>>
  /\ total_count' = Sub(total_count, Len(idle))
  /\ Forget(Elems(idle))
  /\ Goto(d, "clear_waiters")
  /\ UNCHANGED <<draining, waiters, in_use_count, waiter_count, permit, rx, hand, left, leaked>>

\* Variant: the senders are dropped but their entries stay in the queue.
DrainWaiters_KeepEntries(d) ==
  /\ pc[d] = "clear_waiters"
  /\ rx' = [c \in Clients |-> IF c \in Elems(waiters) THEN Closed ELSE rx[c]]
  /\ waiter_count' = Sub(waiter_count, Len(waiters))
  /\ Goto(d, "zero")
  /\ UNCHANGED <<draining, idle, waiters, total_count, in_use_count, permit, hand, left,
                 broken, expired, leaked>>

DrainWaiters(d) ==
  /\ pc[d] = "clear_waiters"
  /\ rx' = [c \in Clients |-> IF c \in Elems(waiters) THEN Closed ELSE rx[c]]
  /\ waiter_count' = Sub(waiter_count, Len(waiters))
  /\ waiters' = <<>>
  /\ Goto(d, "zero")
  /\ UNCHANGED <<draining, idle, total_count, in_use_count, permit, hand, left, broken,
                 expired, leaked>>

\* Variant: drain() waits for the idle queue only.
DrainCheck_IdleOnly(d) ==
  /\ pc[d] = "zero"
  /\ Goto(d, IF idle = <<>> THEN "drained" ELSE "await")
  /\ UNCHANGED <<draining, idle, waiters, total_count, in_use_count, waiter_count,
                 permit, rx, hand, left, broken, expired, leaked>>

\* The loop: leave when total_count is zero, else await drain_complete.
DrainCheck(d) ==
  /\ pc[d] = "zero"
  /\ Goto(d, IF total_count = 0 THEN "drained" ELSE "await")
  /\ UNCHANGED <<draining, idle, waiters, total_count, in_use_count, waiter_count,
                 permit, rx, hand, left, broken, expired, leaked>>

DrainPermit(d) ==
  /\ pc[d] = "await" /\ permit
  /\ permit' = FALSE
  /\ Goto(d, "zero")
  /\ UNCHANGED <<draining, idle, waiters, total_count, in_use_count, waiter_count, rx,
                 hand, left, broken, expired, leaked>>

-----------------------------------------------------------------------------
(* warm_up(): connections are pushed first and counted afterwards.         *)

\* max_size - current underflows when current is above max_size: a debug
\* build panics, a release build wraps and the other operand of min() is left.
WarmBegin(w) ==
  /\ pc[w] = "out"
  /\ \/ LET short == SaturatingSub(WarmTarget, total_count)
            n == IF total_count <= MaxSize THEN Least(short, MaxSize - total_count) ELSE short
        IN  /\ left' = [left EXCEPT ![w] = n]
            /\ Goto(w, IF n > 0 THEN "wconnect" ELSE "warm")
     \/ /\ total_count > MaxSize
        /\ Goto(w, "warm")
        /\ UNCHANGED left
  /\ UNCHANGED <<draining, idle, waiters, total_count, in_use_count, waiter_count,
                 permit, rx, hand, broken, expired, leaked>>

WarmConnect(w) ==
  /\ pc[w] = "wconnect"
  /\ \/ /\ \E k \in Free : hand' = [hand EXCEPT ![w] = k]
        /\ Goto(w, "wpush")
        /\ UNCHANGED left
     \/ /\ Goto(w, "warm")
        /\ BreakLoop(w)
        /\ UNCHANGED hand
  /\ UNCHANGED <<draining, idle, waiters, total_count, in_use_count, waiter_count,
                 permit, rx, broken, expired, leaked>>

WarmPush(w) ==
  /\ pc[w] = "wpush"
  /\ idle' = Append(idle, hand[w])
  /\ hand' = [hand EXCEPT ![w] = None]
  /\ Goto(w, "wcount")
  /\ UNCHANGED <<draining, waiters, total_count, in_use_count, waiter_count, permit, rx,
                 left, broken, expired, leaked>>

WarmCount(w) ==
  /\ pc[w] = "wcount"
  /\ total_count' = Inc(total_count)
  /\ left' = [left EXCEPT ![w] = @ - 1]
  /\ Goto(w, IF left'[w] > 0 THEN "wconnect" ELSE "warm")
  /\ UNCHANGED <<draining, idle, waiters, in_use_count, waiter_count, permit, rx, hand,
                 broken, expired, leaked>>

-----------------------------------------------------------------------------
CreateStep(t) == Admit(t) \/ Refuse(t) \/ RollBack(t) \/ ConnectOk(t) \/ ConnectErr(t)

\* What the pool itself does inside get(), without the caller's help.
GetStep(c) ==
  \/ TakeIdle(c) \/ NoIdle(c) \/ CheckCapacity(c) \/ Enqueue(c) \/ Checkout(c)
  \/ Receive(c) \/ ReceiveClosed(c) \/ TimeoutElapsed(c) \/ TimeoutDrop(c) \/ Prune(c)

Cancel(c) == CancelLock(c) \/ CancelConnect(c) \/ CancelParked(c) \/ CancelPrune(c)

ReturnStep(k) ==
  \/ ReturnBegin(k) \/ ReturnDestroy(k) \/ ReturnReset(k) \/ ReturnPanic(k)
  \/ ReturnDraining(k) \/ ReturnKeep(k) \/ ReturnSend(k) \/ ReturnUnclaimed(k)
  \/ ReturnPush(k) \/ MaybeNotifyDrain(k) \/ ProvisionDrainCheck(k)
  \/ ProvisionWaiterCheck(k) \/ ProvisionSend(k) \/ ProvisionUnclaimed(k) \/ ProvisionPush(k)

MaintStep ==
  MaintTick \/ MaintShutdown \/ MaintEvict \/ MaintLoadTotal \/ MaintLoadInUse \/ MaintPush

DrainStep(d) == DrainIdle(d) \/ DrainWaiters(d) \/ DrainCheck(d) \/ DrainPermit(d)

WarmStep(w) == WarmConnect(w) \/ WarmPush(w) \/ WarmCount(w)

Next ==
  \/ \E t \in Creators : CreateStep(t)
  \/ \E c \in Clients : GetBegin(c) \/ GetStep(c) \/ DropGuard(c)
  \/ \E c \in Impatient : Cancel(c)
  \/ \E c \in Takers : Take(c)
  \/ \E k \in Conns : ReturnStep(k) \/ Break(k) \/ Expire(k)
  \/ MaintStep
  \/ \E d \in Drainers : DrainBegin(d) \/ DrainStep(d)
  \/ \E w \in Warmers : WarmBegin(w) \/ WarmStep(w)

Spec == Init /\ [][Next]_vars

\* The runtime polls every runnable task, a connect attempt ends, the
\* checkout timeout elapses, and callers give their guards back.
Fairness ==
  /\ \A c \in Clients : WF_vars(CreateStep(c) \/ GetStep(c)) /\ WF_vars(DropGuard(c))
  /\ \A k \in Conns : WF_vars(CreateStep(k) \/ ReturnStep(k))
  /\ \A d \in Drainers : WF_vars(DrainStep(d))
  /\ WF_vars(CreateStep(Maint) \/ MaintStep)

FairSpec == Spec /\ Fairness
=============================================================================
