---------------------------- MODULE PoolContract ----------------------------
(***************************************************************************)
(* What a connection pool owes its callers, without queues, counters or    *)
(* tasks: at most MaxSize connections exist, and every guard handed out    *)
(* stands for a connection of its own.                                     *)
(***************************************************************************)
EXTENDS Naturals, FiniteSets

CONSTANTS Clients, MaxSize, MinIdle

VARIABLES
  size,      \* connections that exist or are being opened
  granted    \* clients holding a guard

vars == <<size, granted>>

Init == size \in 0..MinIdle /\ granted = {}

Open == size < MaxSize /\ size' = size + 1 /\ UNCHANGED granted

\* Connections nobody holds are closed: expired, broken, drained or lost.
Close ==
  /\ \E n \in 1..(size - Cardinality(granted)) : size' = size - n
  /\ UNCHANGED granted

Grant(c) ==
  /\ c \notin granted /\ Cardinality(granted) < size
  /\ granted' = granted \cup {c}
  /\ UNCHANGED size

Return(c) == c \in granted /\ granted' = granted \ {c} /\ UNCHANGED size

\* The caller keeps the connection for itself.
TakeAway(c) == c \in granted /\ granted' = granted \ {c} /\ size' = size - 1

Next == Open \/ Close \/ \E c \in Clients : Grant(c) \/ Return(c) \/ TakeAway(c)

Spec == Init /\ [][Next]_vars
=============================================================================
