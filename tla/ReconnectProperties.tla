------------------------- MODULE ReconnectProperties -------------------------
(***************************************************************************)
(* What the users of connections that are replaced rely on.                *)
(***************************************************************************)
EXTENDS Reconnect

\* Only a connection that is dead is replaced, and by one that nobody has: of the tasks
\* that notice a loss one reconnects, and the others take what it has put there
\* (reconnect.rs:106-123); the monitor replaces the slot it has looked at and no other
\* (async_pool.rs:153-170, 251-262).
OnlyDeadReplaced ==
  [][\A i \in Slots : slot'[i] # slot[i] =>
       ~alive[slot[i]] /\ slot'[i] \notin Opened /\ \A j \in Slots \ {i} : slot'[j] = slot[j]]_vars

\* query and execute send their statement again when the connection is lost under it
\* (reconnect.rs:126-137, retry.rs:83-105), so a statement may be executed more than once;
\* but never more often than one and the losses it has met, and through a pool once.  The
\* statement of atomic leaves the connection of its transaction only after a loss
\* (executor.rs:436-459).
AgainOnlyAfterLoss ==
  \A t \in Tasks :
    /\ call[t].ran <= IF call[t].kind = "pooled" THEN 1 ELSE 1 + call[t].met
    /\ call[t].kind = "atomic" /\ pc[t] = "queried" /\ call[t].conn # call[t].guard => call[t].met > 0

\* A slot of the pool whose connection is dead gets another one, though the server refuses
\* for a while (async_pool.rs:237-265).
SlotsHeal ==
  \A i \in 1..Size : over = "pool" /\ ~alive[slot[i]] ~> over = "pool" /\ (alive[slot[i]] \/ Fresh > ConnBound)
=============================================================================
