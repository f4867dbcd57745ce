----------------------------- MODULE MCAsyncConn -----------------------------
(* Small instances of the multiplexed connection for TLC. *)
EXTENDS AsyncConnProperties, TLC

CONSTANTS
  r1, r2, r3, s1, i1, o1, b1, t1,
  submit1, batch1, stream1, copyin1, copyout1, rollback1, close1

\* A query, two queries in one batch, a stream, a COPY in each direction, a ROLLBACK
\* nobody waits for, and a close; an instance takes some of them.
AllItems ==
  submit1 :> <<r1>> @@ batch1 :> <<r2, r3>> @@ stream1 :> <<s1>> @@ copyin1 :> <<i1>> @@
  copyout1 :> <<o1>> @@ rollback1 :> <<b1>> @@ close1 :> <<t1>>
MCItems == [c \in Calls |-> AllItems[c]]

MCReqs == UNION {Members(AllItems[c]) : c \in Calls}
AllCollectors ==
  [r \in {r1, r2, r3} |-> "Rows"] @@ [r \in {b1, t1} |-> "Drain"] @@
  s1 :> "Stream" @@ i1 :> "CopyIn" @@ o1 :> "CopyOut"
MCCollector == [r \in MCReqs |-> AllCollectors[r]]

AllReplies ==
     r1 :> {<<1, "error", "ready_in_transaction">>}
  @@ r2 :> {<<1, "error", "ready_in_transaction">>}
  @@ r3 :> {<<0, "done", "ready_in_transaction">>}
  @@ s1 :> {<<2, "done", "ready_in_transaction">>, <<1, "error", "ready_idle">>}
  @@ i1 :> {<<0, "done", "ready_in_transaction">>}
  @@ o1 :> {<<1, "done", "ready_in_transaction">>}
  @@ b1 :> {<<0, "done", "ready_idle">>}
  @@ t1 :> {}
MCReplies == [r \in MCReqs |-> AllReplies[r]]
=============================================================================
