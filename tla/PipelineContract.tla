-------------------------- MODULE PipelineContract --------------------------
(***************************************************************************)
(* What a pipelined connection owes its callers, without tasks, queues or  *)
(* a socket: the requests it accepts are answered in the order in which it *)
(* accepted them, and once one of them is lost every later one is lost.    *)
(***************************************************************************)
EXTENDS Naturals, Sequences

CONSTANT Reqs

VARIABLES
  accepted,      \* requests in the order of acceptance
  outcome        \* "none", "answered" or "lost"

vars == <<accepted, outcome>>

Init == accepted = <<>> /\ outcome = [r \in Reqs |-> "none"]

Accept(r) ==
  /\ \A i \in DOMAIN accepted : accepted[i] # r
  /\ accepted' = Append(accepted, r)
  /\ UNCHANGED outcome

Answer(i) ==
  /\ outcome[accepted[i]] = "none"
  /\ \A j \in 1..(i - 1) : outcome[accepted[j]] = "answered"
  /\ outcome' = [outcome EXCEPT ![accepted[i]] = "answered"]
  /\ UNCHANGED accepted

\* The connection fails for some of the requests it has not answered.
Lose ==
  /\ \E S \in SUBSET {r \in Reqs : outcome[r] = "none"} :
       /\ \A r \in S : \E i \in DOMAIN accepted : accepted[i] = r
       /\ outcome' = [r \in Reqs |-> IF r \in S THEN "lost" ELSE outcome[r]]
  /\ UNCHANGED accepted

Next == (\E r \in Reqs : Accept(r)) \/ (\E i \in DOMAIN accepted : Answer(i)) \/ Lose

Spec == Init /\ [][Next]_vars
=============================================================================
