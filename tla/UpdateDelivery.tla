----------------------------- MODULE UpdateDelivery ------------------------------
(* What the update pipeline promises, without queues, rows or restarts: an update  *)
(* is accepted at most once, processed at most once, and ends processed, in the    *)
(* dead letter queue, or lost; none of these is ever undone.  The promise ends for *)
(* an update that the idempotency table let through without checking it.           *)

CONSTANT Updates

VARIABLE stage

Stages == {"new", "accepted", "processing", "processed", "dead", "lost", "unchecked"}

TypeOK == stage \in [Updates -> Stages]

Init == stage = [u \in Updates |-> "new"]

Move(u, from, to) ==
    /\ stage[u] = from
    /\ stage' = [stage EXCEPT ![u] = to]

Accept(u) == Move(u, "new", "accepted")
Start(u)  == Move(u, "accepted", "processing")
Finish(u) == Move(u, "processing", "processed")
Bury(u)   == Move(u, "processing", "dead")

\* The process dies, or an update that failed cannot be stored.
Lose(S) ==
    /\ \A u \in S : stage[u] \in {"accepted", "processing"}
    /\ stage' = [u \in Updates |-> IF u \in S THEN "lost" ELSE stage[u]]

\* The table could not be read when u came.
Waive(u) == stage' = [stage EXCEPT ![u] = "unchecked"]

Next ==
    \/ \E u \in Updates : Accept(u) \/ Start(u) \/ Finish(u) \/ Bury(u) \/ Waive(u)
    \/ \E S \in SUBSET Updates : Lose(S)

Spec == Init /\ [][Next]_stage
=================================================================================
