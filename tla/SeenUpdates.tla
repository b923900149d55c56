------------------------------ MODULE SeenUpdates -------------------------------
(* is_duplicate_update on its own: new updates come with increasing ids, any       *)
(* earlier update may come again at any time.                                      *)
EXTENDS SeenCache

CONSTANT MaxAdds  \* bound: how many times an id is added to the cache

ASSUME AddsAssumption == MaxAdds \in Nat

VARIABLES
    seen,         \* _seen_updates and _seen_queue
    newest,       \* the largest update_id received so far
    added         \* history: the ids in the order they were added

seenVars == <<seen, newest, added>>

Ids == 1..newest

SeenTypeOK ==
    /\ newest \in 0..MaxAdds
    /\ seen.ids \subseteq Ids
    /\ seen.order \in Seq(Ids)
    /\ added \in Seq(Ids)

SeenInit ==
    /\ seen = EmptyCache
    /\ newest = 0
    /\ added = << >>

Add(u) ==
    /\ Len(added) < MaxAdds
    /\ seen' = Remember(seen, u)
    /\ added' = Append(added, u)

Receive == Add(newest + 1) /\ newest' = newest + 1

\* A redelivery is a duplicate if the cache still has it, else it is taken as new.
Redeliver(u) ==
    \/ u \in seen.ids /\ UNCHANGED seenVars
    \/ u \notin seen.ids /\ Add(u) /\ UNCHANGED newest

SeenNext == Receive \/ \E u \in Ids : Redeliver(u)

SeenSpec == SeenInit /\ [][SeenNext]_seenVars

---------------------------------------------------------------------------------
(* Properties                                                                      *)

\* The ids the deque dropped on its own: nothing will ever remove them from the set.
Stranded == seen.ids \ Forget(seen.order, Len(seen.order))

\* The size of the window the cache really remembers: 3999 with the code's numbers.
Window == DequeMax + Keep - Limit - 1

\* However long the process runs, the last 3999 ids added are recognised, although
\* the deque is shorter than the set and entries get stranded (is_duplicate_update).
RecentRemembered ==
    \A i \in DOMAIN added : i > Len(added) - Window => added[i] \in seen.ids

\* The set stays within its limit and the stranded ids stay below the 1001 that fit
\* between the deque and the limit, so that the leak of the deque is bounded.
CacheBounded ==
    /\ Cardinality(seen.ids) <= Limit
    /\ Cardinality(Stranded) <= Limit + 1 - DequeMax
=================================================================================
