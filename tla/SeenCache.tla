------------------------------- MODULE SeenCache --------------------------------
(* The in-memory cache of update ids behind is_duplicate_update (app/main.py): a   *)
(* set of ids and a bounded deque that remembers the order they came in.           *)
EXTENDS Integers, Sequences, FiniteSets

CONSTANTS
    DequeMax,     \* _seen_queue = deque(maxlen=5000)
    Limit,        \* the set is trimmed when it holds more than 6000 ids
    Keep          \* down to 5000 ids

ASSUME CacheAssumption ==
    /\ {DequeMax, Limit, Keep} \subseteq Nat \ {0}
    /\ DequeMax <= Keep
    /\ Keep < Limit

EmptyCache == [ids |-> {}, order |-> << >>]

Forget(s, n) == {s[i] : i \in 1..n}

\* deque.append: a full deque silently drops its oldest entry.
Pushed(s, u) == Append(IF Len(s) = DequeMax THEN Tail(s) ELSE s, u)

\* Mutant: pop() instead of popleft().
TrimmedNewest(ids, s) ==
    LET excess == Cardinality(ids) - Keep
        n == IF excess < Len(s) THEN excess ELSE Len(s)
    IN [ids |-> ids \ {s[i] : i \in (Len(s) - n + 1)..Len(s)}, order |-> SubSeq(s, 1, Len(s) - n)]

\* while len(set) > Keep and deque: set.discard(deque.popleft())
Trimmed(ids, s) ==
    LET excess == Cardinality(ids) - Keep
        n == IF excess < Len(s) THEN excess ELSE Len(s)
    IN [ids |-> ids \ Forget(s, n), order |-> SubSeq(s, n + 1, Len(s))]

\* Mutant: the set may grow one beyond the limit.
RememberLate(cache, u) ==
    LET ids == cache.ids \cup {u}
        s   == Pushed(cache.order, u)
    IN IF Cardinality(ids) > Limit + 1 THEN Trimmed(ids, s) ELSE [ids |-> ids, order |-> s]

\* What is_duplicate_update does with an id it has not in its set.
Remember(cache, u) ==
    LET ids == cache.ids \cup {u}
        s   == Pushed(cache.order, u)
    IN IF Cardinality(ids) > Limit THEN Trimmed(ids, s) ELSE [ids |-> ids, order |-> s]
=================================================================================
