----------------------------- MODULE UpdatePipeline ------------------------------
(* The way of a Telegram update through app/main.py in webhook mode: the webhook   *)
(* (duplicate cache, persistent idempotency row, bounded queue, HTTP answer), the  *)
(* background worker and its dead letter queue, and the restarts of the process.   *)
(*                                                                                 *)
(* One process, one event loop: from the body of the request to its answer the     *)
(* webhook never yields unless the queue is full, so it is one step; a request     *)
(* that finds the queue full waits inside update_queue.put() and finishes later.   *)
(* Telegram repeats an update until it sees an answer; rows live longer            *)
(* (IDMP_TTL_SEC, 48 hours) than Telegram goes on repeating, so none expires here. *)
EXTENDS SeenCache

CONSTANTS
    Updates,        \* the updates Telegram has to deliver
    NoUpdate,       \* the worker is not processing anything
    QueueCap,       \* asyncio.Queue(maxsize=1000)
    MaxDeliveries,  \* bound: how often Telegram delivers one update
    MaxRestarts,    \* bound: how often the process dies
    DbFaults        \* may a statement on the idempotency table or the DLQ fail

ASSUME PipelineAssumption ==
    /\ NoUpdate \notin Updates
    /\ QueueCap \in Nat \ {0}
    /\ MaxDeliveries \in Nat
    /\ MaxRestarts \in Nat
    /\ DbFaults \in BOOLEAN

VARIABLES
    cache,          \* _seen_updates and _seen_queue
    row,            \* the status of the idempotency row of each update
    waiting,        \* the requests inside update_queue.put(), <<update, delivery>>
    queue,          \* update_queue
    worker,         \* the worker task: it serves, or has left its loop
    current,        \* the update it is processing
    deliveries,     \* how often Telegram has delivered each update
    answered,       \* the updates Telegram has seen an HTTP 200 for
    started,        \* history: how often process_update was called for each update
    processed,      \* history: the updates process_update returned for
    dlq,            \* the dlq table: the attempts column of each update's row, 0 if none
    lost,           \* history: the updates dropped with a process that died or by a failed DLQ insertion
    blind,          \* history: the updates begin() acquired without holding their row
    restarts        \* history: how often the process has died

vars == <<cache, row, waiting, queue, worker, current, deliveries, answered,
          started, processed, dlq, lost, blind, restarts>>

MaxAttempts == 3  \* max_attempts

Requests == Updates \X (1..MaxDeliveries)
Waiting(u) == \E n \in 1..MaxDeliveries : <<u, n>> \in waiting
Queued(u) == \E i \in 1..Len(queue) : queue[i] = u

TypeOK ==
    /\ cache.ids \subseteq Updates
    /\ cache.order \in Seq(Updates)
    /\ row \in [Updates -> {"none", "processing", "done"}]
    /\ waiting \subseteq Requests
    /\ queue \in Seq(Updates) /\ Len(queue) <= QueueCap
    /\ worker \in {"serving", "stopped"}
    /\ current \in Updates \cup {NoUpdate}
    /\ deliveries \in [Updates -> 0..MaxDeliveries]
    /\ answered \subseteq Updates
    /\ started \in [Updates -> Nat]
    /\ processed \subseteq Updates
    /\ dlq \in [Updates -> {0, MaxAttempts}]
    /\ lost \subseteq Updates
    /\ blind \subseteq Updates
    /\ restarts \in 0..MaxRestarts

Init ==
    /\ cache = EmptyCache
    /\ row = [u \in Updates |-> "none"]
    /\ waiting = {}
    /\ queue = << >>
    /\ worker = "serving"
    /\ current = NoUpdate
    /\ deliveries = [u \in Updates |-> 0]
    /\ answered = {}
    /\ started = [u \in Updates |-> 0]
    /\ processed = {}
    /\ dlq = [u \in Updates |-> 0]
    /\ lost = {}
    /\ blind = {}
    /\ restarts = 0

---------------------------------------------------------------------------------
(* The webhook                                                                     *)

\* HTTP 200; the response may be lost on its way, so that Telegram repeats the update.
Answer(u) == answered' = answered \/ answered' = answered \cup {u}

\* Mutant: the row is committed before the handler runs.
AcquiresCommitted(u) ==
    /\ row[u] = "none"
    /\ row' = [row EXCEPT ![u] = "done"]
    /\ UNCHANGED blind

\* with_idempotency: begin() hands out a row that is not there; when its statements
\* fail it hands out the update all the same (IdempotencyStore, Insert and Read).
Acquires(u) ==
    \/ /\ row[u] = "none"
       /\ row' = [row EXCEPT ![u] = "processing"]
       /\ UNCHANGED blind
    \/ /\ DbFaults
       /\ UNCHANGED row
       /\ blind' = blind \cup {u}

\* commit() after the handler returned: it settles a 'processing' row, or fails and is
\* swallowed.
Commits(u) ==
    \/ row' = [row EXCEPT ![u] = IF @ = "processing" THEN "done" ELSE @]
    \/ DbFaults /\ UNCHANGED row

\* Mutant: an existing row does not short-circuit.
AcquiresAnyway(u) ==
    /\ row' = [row EXCEPT ![u] = "done"]
    /\ UNCHANGED blind

\* begin() and commit() with a put() between them that does not wait.
AcquiresAndCommits(u) ==
    \/ /\ row[u] = "none"
       /\ \/ row' = [row EXCEPT ![u] = "done"]
          \/ DbFaults /\ row' = [row EXCEPT ![u] = "processing"]
       /\ UNCHANGED blind
    \/ /\ DbFaults
       /\ Commits(u)
       /\ blind' = blind \cup {u}

\* not update_queue.full()
HasPlace == Len(queue) < QueueCap

Deliver(u) ==
    /\ u \notin answered
    /\ deliveries[u] < MaxDeliveries
    /\ deliveries' = [deliveries EXCEPT ![u] = @ + 1]
    /\ UNCHANGED <<worker, current, started, processed, dlq, lost, restarts>>

\* is_duplicate_update: answered without looking at the table.
WebhookSeen(u) ==
    /\ Deliver(u)
    /\ u \in cache.ids
    /\ Answer(u)
    /\ UNCHANGED <<cache, row, waiting, queue, blind>>

\* The row exists, done or processing: with_idempotency returns, the webhook answers.
WebhookRefused(u) ==
    /\ Deliver(u)
    /\ u \notin cache.ids
    /\ row[u] # "none"
    /\ cache' = Remember(cache, u)
    /\ Answer(u)
    /\ UNCHANGED <<row, waiting, queue, blind>>

\* The update goes on the queue before the answer goes out.
WebhookAccepts(u) ==
    /\ Deliver(u)
    /\ u \notin cache.ids
    /\ HasPlace
    /\ AcquiresAndCommits(u)
    /\ cache' = Remember(cache, u)
    /\ queue' = Append(queue, u)
    /\ Answer(u)
    /\ UNCHANGED waiting

\* Mutant: put_nowait(), and QueueFull is swallowed.
WebhookDrops(u) ==
    /\ Deliver(u)
    /\ u \notin cache.ids
    /\ ~HasPlace
    /\ Acquires(u)
    /\ cache' = Remember(cache, u)
    /\ Answer(u)
    /\ UNCHANGED <<queue, waiting>>

\* The queue is full: the request waits in put(), its row stays 'processing'.
WebhookWaits(u) ==
    /\ Deliver(u)
    /\ u \notin cache.ids
    /\ ~HasPlace
    /\ Acquires(u)
    /\ cache' = Remember(cache, u)
    /\ waiting' = waiting \cup {<<u, deliveries'[u]>>}
    /\ UNCHANGED <<queue, answered>>

\* A place is free.  asyncio wakes the waiting requests in their order, but one that
\* loses the place to a new request goes to the end: any of them may be next.
PutResumes(r) ==
    /\ r \in waiting
    /\ HasPlace
    /\ waiting' = waiting \ {r}
    /\ queue' = Append(queue, r[1])
    /\ Commits(r[1])
    /\ Answer(r[1])
    /\ UNCHANGED <<cache, worker, current, deliveries, started, processed, dlq, lost, blind,
                   restarts>>

---------------------------------------------------------------------------------
(* The worker                                                                      *)

\* Mutant: the worker waits until there are two.
AvailableTwo == Len(queue) > 1

\* not update_queue.empty()
Available == queue # << >>

\* update_queue.get(), then the one call of process_update that follows the counting
\* loop: attempt_count is max_attempts before the first attempt.
WorkerGets ==
    /\ worker = "serving"
    /\ current = NoUpdate
    /\ Available
    /\ current' = Head(queue)
    /\ queue' = Tail(queue)
    /\ started' = [started EXCEPT ![Head(queue)] = @ + 1]
    /\ UNCHANGED <<cache, row, waiting, worker, deliveries, answered, processed, dlq, lost,
                   blind, restarts>>

\* process_update returns: `break` leaves the only loop around it, the worker's own.
WorkerSucceeds ==
    /\ current # NoUpdate
    /\ current' = NoUpdate
    /\ worker' = "stopped"
    /\ processed' = processed \cup {current}
    /\ UNCHANGED <<cache, row, waiting, queue, deliveries, answered, started, dlq, lost,
                   blind, restarts>>

\* Mutant: the worker forgets a failed update.
BuryNothing(u) == UNCHANGED <<dlq, lost>>

\* add_failed_update_to_dlq with attempts=3; an error there is logged and swallowed.
Bury(u) ==
    \/ /\ dlq' = [dlq EXCEPT ![u] = MaxAttempts]
       /\ UNCHANGED lost
    \/ /\ DbFaults
       /\ lost' = lost \cup {u}
       /\ UNCHANGED dlq

\* An exception, or the timeout of WEBHOOK_HANDLE_TIMEOUT_S.
WorkerFails ==
    /\ current # NoUpdate
    /\ current' = NoUpdate
    /\ Bury(current)
    /\ UNCHANGED <<cache, row, waiting, queue, worker, deliveries, answered, started, processed,
                   blind, restarts>>

\* The process dies and starts again: what was in memory is gone.
Restart ==
    /\ restarts < MaxRestarts
    /\ restarts' = restarts + 1
    /\ cache' = EmptyCache
    /\ waiting' = {}
    /\ queue' = << >>
    /\ worker' = "serving"
    /\ current' = NoUpdate
    /\ lost' = lost \cup {u \in Updates : u = current \/ Waiting(u) \/ Queued(u)}
    /\ UNCHANGED <<row, deliveries, answered, started, processed, dlq, blind>>

Next ==
    \/ \E u \in Updates :
        WebhookSeen(u) \/ WebhookRefused(u) \/ WebhookAccepts(u) \/ WebhookWaits(u)
    \/ \E r \in Requests : PutResumes(r)
    \/ WorkerGets \/ WorkerSucceeds \/ WorkerFails
    \/ Restart

Spec == Init /\ [][Next]_vars

\* The event loop runs every task that can run; a call of process_update ends, if only
\* by its timeout.
Fairness ==
    /\ WF_vars(WorkerGets)
    /\ WF_vars(WorkerSucceeds \/ WorkerFails)
    /\ \A r \in Requests : WF_vars(PutResumes(r))

FairSpec == Spec /\ Fairness

---------------------------------------------------------------------------------
(* Properties                                                                      *)

\* Idempotency by update_id: whatever Telegram repeats, whatever the cache forgets and
\* whenever the process dies, process_update is called at most once for an update,
\* unless begin() failed open on it.
AtMostOnce == \A u \in Updates \ blind : started[u] <= 1

\* The webhook answers 200 from its cache or on a refused row too: whichever of them
\* said "duplicate", the update did get to the queue or is about to, was handled or
\* stored, or went down with a process or a DLQ insertion.
AnsweredIsAccounted ==
    \A u \in answered :
        \/ Waiting(u) \/ Queued(u) \/ u = current
        \/ u \in processed \cup lost \/ dlq[u] # 0

\* The commit of a row comes after the put: 'done' stands for an update that has been
\* on the queue, and one that still waits for its place is 'processing'.
DoneMeansQueued ==
    \A u \in Updates \ blind :
        /\ Waiting(u) => row[u] = "processing"
        /\ row[u] = "done" =>
               Queued(u) \/ u = current \/ started[u] > 0 \/ u \in lost

\* The pipeline implements UpdateDelivery.
Stage(u) ==
    IF u \in blind THEN "unchecked"
    ELSE IF u \in processed THEN "processed"
    ELSE IF dlq[u] # 0 THEN "dead"
    ELSE IF u = current THEN "processing"
    ELSE IF Waiting(u) \/ Queued(u) THEN "accepted"
    ELSE IF u \in lost THEN "lost" ELSE "new"

StageMap == [u \in Updates |-> Stage(u)]

Delivery == INSTANCE UpdateDelivery WITH stage <- StageMap

DeliverySpec == Delivery!Spec

\* A worker that has met no success keeps serving: every queued update leaves the queue,
\* unless the process dies, or an update before it succeeds and ends the worker.
QueueMovesWhileFailing ==
    \A u \in Updates : Queued(u) ~> (~Queued(u) \/ worker = "stopped")

\* "Success - break out of retry loop": the worker goes on to the next update, so that
\* every queued update is handed to process_update.
QueuedIsStarted == \A u \in Updates : Queued(u) ~> ~Queued(u)
=================================================================================
