-------------------------- MODULE UpdatePipelineProofs ---------------------------
(* Proofs about UpdatePipeline for any set of updates, any sizes of the cache and  *)
(* the queue, any number of deliveries and restarts, with or without database      *)
(* errors.                                                                         *)
(*                                                                                 *)
(* And, in the last part, about the cache on its own.                              *)
EXTENDS UpdatePipeline, SeenUpdates, FiniteSetTheorems, SequenceTheorems, TLAPS

InFlight(u) == Waiting(u) \/ Queued(u)
Settled(u)  == u \in processed \cup lost \/ dlq[u] # 0

UniqueRequest(u) == \A m, n \in 1..MaxDeliveries :
    <<u, m>> \in waiting /\ <<u, n>> \in waiting => m = n

UniquePlace(u) == \A i, j \in 1..Len(queue) : queue[i] = u /\ queue[j] = u => i = j

\* An update is in one place at a time, and goes forward only.
OnePlace(u) ==
    /\ UniqueRequest(u) /\ UniquePlace(u)
    /\ ~(Waiting(u) /\ Queued(u))
    /\ row[u] = "none" => ~InFlight(u) /\ started[u] = 0 /\ u # current /\ ~Settled(u)
    /\ InFlight(u) => started[u] = 0 /\ u # current /\ ~Settled(u)
    /\ u = current => started[u] = 1 /\ ~Settled(u)
    /\ started[u] <= 1

\* The inductive invariant behind AtMostOnce and the refinement.
OnceInv == \A u \in Updates \ blind : OnePlace(u)

Accounted(u) == InFlight(u) \/ u = current \/ Settled(u)

\* The inductive invariant behind AnsweredIsAccounted: whatever makes the webhook
\* answer "duplicate", the cache or the row, is there because the update was taken.
AccountInv == \A u \in Updates :
    u \in cache.ids \cup answered \/ row[u] # "none" => Accounted(u)

---------------------------------------------------------------------------------
(* Type correctness                                                                *)

(* is_duplicate_update keeps its set finite and within the ids it was given, and    *)
(* remembers none but the new id and those it had.                                 *)
LEMMA RememberKeeps ==
    ASSUME NEW c, c.ids \subseteq Updates, IsFiniteSet(c.ids), c.order \in Seq(Updates),
           NEW u \in Updates
    PROVE  /\ Remember(c, u).ids \subseteq c.ids \cup {u}
           /\ IsFiniteSet(Remember(c, u).ids)
           /\ Remember(c, u).order \in Seq(Updates)
<1> DEFINE ids == c.ids \cup {u}
           s == Pushed(c.order, u)
<1> USE CacheAssumption
<1>1. IsFiniteSet(ids)
  BY FS_AddElement
<1>2. s \in Seq(Updates)
  BY DEF Pushed
<1>3. Trimmed(ids, s).ids \subseteq ids /\ IsFiniteSet(Trimmed(ids, s).ids)
  <2>1. Trimmed(ids, s).ids \subseteq ids
    BY DEF Trimmed
  <2> QED BY <1>1, <2>1, FS_Subset
<1>4. ASSUME Cardinality(ids) > Limit PROVE Trimmed(ids, s).order \in Seq(Updates)
  <2> DEFINE excess == Cardinality(ids) - Keep
             n == IF excess < Len(s) THEN excess ELSE Len(s)
  <2>1. Cardinality(ids) \in Nat
    BY <1>1, FS_CardinalityType
  <2>2. n \in Nat /\ n <= Len(s) /\ Len(s) \in Nat
    BY <1>2, <1>4, <2>1
  <2> HIDE DEF s, n
  <2>3. SubSeq(s, n + 1, Len(s)) \in Seq(Updates)
    BY <1>2, <2>2, SubSeqProperties
  <2> QED BY <2>3 DEF Trimmed, n
<1> QED BY <1>1, <1>2, <1>3, <1>4 DEF Remember

TypeInv == TypeOK /\ IsFiniteSet(cache.ids)

LEMMA InitType == Init => TypeInv
<1> SUFFICES ASSUME Init PROVE TypeInv
  OBVIOUS
<1>1. IsFiniteSet(cache.ids)
  BY FS_EmptySet DEF Init, EmptyCache
<1> QED BY <1>1, PipelineAssumption DEF Init, EmptyCache, TypeInv, TypeOK, MaxAttempts

(* The cache of the webhook, whichever way it answers.                             *)
LEMMA CacheType ==
    ASSUME TypeInv, NEW u \in Updates, cache' = cache \/ cache' = Remember(cache, u)
    PROVE  /\ cache'.ids \subseteq cache.ids \cup {u}
           /\ IsFiniteSet(cache'.ids)
           /\ cache'.ids \subseteq Updates
           /\ cache'.order \in Seq(Updates)
<1> USE DEF TypeInv, TypeOK
<1>1. CASE cache' = cache
  BY <1>1
<1>2. CASE cache' = Remember(cache, u)
  BY <1>2, RememberKeeps
<1> QED BY <1>1, <1>2

LEMMA TypeStep == TypeInv /\ [Next]_vars => TypeInv'
<1> SUFFICES ASSUME TypeInv, [Next]_vars PROVE TypeInv'
  OBVIOUS
<1> USE PipelineAssumption DEF TypeInv, TypeOK
<1>1. ASSUME NEW u \in Updates, WebhookSeen(u) PROVE TypeInv'
  BY <1>1 DEF WebhookSeen, Deliver, Answer
<1>2. ASSUME NEW u \in Updates, WebhookRefused(u) PROVE TypeInv'
  BY <1>2, CacheType DEF WebhookRefused, Deliver, Answer
<1>3. ASSUME NEW u \in Updates, WebhookAccepts(u) PROVE TypeInv'
  <2>1. row' \in [Updates -> {"none", "processing", "done"}] /\ blind' \subseteq Updates
    BY <1>3 DEF WebhookAccepts, AcquiresAndCommits, Commits
  <2>2. queue' \in Seq(Updates) /\ Len(queue') <= QueueCap
    BY <1>3 DEF WebhookAccepts, HasPlace
  <2>3. /\ deliveries' \in [Updates -> 0..MaxDeliveries] /\ answered' \subseteq Updates
        /\ UNCHANGED <<waiting, worker, current, started, processed, dlq, lost, restarts>>
    BY <1>3 DEF WebhookAccepts, Deliver, Answer
  <2>4. /\ IsFiniteSet(cache'.ids) /\ cache'.ids \subseteq Updates
        /\ cache'.order \in Seq(Updates)
    BY <1>3, CacheType DEF WebhookAccepts
  <2> QED BY <2>1, <2>2, <2>3, <2>4
<1>4. ASSUME NEW u \in Updates, WebhookWaits(u) PROVE TypeInv'
  <2>1. row' \in [Updates -> {"none", "processing", "done"}] /\ blind' \subseteq Updates
    BY <1>4 DEF WebhookWaits, Acquires
  <2>2. /\ deliveries' \in [Updates -> 0..MaxDeliveries]
        /\ <<u, deliveries'[u]>> \in Requests
    BY <1>4 DEF WebhookWaits, Deliver, Requests
  <2>3. /\ waiting' \subseteq Requests
        /\ UNCHANGED <<queue, answered, worker, current, started, processed, dlq, lost, restarts>>
    BY <1>4, <2>2 DEF WebhookWaits, Deliver
  <2>4. /\ IsFiniteSet(cache'.ids) /\ cache'.ids \subseteq Updates
        /\ cache'.order \in Seq(Updates)
    BY <1>4, CacheType DEF WebhookWaits
  <2> QED BY <2>1, <2>2, <2>3, <2>4
<1>5. ASSUME NEW r \in Requests, PutResumes(r) PROVE TypeInv'
  <2>1. r[1] \in Updates
    BY DEF Requests
  <2>2. row' \in [Updates -> {"none", "processing", "done"}]
    BY <1>5, <2>1 DEF PutResumes, Commits
  <2>3. queue' \in Seq(Updates) /\ Len(queue') <= QueueCap
    BY <1>5, <2>1 DEF PutResumes, HasPlace
  <2> QED BY <1>5, <2>1, <2>2, <2>3 DEF PutResumes, Answer
<1>6. ASSUME WorkerGets PROVE TypeInv'
  <2>1. /\ Head(queue) \in Updates /\ Tail(queue) \in Seq(Updates)
        /\ Len(Tail(queue)) = Len(queue) - 1
    BY <1>6 DEF WorkerGets, Available
  <2>2. started' \in [Updates -> Nat]
    BY <1>6, <2>1 DEF WorkerGets
  <2> QED BY <1>6, <2>1, <2>2 DEF WorkerGets
<1>7. ASSUME WorkerSucceeds PROVE TypeInv'
  BY <1>7 DEF WorkerSucceeds
<1>8. ASSUME WorkerFails PROVE TypeInv'
  BY <1>8 DEF WorkerFails, Bury
<1>9. ASSUME Restart PROVE TypeInv'
  BY <1>9, FS_EmptySet DEF Restart, EmptyCache
<1>10. ASSUME UNCHANGED vars PROVE TypeInv'
  BY <1>10 DEF vars
<1> QED BY <1>1, <1>2, <1>3, <1>4, <1>5, <1>6, <1>7, <1>8, <1>9, <1>10 DEF Next

(* The type invariant of the pipeline.                                             *)
THEOREM TypeCorrect == Spec => []TypeOK
<1>1. TypeInv => TypeOK
  BY DEF TypeInv
<1> QED BY <1>1, InitType, TypeStep, PTL DEF Spec

---------------------------------------------------------------------------------
(* AtMostOnce and DoneMeansQueued                                                  *)

(* Putting u on the queue does not matter to the places of the others.             *)
LEMMA Enqueue ==
    ASSUME TypeOK, NEW u \in Updates, queue' = Append(queue, u)
    PROVE  /\ Queued(u)'
           /\ ~Queued(u) => UniquePlace(u)'
           /\ \A v \in Updates \ {u} :
                /\ Queued(v)' <=> Queued(v)
                /\ UniquePlace(v) => UniquePlace(v)'
<1>1. /\ Len(queue) \in Nat /\ Len(queue') = Len(queue) + 1
      /\ \A i \in 1..Len(queue) : queue'[i] = queue[i]
      /\ queue'[Len(queue) + 1] = u
  BY DEF TypeOK
<1>2. \A v \in Updates \ {u}, i \in 1..Len(queue') :
        queue'[i] = v => i \in 1..Len(queue) /\ queue[i] = v
  BY <1>1
<1>3. Queued(u)'
  BY <1>1 DEF Queued
<1>4. ASSUME ~Queued(u) PROVE UniquePlace(u)'
  BY <1>1, <1>4 DEF Queued, UniquePlace
<1>5. ASSUME NEW v \in Updates \ {u} PROVE Queued(v)' <=> Queued(v)
  BY <1>1, <1>2 DEF Queued
<1>6. ASSUME NEW v \in Updates \ {u}, UniquePlace(v) PROVE UniquePlace(v)'
  BY <1>2, <1>6 DEF UniquePlace
<1> QED BY <1>3, <1>4, <1>5, <1>6

(* Nor does taking its head; an update with one place leaves the queue with it.    *)
LEMMA Dequeue ==
    ASSUME TypeOK, queue # << >>, queue' = Tail(queue)
    PROVE  /\ Head(queue) \in Updates /\ Queued(Head(queue))
           /\ \A v \in Updates :
                /\ Queued(v)' => Queued(v)
                /\ v # Head(queue) => (Queued(v)' <=> Queued(v))
                /\ v = Head(queue) /\ UniquePlace(v) => ~Queued(v)'
                /\ UniquePlace(v) => UniquePlace(v)'
<1>1. /\ Len(queue) \in Nat \ {0} /\ Head(queue) = queue[1] /\ Head(queue) \in Updates
      /\ Len(queue') = Len(queue) - 1
      /\ \A i \in 1..Len(queue') : queue'[i] = queue[i + 1]
  BY DEF TypeOK
<1>2. Queued(Head(queue))
  BY <1>1 DEF Queued
<1>3. ASSUME NEW v \in Updates, v = Head(queue), UniquePlace(v), Queued(v)' PROVE FALSE
  <2>1. PICK i \in 1..Len(queue') : queue'[i] = v
    BY <1>3 DEF Queued
  <2>2. i + 1 \in 1..Len(queue) /\ 1 \in 1..Len(queue)
    BY <1>1
  <2>3. i + 1 = 1
    BY <1>1, <1>3, <2>1, <2>2 DEF UniquePlace
  <2> QED BY <1>1, <2>1, <2>3
<1>4. ASSUME NEW v \in Updates PROVE Queued(v)' => Queued(v)
  BY <1>1 DEF Queued
<1>5. ASSUME NEW v \in Updates, v # Head(queue), Queued(v) PROVE Queued(v)'
  <2>1. PICK i \in 1..Len(queue) : queue[i] = v
    BY <1>5 DEF Queued
  <2>2. i - 1 \in 1..Len(queue') /\ queue'[i - 1] = v
    BY <1>1, <1>5, <2>1
  <2> QED BY <2>2 DEF Queued
<1>6. ASSUME NEW v \in Updates, UniquePlace(v) PROVE UniquePlace(v)'
  <2> SUFFICES ASSUME NEW i \in 1..Len(queue'), NEW j \in 1..Len(queue'),
                      queue'[i] = v, queue'[j] = v
               PROVE  i = j
    BY DEF UniquePlace
  <2>1. i + 1 \in 1..Len(queue) /\ j + 1 \in 1..Len(queue)
    BY <1>1
  <2>2. i + 1 = j + 1
    BY <1>1, <1>6, <2>1 DEF UniquePlace
  <2> QED BY <2>2
<1> QED BY <1>1, <1>2, <1>3, <1>4, <1>5, <1>6

(* A request that starts or stops waiting only matters to its own update.          *)
LEMMA StartWaiting ==
    ASSUME NEW u \in Updates, NEW n \in 1..MaxDeliveries, waiting' = waiting \cup {<<u, n>>}
    PROVE  /\ Waiting(u)'
           /\ ~Waiting(u) => UniqueRequest(u)'
           /\ \A v \in Updates \ {u} :
                /\ Waiting(v)' <=> Waiting(v)
                /\ UniqueRequest(v) => UniqueRequest(v)'
BY DEF Waiting, UniqueRequest

LEMMA StopWaiting ==
    ASSUME NEW u \in Updates, NEW n \in 1..MaxDeliveries, <<u, n>> \in waiting,
           waiting' = waiting \ {<<u, n>>}
    PROVE  /\ Waiting(u)
           /\ UniqueRequest(u) => ~Waiting(u)' /\ UniqueRequest(u)'
           /\ \A v \in Updates \ {u} :
                /\ Waiting(v)' <=> Waiting(v)
                /\ UniqueRequest(v) => UniqueRequest(v)'
BY DEF Waiting, UniqueRequest

(* A step that changes nothing OnePlace(v) speaks of.                              *)
LEMMA Unmoved ==
    ASSUME NEW v \in Updates, OnePlace(v),
           row'[v] = row[v], started'[v] = started[v],
           v = current' <=> v = current, Settled(v)' <=> Settled(v),
           Waiting(v)' <=> Waiting(v), Queued(v)' <=> Queued(v),
           UniqueRequest(v)', UniquePlace(v)'
    PROVE  OnePlace(v)'
BY DEF OnePlace, InFlight

LEMMA OnceStep == TypeOK /\ OnceInv /\ [Next]_vars => OnceInv'
<1> SUFFICES ASSUME TypeOK, OnceInv, [Next]_vars PROVE OnceInv'
  OBVIOUS
<1> USE PipelineAssumption
<1>0. \A v \in Updates \ blind : OnePlace(v)
  BY DEF OnceInv
<1>1. ASSUME NEW u \in Updates, WebhookSeen(u) \/ WebhookRefused(u) PROVE OnceInv'
  <2>1. UNCHANGED <<row, waiting, queue, blind, current, started, processed, dlq, lost>>
    BY <1>1 DEF WebhookSeen, WebhookRefused, Deliver
  <2> QED BY <1>0, <2>1 DEF OnceInv, OnePlace, InFlight, Settled, Waiting, Queued,
                            UniqueRequest, UniquePlace
<1>2. ASSUME NEW u \in Updates, WebhookAccepts(u) PROVE OnceInv'
  <2>1. /\ queue' = Append(queue, u)
        /\ UNCHANGED <<waiting, current, started, processed, dlq, lost>>
        /\ blind \subseteq blind'
    BY <1>2 DEF WebhookAccepts, Deliver, AcquiresAndCommits
  <2>2. \A v \in Updates \ {u} : row'[v] = row[v]
    BY <1>2 DEF WebhookAccepts, AcquiresAndCommits, Commits, TypeOK
  <2>3. u \notin blind' => row[u] = "none" /\ row'[u] # "none"
    BY <1>2 DEF WebhookAccepts, AcquiresAndCommits, TypeOK
  <2>4. ASSUME u \notin blind' PROVE OnePlace(u)'
    <3>1. OnePlace(u) /\ row[u] = "none"
      BY <1>0, <2>1, <2>3, <2>4
    <3>2. Queued(u)' /\ UniquePlace(u)'
      BY <2>1, <3>1, Enqueue DEF OnePlace, InFlight
    <3>3. ~Waiting(u)' /\ UniqueRequest(u)' /\ (Settled(u)' <=> Settled(u))
      BY <2>1, <3>1 DEF OnePlace, InFlight, Waiting, UniqueRequest, Settled
    <3> QED BY <2>1, <2>3, <2>4, <3>1, <3>2, <3>3 DEF OnePlace, InFlight
  <2>5. ASSUME NEW v \in Updates \ blind', v # u PROVE OnePlace(v)'
    <3>1. OnePlace(v) /\ UniqueRequest(v) /\ UniquePlace(v)
      BY <1>0, <2>1 DEF OnePlace
    <3>2. (Queued(v)' <=> Queued(v)) /\ UniquePlace(v)'
      BY <2>1, <2>5, <3>1, Enqueue
    <3>3. (Waiting(v)' <=> Waiting(v)) /\ UniqueRequest(v)' /\ (Settled(v)' <=> Settled(v))
      BY <2>1, <3>1 DEF Waiting, UniqueRequest, Settled
    <3> QED BY <2>1, <2>2, <2>5, <3>1, <3>2, <3>3, Unmoved
  <2> QED BY <2>4, <2>5 DEF OnceInv
<1>3. ASSUME NEW u \in Updates, WebhookWaits(u) PROVE OnceInv'
  <2>1. PICK n \in 1..MaxDeliveries : waiting' = waiting \cup {<<u, n>>}
    <3>1. deliveries'[u] = deliveries[u] + 1 /\ deliveries[u] < MaxDeliveries
      BY <1>3 DEF WebhookWaits, Deliver, TypeOK
    <3>2. deliveries'[u] \in 1..MaxDeliveries
      BY <3>1 DEF TypeOK
    <3> QED BY <1>3, <3>2 DEF WebhookWaits
  <2>2. /\ UNCHANGED <<queue, current, started, processed, dlq, lost>>
        /\ blind \subseteq blind'
        /\ \A v \in Updates \ {u} : row'[v] = row[v]
    BY <1>3 DEF WebhookWaits, Deliver, Acquires, TypeOK
  <2>3. u \notin blind' => row[u] = "none" /\ row'[u] # "none"
    BY <1>3 DEF WebhookWaits, Acquires, TypeOK
  <2>4. ASSUME u \notin blind' PROVE OnePlace(u)'
    <3>1. OnePlace(u) /\ row[u] = "none"
      BY <1>0, <2>2, <2>3, <2>4
    <3>2. Waiting(u)' /\ UniqueRequest(u)'
      BY <2>1, <3>1, StartWaiting DEF OnePlace, InFlight
    <3>3. ~Queued(u)' /\ UniquePlace(u)' /\ (Settled(u)' <=> Settled(u))
      BY <2>2, <3>1 DEF OnePlace, InFlight, Queued, UniquePlace, Settled
    <3> QED BY <2>2, <2>3, <2>4, <3>1, <3>2, <3>3 DEF OnePlace, InFlight
  <2>5. ASSUME NEW v \in Updates \ blind', v # u PROVE OnePlace(v)'
    <3>1. OnePlace(v) /\ UniqueRequest(v) /\ UniquePlace(v)
      BY <1>0, <2>2 DEF OnePlace
    <3>2. (Waiting(v)' <=> Waiting(v)) /\ UniqueRequest(v)'
      BY <2>1, <2>5, <3>1, StartWaiting
    <3>3. (Queued(v)' <=> Queued(v)) /\ UniquePlace(v)' /\ (Settled(v)' <=> Settled(v))
      BY <2>2, <3>1 DEF Queued, UniquePlace, Settled
    <3> QED BY <2>2, <2>5, <3>1, <3>2, <3>3, Unmoved
  <2> QED BY <2>4, <2>5 DEF OnceInv
<1>4. ASSUME NEW r \in Requests, PutResumes(r) PROVE OnceInv'
  <2>1. PICK u \in Updates, n \in 1..MaxDeliveries : r = <<u, n>>
    BY DEF Requests
  <2>2. /\ <<u, n>> \in waiting /\ waiting' = waiting \ {<<u, n>>}
        /\ queue' = Append(queue, u)
        /\ UNCHANGED <<current, started, processed, dlq, lost, blind>>
    BY <1>4, <2>1 DEF PutResumes
  <2>3. /\ \A v \in Updates \ {u} : row'[v] = row[v]
        /\ row[u] # "none" => row'[u] # "none"
    BY <1>4, <2>1 DEF PutResumes, Commits, TypeOK
  <2>4. ASSUME u \notin blind PROVE OnePlace(u)'
    <3>1. OnePlace(u) /\ Waiting(u)
      BY <1>0, <2>2, <2>4, StopWaiting
    <3>2. Queued(u)' /\ UniquePlace(u)'
      BY <2>2, <3>1, Enqueue DEF OnePlace
    <3>3. ~Waiting(u)' /\ UniqueRequest(u)'
      BY <2>2, <3>1, StopWaiting DEF OnePlace
    <3>4. Settled(u)' <=> Settled(u)
      BY <2>2 DEF Settled
    <3> QED BY <2>2, <2>3, <3>1, <3>2, <3>3, <3>4 DEF OnePlace, InFlight
  <2>5. ASSUME NEW v \in Updates \ blind, v # u PROVE OnePlace(v)'
    <3>1. OnePlace(v) /\ UniqueRequest(v) /\ UniquePlace(v)
      BY <1>0 DEF OnePlace
    <3>2. (Queued(v)' <=> Queued(v)) /\ UniquePlace(v)'
      BY <2>2, <2>5, <3>1, Enqueue
    <3>3. (Waiting(v)' <=> Waiting(v)) /\ UniqueRequest(v)'
      BY <2>2, <2>5, <3>1, StopWaiting
    <3>4. Settled(v)' <=> Settled(v)
      BY <2>2 DEF Settled
    <3> QED BY <2>2, <2>3, <2>5, <3>1, <3>2, <3>3, <3>4, Unmoved
  <2> QED BY <2>2, <2>4, <2>5 DEF OnceInv
<1>5. ASSUME WorkerGets PROVE OnceInv'
  <2>1. /\ queue # << >> /\ queue' = Tail(queue)
        /\ current = NoUpdate /\ current' = Head(queue)
        /\ started' = [started EXCEPT ![Head(queue)] = @ + 1]
        /\ UNCHANGED <<row, waiting, processed, dlq, lost, blind>>
    BY <1>5 DEF WorkerGets, Available
  <2> SUFFICES ASSUME NEW v \in Updates \ blind PROVE OnePlace(v)'
    BY <2>1 DEF OnceInv
  <2>2. OnePlace(v) /\ UniqueRequest(v) /\ UniquePlace(v)
    BY <1>0 DEF OnePlace
  <2>3. /\ Head(queue) \in Updates /\ UniquePlace(v)'
        /\ v # Head(queue) => (Queued(v)' <=> Queued(v))
        /\ v = Head(queue) => Queued(v) /\ ~Queued(v)'
    BY <2>1, <2>2, Dequeue
  <2>4. (Waiting(v)' <=> Waiting(v)) /\ UniqueRequest(v)' /\ (Settled(v)' <=> Settled(v))
    BY <2>1, <2>2 DEF Waiting, UniqueRequest, Settled
  <2>5. started'[v] = IF v = Head(queue) THEN started[v] + 1 ELSE started[v]
    BY <2>1 DEF TypeOK
  <2>6. CASE v = Head(queue)
    BY <2>1, <2>2, <2>3, <2>4, <2>5, <2>6 DEF OnePlace, InFlight
  <2>7. CASE v # Head(queue)
    BY <2>1, <2>2, <2>3, <2>4, <2>5, <2>7, Unmoved
  <2> QED BY <2>6, <2>7
<1>6. ASSUME WorkerSucceeds \/ WorkerFails PROVE OnceInv'
  <2>1. /\ current \in Updates /\ current' = NoUpdate
        /\ UNCHANGED <<row, waiting, queue, started, blind>>
        /\ \A v \in Updates \ {current} : Settled(v)' <=> Settled(v)
    BY <1>6 DEF WorkerSucceeds, WorkerFails, Bury, Settled, TypeOK
  <2> SUFFICES ASSUME NEW v \in Updates \ blind PROVE OnePlace(v)'
    BY <2>1 DEF OnceInv
  <2>2. OnePlace(v) /\ UniqueRequest(v) /\ UniquePlace(v)
    BY <1>0 DEF OnePlace
  <2>3. /\ Waiting(v)' <=> Waiting(v)
        /\ Queued(v)' <=> Queued(v)
        /\ UniqueRequest(v)' /\ UniquePlace(v)'
    BY <2>1, <2>2 DEF Waiting, Queued, UniqueRequest, UniquePlace
  <2>4. CASE v = current
    BY <2>1, <2>2, <2>3, <2>4 DEF OnePlace, InFlight
  <2>5. CASE v # current
    BY <2>1, <2>2, <2>3, <2>5, Unmoved
  <2> QED BY <2>4, <2>5
<1>7. ASSUME Restart PROVE OnceInv'
  <2>1. /\ waiting' = {} /\ queue' = << >> /\ current' = NoUpdate
        /\ lost' = lost \cup {u \in Updates : u = current \/ Waiting(u) \/ Queued(u)}
        /\ UNCHANGED <<row, started, processed, dlq, blind>>
    BY <1>7 DEF Restart
  <2> SUFFICES ASSUME NEW v \in Updates \ blind PROVE OnePlace(v)'
    BY <2>1 DEF OnceInv
  <2>2. /\ ~Waiting(v)' /\ ~Queued(v)' /\ UniqueRequest(v)' /\ UniquePlace(v)'
        /\ v # current'
    BY <2>1 DEF Waiting, Queued, UniqueRequest, UniquePlace
  <2>3. Settled(v)' <=> Settled(v) \/ InFlight(v) \/ v = current
    BY <2>1 DEF Settled, InFlight
  <2> QED BY <1>0, <2>1, <2>2, <2>3 DEF OnePlace, InFlight
<1>8. ASSUME UNCHANGED vars PROVE OnceInv'
  BY <1>0, <1>8 DEF vars, OnceInv, OnePlace, InFlight, Settled, Waiting, Queued, UniqueRequest,
                    UniquePlace
<1> QED BY <1>1, <1>2, <1>3, <1>4, <1>5, <1>6, <1>7, <1>8 DEF Next

LEMMA InitOnce == Init => OnceInv
BY PipelineAssumption DEF Init, OnceInv, OnePlace, InFlight, Settled, Waiting, Queued,
                          UniqueRequest, UniquePlace

(* Whatever Telegram repeats, the cache forgets and a restart loses, process_update *)
(* is called at most once for an update that begin() checked.                      *)
THEOREM ProcessedOnce == Spec => []AtMostOnce
<1>1. TypeInv => TypeOK
  BY DEF TypeInv
<1>2. OnceInv => AtMostOnce
  BY DEF OnceInv, OnePlace, AtMostOnce
<1> QED BY <1>1, <1>2, InitType, TypeStep, InitOnce, OnceStep, PTL DEF Spec

\* DoneMeansQueued, of one update.
Done(u) ==
    /\ Waiting(u) => row[u] = "processing"
    /\ row[u] = "done" => Queued(u) \/ u = current \/ started[u] > 0 \/ u \in lost

LEMMA DoneStep == TypeOK /\ OnceInv /\ DoneMeansQueued /\ [Next]_vars => DoneMeansQueued'
<1> SUFFICES ASSUME TypeOK, OnceInv, \A v \in Updates \ blind : Done(v), [Next]_vars,
                    NEW v \in Updates \ blind'
             PROVE  Done(v)'
  BY DEF DoneMeansQueued, Done
<1> USE PipelineAssumption
<1>0. ASSUME v \notin blind, row'[v] = row[v], started'[v] = started[v], current' = current,
             lost' = lost, Waiting(v)' => Waiting(v), Queued(v) => Queued(v)'
      PROVE  Done(v)'
  BY <1>0 DEF Done
<1>1. ASSUME NEW u \in Updates, WebhookSeen(u) \/ WebhookRefused(u) PROVE Done(v)'
  <2>1. UNCHANGED <<row, waiting, queue, blind, current, started, lost>>
    BY <1>1 DEF WebhookSeen, WebhookRefused, Deliver
  <2> QED BY <1>0, <2>1 DEF Waiting, Queued
<1>2. ASSUME NEW u \in Updates, WebhookAccepts(u) PROVE Done(v)'
  <2>1. /\ queue' = Append(queue, u) /\ v \notin blind
        /\ UNCHANGED <<waiting, current, started, lost>>
    BY <1>2 DEF WebhookAccepts, Deliver, AcquiresAndCommits
  <2>2. Queued(u)' /\ (Queued(v) => Queued(v)') /\ (Waiting(v)' <=> Waiting(v))
    BY <2>1, Enqueue DEF Waiting
  <2>3. CASE v # u
    <3>1. row'[v] = row[v]
      BY <1>2, <2>3 DEF WebhookAccepts, AcquiresAndCommits, Commits, TypeOK
    <3> QED BY <1>0, <2>1, <2>2, <3>1
  <2>4. CASE v = u
    <3>1. row[u] = "none"
      BY <1>2, <2>4 DEF WebhookAccepts, AcquiresAndCommits
    <3> QED BY <2>1, <2>2, <2>4, <3>1 DEF Done, OnceInv, OnePlace, InFlight
  <2> QED BY <2>3, <2>4
<1>3. ASSUME NEW u \in Updates, WebhookWaits(u) PROVE Done(v)'
  <2>1. /\ UNCHANGED <<queue, current, started, lost>> /\ v \notin blind
        /\ waiting' = waiting \cup {<<u, deliveries'[u]>>}
        /\ Queued(v)' <=> Queued(v)
    BY <1>3 DEF WebhookWaits, Deliver, Acquires, Queued
  <2>2. CASE v # u
    <3>1. row'[v] = row[v] /\ (Waiting(v)' => Waiting(v))
      BY <1>3, <2>1, <2>2 DEF WebhookWaits, Acquires, TypeOK, Waiting
    <3> QED BY <1>0, <2>1, <3>1
  <2>3. CASE v = u
    <3>1. row'[u] = "processing"
      BY <1>3, <2>3 DEF WebhookWaits, Acquires, TypeOK
    <3> QED BY <2>3, <3>1 DEF Done
  <2> QED BY <2>2, <2>3
<1>4. ASSUME NEW r \in Requests, PutResumes(r) PROVE Done(v)'
  <2>1. PICK u \in Updates, n \in 1..MaxDeliveries : r = <<u, n>>
    BY DEF Requests
  <2>2. /\ <<u, n>> \in waiting /\ waiting' = waiting \ {<<u, n>>}
        /\ queue' = Append(queue, u) /\ v \notin blind
        /\ UNCHANGED <<current, started, lost>>
    BY <1>4, <2>1 DEF PutResumes
  <2>3. Queued(u)' /\ (Queued(v) => Queued(v)') /\ (v # u => (Waiting(v)' <=> Waiting(v)))
    BY <2>2, Enqueue, StopWaiting
  <2>4. CASE v # u
    <3>1. row'[v] = row[v]
      BY <1>4, <2>1, <2>4 DEF PutResumes, Commits, TypeOK
    <3> QED BY <1>0, <2>2, <2>3, <2>4, <3>1
  <2>5. CASE v = u
    <3>1. ~Waiting(u)'
      BY <2>2, <2>5, StopWaiting DEF OnceInv, OnePlace
    <3> QED BY <2>3, <2>5, <3>1 DEF Done
  <2> QED BY <2>4, <2>5
<1>5. ASSUME WorkerGets PROVE Done(v)'
  <2>1. /\ queue # << >> /\ queue' = Tail(queue)
        /\ current = NoUpdate /\ current' = Head(queue)
        /\ started' = [started EXCEPT ![Head(queue)] = @ + 1]
        /\ UNCHANGED <<row, waiting, lost, blind>>
    BY <1>5 DEF WorkerGets, Available
  <2>2. (v # Head(queue) => (Queued(v)' <=> Queued(v))) /\ (Waiting(v)' <=> Waiting(v))
    BY <2>1, Dequeue DEF Waiting
  <2>3. v # Head(queue) => started'[v] = started[v]
    BY <2>1 DEF TypeOK
  <2> QED BY <2>1, <2>2, <2>3 DEF Done
<1>6. ASSUME WorkerSucceeds \/ WorkerFails PROVE Done(v)'
  <2>1. /\ UNCHANGED <<row, waiting, queue, started, blind>>
        /\ current' = NoUpdate /\ lost \subseteq lost'
    BY <1>6 DEF WorkerSucceeds, WorkerFails, Bury
  <2>2. v = current => started[v] > 0
    BY <2>1 DEF OnceInv, OnePlace
  <2> QED BY <2>1, <2>2 DEF Done, Waiting, Queued
<1>7. ASSUME Restart PROVE Done(v)'
  <2>1. /\ waiting' = {} /\ UNCHANGED <<row, started, blind>>
        /\ lost' = lost \cup {u \in Updates : u = current \/ Waiting(u) \/ Queued(u)}
    BY <1>7 DEF Restart
  <2> QED BY <2>1 DEF Done, Waiting
<1>8. ASSUME UNCHANGED vars PROVE Done(v)'
  BY <1>0, <1>8 DEF vars, Waiting, Queued
<1> QED BY <1>1, <1>2, <1>3, <1>4, <1>5, <1>6, <1>7, <1>8 DEF Next

(* A row is committed only once its update is on the queue: 'done' never stands for *)
(* an update that still waits for its place, or was never taken.                   *)
THEOREM CommittedAfterPut == Spec => []DoneMeansQueued
<1>1. TypeInv => TypeOK
  BY DEF TypeInv
<1>2. Init => DoneMeansQueued
  BY PipelineAssumption DEF Init, DoneMeansQueued, Waiting
<1> QED BY <1>1, <1>2, InitType, TypeStep, InitOnce, OnceStep, DoneStep, PTL DEF Spec

---------------------------------------------------------------------------------
(* AnsweredIsAccounted                                                             *)

(* An update that was taken moves on, and is never forgotten.                      *)
LEMMA AccountKept ==
    ASSUME TypeOK, [Next]_vars, NEW v \in Updates, Accounted(v)
    PROVE  Accounted(v)'
<1> USE DEF Accounted, InFlight
<1>1. ASSUME NEW u \in Updates, WebhookSeen(u) \/ WebhookRefused(u) PROVE Accounted(v)'
  BY <1>1 DEF WebhookSeen, WebhookRefused, Deliver, Settled, Waiting, Queued
<1>2. ASSUME NEW u \in Updates, WebhookAccepts(u) PROVE Accounted(v)'
  <2>1. queue' = Append(queue, u) /\ UNCHANGED <<waiting, current, processed, dlq, lost>>
    BY <1>2 DEF WebhookAccepts, Deliver
  <2>2. Queued(v) => Queued(v)'
    BY <2>1, Enqueue
  <2> QED BY <2>1, <2>2 DEF Settled, Waiting
<1>3. ASSUME NEW u \in Updates, WebhookWaits(u) PROVE Accounted(v)'
  BY <1>3 DEF WebhookWaits, Deliver, Settled, Waiting, Queued
<1>4. ASSUME NEW r \in Requests, PutResumes(r) PROVE Accounted(v)'
  <2>1. PICK u \in Updates, n \in 1..MaxDeliveries : r = <<u, n>>
    BY DEF Requests
  <2>2. /\ <<u, n>> \in waiting /\ waiting' = waiting \ {<<u, n>>}
        /\ queue' = Append(queue, u) /\ UNCHANGED <<current, processed, dlq, lost>>
    BY <1>4, <2>1 DEF PutResumes
  <2>3. Queued(u)' /\ (Queued(v) => Queued(v)') /\ (v # u => (Waiting(v)' <=> Waiting(v)))
    BY <2>2, Enqueue, StopWaiting
  <2> QED BY <2>2, <2>3 DEF Settled
<1>5. ASSUME WorkerGets PROVE Accounted(v)'
  <2>1. /\ queue # << >> /\ queue' = Tail(queue)
        /\ current = NoUpdate /\ current' = Head(queue)
        /\ UNCHANGED <<waiting, processed, dlq, lost>>
    BY <1>5 DEF WorkerGets, Available
  <2>2. v # Head(queue) => (Queued(v)' <=> Queued(v))
    BY <2>1, Dequeue
  <2> QED BY <2>1, <2>2, PipelineAssumption DEF Settled, Waiting
<1>6. ASSUME WorkerSucceeds \/ WorkerFails PROVE Accounted(v)'
  <2>1. /\ UNCHANGED <<waiting, queue>> /\ current \in Updates
        /\ Settled(v) \/ v = current => Settled(v)'
    BY <1>6 DEF WorkerSucceeds, WorkerFails, Bury, Settled, TypeOK, MaxAttempts
  <2> QED BY <2>1 DEF Waiting, Queued
<1>7. ASSUME Restart PROVE Accounted(v)'
  BY <1>7 DEF Restart, Settled
<1>8. ASSUME UNCHANGED vars PROVE Accounted(v)'
  BY <1>8 DEF vars, Settled, Waiting, Queued
<1> QED BY <1>1, <1>2, <1>3, <1>4, <1>5, <1>6, <1>7, <1>8 DEF Next

LEMMA AccountStep == TypeInv /\ AccountInv /\ [Next]_vars => AccountInv'
<1> SUFFICES ASSUME TypeInv, AccountInv, [Next]_vars, NEW v \in Updates, ~Accounted(v)',
                    v \in cache'.ids \cup answered' \/ row'[v] # "none"
             PROVE  FALSE
  BY DEF AccountInv
<1>0. ~Accounted(v) /\ v \notin cache.ids \cup answered /\ row[v] = "none" /\ TypeOK
  BY AccountKept DEF AccountInv, TypeInv
<1>1. ASSUME NEW u \in Updates, WebhookSeen(u) PROVE FALSE
  BY <1>0, <1>1 DEF WebhookSeen, Answer
<1>2. ASSUME NEW u \in Updates, WebhookRefused(u) PROVE FALSE
  <2>1. cache'.ids \subseteq cache.ids \cup {u}
    BY <1>2, CacheType DEF WebhookRefused
  <2> QED BY <1>0, <1>2, <2>1 DEF WebhookRefused, Answer
<1>3. ASSUME NEW u \in Updates, WebhookAccepts(u) PROVE FALSE
  <2>1. cache'.ids \subseteq cache.ids \cup {u} /\ answered' \subseteq answered \cup {u}
    BY <1>3, CacheType DEF WebhookAccepts, Answer
  <2>2. v # u => row'[v] = row[v]
    BY <1>0, <1>3 DEF WebhookAccepts, AcquiresAndCommits, Commits, TypeOK
  <2>3. Queued(u)'
    BY <1>0, <1>3, Enqueue DEF WebhookAccepts
  <2> QED BY <1>0, <2>1, <2>2, <2>3 DEF Accounted, InFlight
<1>4. ASSUME NEW u \in Updates, WebhookWaits(u) PROVE FALSE
  <2>1. cache'.ids \subseteq cache.ids \cup {u} /\ answered' = answered
    BY <1>4, CacheType DEF WebhookWaits
  <2>2. v # u => row'[v] = row[v]
    BY <1>0, <1>4 DEF WebhookWaits, Acquires, TypeOK
  <2>3. deliveries'[u] = deliveries[u] + 1 /\ deliveries[u] < MaxDeliveries
    BY <1>0, <1>4 DEF WebhookWaits, Deliver, TypeOK
  <2>4. deliveries'[u] \in 1..MaxDeliveries
    BY <1>0, <2>3, PipelineAssumption DEF TypeOK
  <2>5. Waiting(u)'
    BY <1>4, <2>4 DEF WebhookWaits, Waiting
  <2> QED BY <1>0, <2>1, <2>2, <2>5 DEF Accounted, InFlight
<1>5. ASSUME NEW r \in Requests, PutResumes(r) PROVE FALSE
  <2>1. r[1] \in Updates
    BY DEF Requests
  <2>2. cache' = cache /\ answered' \subseteq answered \cup {r[1]}
    BY <1>5 DEF PutResumes, Answer
  <2>3. v # r[1] => row'[v] = row[v]
    BY <1>0, <1>5, <2>1 DEF PutResumes, Commits, TypeOK
  <2>4. v # r[1]
    <3>1. v = r[1] => Queued(v)'
      BY <1>0, <1>5, <2>1, Enqueue DEF PutResumes
    <3> QED BY <3>1 DEF Accounted, InFlight
  <2> QED BY <1>0, <2>2, <2>3, <2>4
<1>6. ASSUME WorkerGets \/ WorkerSucceeds \/ WorkerFails PROVE FALSE
  BY <1>0, <1>6 DEF WorkerGets, WorkerSucceeds, WorkerFails
<1>7. ASSUME Restart PROVE FALSE
  BY <1>0, <1>7 DEF Restart, EmptyCache
<1>8. ASSUME UNCHANGED vars PROVE FALSE
  BY <1>0, <1>8 DEF vars
<1> QED BY <1>1, <1>2, <1>3, <1>4, <1>5, <1>6, <1>7, <1>8 DEF Next

(* No update Telegram was told is received drops out of sight: it is on its way,    *)
(* handled, in the dead letter queue, or went down with a process or an insertion  *)
(* that failed; this holds of the blindly acquired ones too.                       *)
THEOREM AnsweredStaysAccounted == Spec => []AnsweredIsAccounted
<1>1. Init => AccountInv
  BY DEF Init, AccountInv, EmptyCache
<1>2. AccountInv /\ TypeInv => AnsweredIsAccounted
  BY DEF AccountInv, AnsweredIsAccounted, Accounted, InFlight, Settled, TypeInv, TypeOK
<1> QED BY <1>1, <1>2, InitType, TypeStep, AccountStep, PTL DEF Spec

---------------------------------------------------------------------------------
(* The refinement of UpdateDelivery                                                *)

LEMMA SameStage ==
    ASSUME NEW v \in Updates,
           v \in blind' <=> v \in blind, v \in processed' <=> v \in processed,
           v \in lost' <=> v \in lost, dlq'[v] = dlq[v],
           v = current' <=> v = current, InFlight(v)' <=> InFlight(v)
    PROVE  Stage(v)' = Stage(v)
BY DEF Stage, InFlight

LEMMA OneMoves ==
    ASSUME NEW u \in Updates, NEW to,
           \A v \in Updates \ {u} : Stage(v)' = Stage(v), Stage(u)' = to
    PROVE  StageMap' = [StageMap EXCEPT ![u] = to]
BY DEF StageMap

LEMMA NoneMoves ==
    ASSUME \A v \in Updates : Stage(v)' = Stage(v)
    PROVE  [Delivery!Next]_StageMap
BY DEF StageMap

\* An update that reaches the webhook past a row that was not there, or not read.
LEMMA Taken ==
    ASSUME OnceInv, NEW u \in Updates, blind' \in {blind, blind \cup {u}},
           u \notin blind' => row[u] = "none" /\ InFlight(u)' /\ u # current',
           UNCHANGED <<processed, dlq, lost>>,
           \A v \in Updates \ {u} : Stage(v)' = Stage(v)
    PROVE  [Delivery!Next]_StageMap
<1>1. CASE u \in blind'
  <2>1. Stage(u)' = "unchecked"
    BY <1>1 DEF Stage
  <2>2. Delivery!Waive(u)
    BY <2>1, OneMoves DEF Delivery!Waive
  <2> QED BY <2>2 DEF Delivery!Next
<1>2. CASE u \notin blind'
  <2>1. Stage(u) = "new" /\ u \notin blind
    BY <1>2 DEF OnceInv, OnePlace, Settled, Stage, InFlight
  <2>2. Stage(u)' = "accepted"
    BY <1>2, <2>1 DEF OnceInv, OnePlace, Settled, Stage, InFlight
  <2>3. Delivery!Accept(u)
    BY <2>1, <2>2, OneMoves DEF Delivery!Accept, Delivery!Move, StageMap
  <2> QED BY <2>3 DEF Delivery!Next
<1> QED BY <1>1, <1>2

LEMMA DeliveryStep == TypeOK /\ OnceInv /\ [Next]_vars => [Delivery!Next]_StageMap
<1> SUFFICES ASSUME TypeOK, OnceInv, [Next]_vars PROVE [Delivery!Next]_StageMap
  OBVIOUS
<1> USE PipelineAssumption
<1>1. ASSUME NEW u \in Updates, WebhookSeen(u) \/ WebhookRefused(u)
      PROVE  [Delivery!Next]_StageMap
  <2>1. UNCHANGED <<waiting, queue, blind, current, processed, dlq, lost>>
    BY <1>1 DEF WebhookSeen, WebhookRefused, Deliver
  <2> QED BY <2>1, SameStage, NoneMoves DEF InFlight, Waiting, Queued
<1>2. ASSUME NEW u \in Updates, WebhookAccepts(u) PROVE [Delivery!Next]_StageMap
  <2>1. /\ queue' = Append(queue, u) /\ blind' \in {blind, blind \cup {u}}
        /\ u \notin blind' => row[u] = "none"
        /\ UNCHANGED <<waiting, current, processed, dlq, lost>>
    BY <1>2 DEF WebhookAccepts, Deliver, AcquiresAndCommits
  <2>2. InFlight(u)' /\ \A v \in Updates \ {u} : InFlight(v)' <=> InFlight(v)
    BY <2>1, Enqueue DEF InFlight, Waiting
  <2>3. \A v \in Updates \ {u} : Stage(v)' = Stage(v)
    BY <2>1, <2>2, SameStage
  <2>4. u \notin blind' => u # current'
    BY <2>1 DEF OnceInv, OnePlace
  <2> QED BY <2>1, <2>2, <2>3, <2>4, Taken
<1>3. ASSUME NEW u \in Updates, WebhookWaits(u) PROVE [Delivery!Next]_StageMap
  <2>1. /\ blind' \in {blind, blind \cup {u}}
        /\ u \notin blind' => row[u] = "none"
        /\ UNCHANGED <<queue, current, processed, dlq, lost>>
    BY <1>3 DEF WebhookWaits, Deliver, Acquires
  <2>2. waiting' = waiting \cup {<<u, deliveries'[u]>>} /\ deliveries'[u] \in 1..MaxDeliveries
    <3>1. deliveries'[u] = deliveries[u] + 1 /\ deliveries[u] < MaxDeliveries
      BY <1>3 DEF WebhookWaits, Deliver, TypeOK
    <3> QED BY <1>3, <3>1 DEF WebhookWaits, TypeOK
  <2>3. InFlight(u)' /\ \A v \in Updates \ {u} : InFlight(v)' <=> InFlight(v)
    BY <2>1, <2>2 DEF InFlight, Waiting, Queued
  <2>4. \A v \in Updates \ {u} : Stage(v)' = Stage(v)
    BY <2>1, <2>3, SameStage
  <2>5. u \notin blind' => u # current'
    BY <2>1 DEF OnceInv, OnePlace
  <2> QED BY <2>1, <2>3, <2>4, <2>5, Taken
<1>4. ASSUME NEW r \in Requests, PutResumes(r) PROVE [Delivery!Next]_StageMap
  <2>1. PICK u \in Updates, n \in 1..MaxDeliveries : r = <<u, n>>
    BY DEF Requests
  <2>2. /\ <<u, n>> \in waiting /\ waiting' = waiting \ {<<u, n>>}
        /\ queue' = Append(queue, u)
        /\ UNCHANGED <<current, processed, dlq, lost, blind>>
    BY <1>4, <2>1 DEF PutResumes
  <2>3. \A v \in Updates : InFlight(v)' <=> InFlight(v)
    BY <2>2, Enqueue, StopWaiting DEF InFlight
  <2> QED BY <2>2, <2>3, SameStage, NoneMoves
<1>5. ASSUME WorkerGets PROVE [Delivery!Next]_StageMap
  <2>1. /\ queue # << >> /\ queue' = Tail(queue)
        /\ current = NoUpdate /\ current' = Head(queue)
        /\ UNCHANGED <<waiting, processed, dlq, lost, blind>>
    BY <1>5 DEF WorkerGets, Available
  <2>2. PICK u \in Updates : u = Head(queue) /\ Queued(u)
    BY <2>1, Dequeue
  <2>3. \A v \in Updates \ {u} : InFlight(v)' <=> InFlight(v)
    BY <2>1, <2>2, Dequeue DEF InFlight, Waiting
  <2>4. \A v \in Updates \ {u} : Stage(v)' = Stage(v)
    BY <2>1, <2>2, <2>3, SameStage
  <2>5. CASE u \in blind
    <3>1. Stage(u)' = Stage(u)
      BY <2>1, <2>5 DEF Stage
    <3> QED BY <2>4, <3>1, NoneMoves
  <2>6. CASE u \notin blind
    <3>1. Stage(u) = "accepted" /\ Stage(u)' = "processing"
      BY <2>1, <2>2, <2>6 DEF OnceInv, OnePlace, Settled, Stage, InFlight
    <3>2. Delivery!Start(u)
      BY <2>4, <3>1, OneMoves DEF Delivery!Start, Delivery!Move, StageMap
    <3> QED BY <3>2 DEF Delivery!Next
  <2> QED BY <2>5, <2>6
<1>6. ASSUME WorkerSucceeds \/ WorkerFails PROVE [Delivery!Next]_StageMap
  <2>1. /\ current' = NoUpdate
        /\ UNCHANGED <<waiting, queue, blind>>
    BY <1>6 DEF WorkerSucceeds, WorkerFails
  <2>2. PICK u \in Updates : u = current
    BY <1>6 DEF WorkerSucceeds, WorkerFails, TypeOK
  <2>3. \A v \in Updates \ {u} :
          /\ v \in processed' <=> v \in processed
          /\ v \in lost' <=> v \in lost
          /\ dlq'[v] = dlq[v]
          /\ InFlight(v)' <=> InFlight(v)
    BY <1>6, <2>1, <2>2
       DEF WorkerSucceeds, WorkerFails, Bury, TypeOK, InFlight, Waiting, Queued
  <2>4. \A v \in Updates \ {u} : Stage(v)' = Stage(v)
    BY <2>1, <2>2, <2>3, SameStage
  <2>5. CASE u \in blind
    <3>1. Stage(u)' = Stage(u)
      BY <2>1, <2>5 DEF Stage
    <3> QED BY <2>4, <3>1, NoneMoves
  <2>6. CASE u \notin blind
    <3>1. /\ Stage(u) = "processing" /\ u \notin processed /\ dlq[u] = 0
          /\ ~InFlight(u) /\ ~InFlight(u)' /\ u # current' /\ u \notin blind'
      BY <2>1, <2>2, <2>6 DEF OnceInv, OnePlace, Settled, Stage, InFlight, Waiting, Queued
    <3>2. CASE WorkerSucceeds
      <4>1. Stage(u)' = "processed"
        BY <2>2, <3>1, <3>2 DEF WorkerSucceeds, Stage
      <4>2. Delivery!Finish(u)
        BY <2>4, <3>1, <4>1, OneMoves DEF Delivery!Finish, Delivery!Move, StageMap
      <4> QED BY <4>2 DEF Delivery!Next
    <3>3. CASE WorkerFails /\ dlq' = [dlq EXCEPT ![u] = MaxAttempts]
      <4>1. Stage(u)' = "dead"
        BY <2>2, <3>1, <3>3 DEF WorkerFails, Stage, TypeOK, MaxAttempts
      <4>2. Delivery!Bury(u)
        BY <2>4, <3>1, <4>1, OneMoves DEF Delivery!Bury, Delivery!Move, StageMap
      <4> QED BY <4>2 DEF Delivery!Next
    <3>4. CASE WorkerFails /\ lost' = lost \cup {u} /\ UNCHANGED dlq
      <4>1. Stage(u)' = "lost"
        BY <3>1, <3>4 DEF WorkerFails, Stage, InFlight
      <4>2. Delivery!Lose({u})
        BY <2>4, <3>1, <4>1 DEF Delivery!Lose, StageMap
      <4> QED BY <4>2 DEF Delivery!Next
    <3> QED BY <1>6, <2>2, <3>2, <3>3, <3>4 DEF WorkerFails, Bury
  <2> QED BY <2>5, <2>6
<1>7. ASSUME Restart PROVE [Delivery!Next]_StageMap
  <2> DEFINE S == {u \in Updates : Stage(u) \in {"accepted", "processing"}}
  <2>1. /\ waiting' = {} /\ queue' = << >> /\ current' = NoUpdate
        /\ lost' = lost \cup {u \in Updates : u = current \/ Waiting(u) \/ Queued(u)}
        /\ UNCHANGED <<processed, dlq, blind>>
    BY <1>7 DEF Restart
  <2>2. \A v \in Updates : ~InFlight(v)' /\ v # current'
    BY <2>1 DEF InFlight, Waiting, Queued
  <2>3. \A v \in Updates : v \in lost' <=> v \in lost \/ v = current \/ InFlight(v)
    BY <2>1 DEF InFlight
  <2>4. ASSUME NEW v \in Updates
        PROVE  Stage(v)' = IF v \in S THEN "lost" ELSE Stage(v)
    BY <2>1, <2>2, <2>3 DEF Stage, InFlight
  <2>5. StageMap' = [u \in Updates |-> IF u \in S THEN "lost" ELSE StageMap[u]]
    BY <2>4 DEF StageMap
  <2>6. \A u \in S : StageMap[u] \in {"accepted", "processing"}
    BY DEF StageMap
  <2>7. Delivery!Lose(S)
    BY <2>5, <2>6 DEF Delivery!Lose
  <2> QED BY <2>7 DEF Delivery!Next
<1>8. ASSUME UNCHANGED vars PROVE [Delivery!Next]_StageMap
  BY <1>8, SameStage, NoneMoves DEF vars, InFlight, Waiting, Queued
<1> QED BY <1>1, <1>2, <1>3, <1>4, <1>5, <1>6, <1>7, <1>8 DEF Next

(* The pipeline implements UpdateDelivery: each update is accepted once, processed  *)
(* once, and what has become of it is never undone.                                *)
THEOREM DeliveryRefined == Spec => DeliverySpec
<1>1. Init => Delivery!Init
  BY PipelineAssumption DEF Init, Delivery!Init, StageMap, Stage, Waiting, Queued
<1>2. TypeInv => TypeOK
  BY DEF TypeInv
<1> QED BY <1>1, <1>2, InitType, TypeStep, InitOnce, OnceStep, DeliveryStep, PTL
        DEF Spec, DeliverySpec, Delivery!Spec


---------------------------------------------------------------------------------
(* The duplicate cache on its own, for any sizes of the deque, the limit and what a *)
(* trim keeps, and for any number of updates.  The invariant is an account: what    *)
(* the set holds beyond the deque is at most what fits between the deque and the    *)
(* limit, so that the deque is full whenever the set is trimmed; the trim takes as  *)
(* many ids from the deque as it takes from the set, and leaves it the window.      *)

Unlike(s) == \A i, j \in 1..Len(s) : s[i] = s[j] => i = j

\* The deque is the last of what was added.
LastOf(s, t) == Len(s) <= Len(t) /\ \A i \in 1..Len(s) : s[i] = t[Len(t) - Len(s) + i]

Well(c) ==
    /\ IsFiniteSet(c.ids) /\ c.order \in Seq(c.ids)
    /\ Unlike(c.order)
    /\ Len(c.order) <= DequeMax
    /\ Cardinality(c.ids) <= Limit
    /\ Cardinality(c.ids) - Len(c.order) <= Limit + 1 - DequeMax

Recalls(c, t) == LastOf(c.order, t) /\ (Len(c.order) >= Window \/ Len(c.order) = Len(t))

SeenInv == SeenTypeOK /\ newest <= Len(added) /\ Well(seen) /\ Recalls(seen, added)

\* The first n of a sequence without repetition are n.
LEMMA ForgetCounts ==
    ASSUME NEW S, NEW s \in Seq(S), Unlike(s), NEW n \in 0..Len(s)
    PROVE  Forget(s, n) \subseteq S /\ Cardinality(Forget(s, n)) = n
<1> DEFINE f == [i \in 1..n |-> s[i]]
<1>1. f \in [1..n -> Forget(s, n)]  BY DEF Forget
<1>2. \A i, j \in 1..n : f[i] = f[j] => i = j  BY DEF Unlike
<1>3. \A x \in Forget(s, n) : \E i \in 1..n : f[i] = x  BY DEF Forget
<1>4. f \in Injection(1..n, Forget(s, n))  BY <1>1, <1>2 DEF Injection, IsInjective
<1>5. f \in Surjection(1..n, Forget(s, n))  BY <1>1, <1>3 DEF Surjection
<1>6. ExistsBijection(1..n, Forget(s, n))  BY <1>4, <1>5 DEF Bijection, ExistsBijection
<1>7. n \in Nat  OBVIOUS
<1>8. Forget(s, n) \subseteq S  BY DEF Forget
<1> QED BY <1>6, <1>7, <1>8, FS_CountingElements

\* A new id at the end of the deque, with the oldest gone if it was full.
LEMMA PushedIs ==
    ASSUME NEW c, Well(c), NEW u, u \notin c.ids, NEW T, NEW t \in Seq(T), u \in T,
           LastOf(c.order, t), CacheAssumption
    PROVE  /\ Pushed(c.order, u) \in Seq(c.ids \cup {u})
           /\ Unlike(Pushed(c.order, u))
           /\ Len(Pushed(c.order, u)) = IF Len(c.order) = DequeMax THEN DequeMax ELSE Len(c.order) + 1
           /\ LastOf(Pushed(c.order, u), Append(t, u))
<1> DEFINE s == c.order  A == c.ids  B == c.ids \cup {u}
           r == IF Len(s) = DequeMax THEN Tail(s) ELSE s
           p == Append(r, u)
           q == Append(t, u)
<1>1. s \in Seq(A) /\ Unlike(s) /\ Len(s) \in 0..DequeMax /\ DequeMax \in Nat \ {0}
  BY DEF Well, CacheAssumption
<1>2. /\ r \in Seq(A) /\ Unlike(r) /\ LastOf(r, t)
      /\ Len(r) = IF Len(s) = DequeMax THEN DequeMax - 1 ELSE Len(s)
  <2>1. CASE Len(s) = DequeMax
    <3>1. s # << >>  BY <1>1, <2>1
    <3>2. /\ Tail(s) \in Seq(A) /\ Len(Tail(s)) = Len(s) - 1
          /\ \A i \in 1..Len(Tail(s)) : Tail(s)[i] = s[i + 1]
      BY <1>1, <3>1, HeadTailProperties
    <3>3. Unlike(Tail(s))  BY <1>1, <3>2 DEF Unlike
    <3>4. LastOf(Tail(s), t)
      <4> DEFINE w == Tail(s)
      <4>1. Len(w) = Len(s) - 1 /\ \A i \in 1..Len(w) : w[i] = s[i + 1]  BY <3>2
      <4>2. Len(s) \in Nat /\ Len(t) \in Nat /\ LastOf(s, t)  BY <1>1
      <4> HIDE DEF w, s
      <4>3. ASSUME NEW i \in 1..Len(w) PROVE w[i] = t[Len(t) - Len(w) + i]
        <5>1. i + 1 \in 1..Len(s) /\ Len(t) - Len(w) + i = Len(t) - Len(s) + (i + 1)
          BY <4>1, <4>2
        <5>2. s[i + 1] = t[Len(t) - Len(s) + (i + 1)]  BY <5>1, <4>2 DEF LastOf
        <5> QED BY <4>1, <5>1, <5>2
      <4>4. Len(w) <= Len(t)  BY <4>1, <4>2 DEF LastOf
      <4> QED BY <4>3, <4>4 DEF LastOf, w
    <3> QED BY <2>1, <3>2, <3>3, <3>4
  <2>2. CASE Len(s) # DequeMax  BY <1>1, <2>2
  <2> QED BY <2>1, <2>2
<1> HIDE DEF r
<1>3. r \in Seq(B) /\ Len(r) \in Nat  BY <1>2
<1>4. /\ p \in Seq(B) /\ Len(p) = Len(r) + 1
      /\ \A i \in 1..Len(r) : p[i] = r[i] /\ p[i] \in A
      /\ p[Len(r) + 1] = u
  BY <1>2, <1>3, AppendProperties
<1>5. q \in Seq(T) /\ Len(q) = Len(t) + 1 /\ q[Len(t) + 1] = u
      /\ \A i \in 1..Len(t) : q[i] = t[i]
  BY AppendProperties
<1> HIDE DEF p, q, s
<1>6. Unlike(p)
  <2> SUFFICES ASSUME NEW i \in 1..Len(p), NEW j \in 1..Len(p), p[i] = p[j] PROVE i = j
    BY DEF Unlike
  <2>1. \A k \in 1..Len(p) : k \in 1..Len(r) \/ k = Len(r) + 1  BY <1>3, <1>4
  <2>2. CASE i \in 1..Len(r) /\ j \in 1..Len(r)  BY <2>2, <1>2, <1>4 DEF Unlike
  <2>3. CASE i = Len(r) + 1 \/ j = Len(r) + 1  BY <2>1, <2>3, <1>4
  <2> QED BY <2>1, <2>2, <2>3
<1>7. LastOf(p, q)
  <2>1. Len(t) \in Nat /\ Len(r) <= Len(t)  BY <1>2 DEF LastOf
  <2>4. Len(q) = Len(t) + 1 /\ Len(p) <= Len(t) + 1  BY <2>1, <1>3, <1>4, <1>5
  <2> SUFFICES ASSUME NEW i \in 1..Len(p) PROVE p[i] = q[Len(t) + 1 - Len(p) + i]
    BY <2>4 DEF LastOf
  <2>2. CASE i \in 1..Len(r)
    <3>1. Len(t) - Len(r) + i \in 1..Len(t)  BY <2>1, <2>2, <1>3
    <3>2. Len(t) + 1 - Len(p) + i = Len(t) - Len(r) + i  BY <2>1, <1>3, <1>4
    <3>3. r[i] = t[Len(t) - Len(r) + i]  BY <2>2, <1>2 DEF LastOf
    <3> QED BY <2>2, <3>1, <3>2, <3>3, <1>4, <1>5
  <2>3. CASE i = Len(r) + 1
    <3>1. Len(t) + 1 - Len(p) + i = Len(t) + 1  BY <2>1, <2>3, <1>3, <1>4
    <3> QED BY <2>3, <3>1, <1>4, <1>5
  <2> QED BY <2>2, <2>3, <1>3, <1>4
<1>8. Pushed(c.order, u) = p  BY DEF Pushed, p, r, s
<1> QED BY <1>1, <1>2, <1>3, <1>4, <1>6, <1>7, <1>8 DEF s, q

\* What a trim leaves of a set and its deque, when it takes n ids.
LEMMA TrimmedIs ==
    ASSUME NEW A, IsFiniteSet(A), NEW s \in Seq(A), Unlike(s), NEW T, NEW t \in Seq(T),
           LastOf(s, t), NEW n \in 0..Len(s)
    PROVE  /\ IsFiniteSet(A \ Forget(s, n))
           /\ Cardinality(A \ Forget(s, n)) = Cardinality(A) - n
           /\ SubSeq(s, n + 1, Len(s)) \in Seq(A \ Forget(s, n))
           /\ Len(SubSeq(s, n + 1, Len(s))) = Len(s) - n
           /\ Unlike(SubSeq(s, n + 1, Len(s)))
           /\ LastOf(SubSeq(s, n + 1, Len(s)), t)
<1> DEFINE F == Forget(s, n)
           m == Len(s)
           r == SubSeq(s, n + 1, m)
<1>1. F \subseteq A /\ Cardinality(F) = n  BY ForgetCounts
<1>2. IsFiniteSet(A \ F) /\ Cardinality(A \ F) = Cardinality(A) - n
  <2> HIDE DEF F
  <2>1. A \cap F = F  BY <1>1
  <2>2. Cardinality(A \ F) = Cardinality(A) - Cardinality(A \cap F) /\ IsFiniteSet(A \ F)
    BY FS_Difference
  <2> QED BY <1>1, <2>1, <2>2
<1>3. m \in Nat /\ n \in 0..m  OBVIOUS
<1>4. \A i \in (n + 1)..m : s[i] \in A \ F
  <2> SUFFICES ASSUME NEW i \in (n + 1)..m, s[i] \in F PROVE FALSE  BY <1>3
  <2>1. PICK j \in 1..n : s[i] = s[j]  BY DEF Forget
  <2>2. i \in 1..m /\ j \in 1..m /\ i # j  BY <1>3
  <2> QED BY <2>1, <2>2 DEF Unlike
<1>5. r \in Seq(A \ F) /\ Len(r) = m - n /\ \A i \in 1..(m - n) : r[i] = s[n + i]
  <2>1. n + 1 \in Int /\ m \in Int  BY <1>3
  <2>2. /\ r \in Seq(A \ F) /\ Len(r) = IF n + 1 <= m THEN m - (n + 1) + 1 ELSE 0
        /\ \A i \in 1..(m - (n + 1) + 1) : r[i] = s[n + 1 + i - 1]
    BY <1>4, <2>1, SubSeqProperties
  <2> QED BY <1>3, <2>2
<1> HIDE DEF r
<1>6. Unlike(r)
  <2> SUFFICES ASSUME NEW i \in 1..Len(r), NEW j \in 1..Len(r), r[i] = r[j] PROVE i = j
    BY DEF Unlike
  <2>1. n + i \in 1..m /\ n + j \in 1..m /\ s[n + i] = s[n + j]  BY <1>3, <1>5
  <2>2. n + i = n + j  BY <2>1 DEF Unlike
  <2> QED BY <2>2, <1>3, <1>5
<1>7. LastOf(r, t)
  <2>1. Len(t) \in Nat /\ m <= Len(t)  BY DEF LastOf
  <2>2. ASSUME NEW i \in 1..Len(r) PROVE r[i] = t[Len(t) - Len(r) + i]
    <3>1. n + i \in 1..m /\ Len(t) - Len(r) + i = Len(t) - m + (n + i)  BY <1>3, <1>5, <2>1
    <3>2. s[n + i] = t[Len(t) - m + (n + i)]  BY <3>1 DEF LastOf
    <3> QED BY <1>5, <3>1, <3>2
  <2>3. Len(r) <= Len(t)  BY <1>3, <1>5, <2>1
  <2> QED BY <2>2, <2>3 DEF LastOf
<1> QED BY <1>2, <1>5, <1>6, <1>7 DEF r

\* The set is trimmed with a full deque only.
LEMMA FullWhenTrimmed ==
    ASSUME NEW k \in Nat, NEW l \in 0..DequeMax, k <= Limit, k + 1 > Limit,
           k - l <= Limit + 1 - DequeMax, CacheAssumption
    PROVE  k = Limit /\ (l = DequeMax \/ l + 1 = DequeMax)
<1>1. DequeMax \in Nat /\ Limit \in Nat  BY DEF CacheAssumption
<1> QED BY <1>1

\* A new id is remembered in full accordance with the account.
LEMMA RememberIs ==
    ASSUME NEW c, Well(c), NEW u, u \notin c.ids, NEW T, NEW t \in Seq(T), u \in T,
           Recalls(c, t), CacheAssumption
    PROVE  /\ Well(Remember(c, u)) /\ Recalls(Remember(c, u), Append(t, u))
           /\ Remember(c, u).ids \subseteq c.ids \cup {u}
<1> DEFINE A == c.ids \cup {u}
           s == Pushed(c.order, u)
           q == Append(t, u)
           excess == Cardinality(A) - Keep
           n == IF excess < Len(s) THEN excess ELSE Len(s)
           d == Remember(c, u)
<1>1. s \in Seq(A) /\ Unlike(s) /\ LastOf(s, q)
      /\ Len(s) = IF Len(c.order) = DequeMax THEN DequeMax ELSE Len(c.order) + 1
  BY PushedIs DEF Recalls
<1>2. IsFiniteSet(A) /\ Cardinality(A) = Cardinality(c.ids) + 1 /\ Cardinality(c.ids) \in Nat
  BY FS_AddElement, FS_CardinalityType DEF Well
<1>3. Len(c.order) \in 0..DequeMax /\ Cardinality(c.ids) <= Limit
      /\ Cardinality(c.ids) - Len(c.order) <= Limit + 1 - DequeMax
  BY DEF Well
<1>4. DequeMax \in Nat \ {0} /\ Limit \in Nat /\ Keep \in Nat /\ DequeMax <= Keep /\ Keep < Limit
      /\ Window = DequeMax + Keep - Limit - 1
  BY DEF CacheAssumption, Window
<1>5. q \in Seq(T) /\ Len(q) = Len(t) + 1 /\ Len(t) \in Nat  BY AppendProperties
<1>6. Len(c.order) >= Window \/ Len(c.order) = Len(t)  BY DEF Recalls
<1> HIDE DEF A, s, q
<1>7. CASE Cardinality(A) > Limit
  <2>1. d.ids = A \ Forget(s, n) /\ d.order = SubSeq(s, n + 1, Len(s))
    BY <1>7 DEF Remember, Trimmed, A, s
  <2>7. Cardinality(c.ids) + 1 > Limit  BY <1>2, <1>7
  <2>8. Cardinality(c.ids) = Limit /\ (Len(c.order) = DequeMax \/ Len(c.order) + 1 = DequeMax)
    BY <1>2, <1>3, <2>7, FullWhenTrimmed
  <2>2. Cardinality(A) = Limit + 1 /\ Len(s) = DequeMax  BY <1>1, <1>2, <2>8
  <2>3. n \in 0..Len(s) /\ n = IF Limit + 1 - Keep < DequeMax THEN Limit + 1 - Keep ELSE DequeMax
    BY <2>2, <1>4
  <2> HIDE DEF n, d
  <2>4. /\ IsFiniteSet(d.ids) /\ Cardinality(d.ids) = Limit + 1 - n
        /\ d.order \in Seq(d.ids) /\ Len(d.order) = DequeMax - n
        /\ Unlike(d.order) /\ LastOf(d.order, q)
    <3>2. IsFiniteSet(A) /\ s \in Seq(A) /\ Unlike(s) /\ q \in Seq(T) /\ LastOf(s, q)
          /\ n \in 0..Len(s)
      BY <1>1, <1>2, <1>5, <2>3
    <3>1. /\ IsFiniteSet(A \ Forget(s, n))
          /\ Cardinality(A \ Forget(s, n)) = Cardinality(A) - n
          /\ SubSeq(s, n + 1, Len(s)) \in Seq(A \ Forget(s, n))
          /\ Len(SubSeq(s, n + 1, Len(s))) = Len(s) - n
          /\ Unlike(SubSeq(s, n + 1, Len(s)))
          /\ LastOf(SubSeq(s, n + 1, Len(s)), q)
      BY <3>2, TrimmedIs, Zenon
    <3> DEFINE X == A \ Forget(s, n)  R == SubSeq(s, n + 1, Len(s))
    <3>3. d.ids = X /\ d.order = R  BY <2>1
    <3>4. IsFiniteSet(X) /\ R \in Seq(X) /\ Unlike(R) /\ LastOf(R, q)  BY <3>1, Zenon
    <3>7. Cardinality(X) = Cardinality(A) - n  BY <3>1
    <3>6. Len(R) = DequeMax - n  BY <2>2, <3>1, Zenon
    <3> HIDE DEF X, R
    <3>5. Cardinality(X) = Limit + 1 - n  BY <1>4, <2>2, <2>3, <3>7
    <3> QED BY <3>3, <3>4, <3>5, <3>6, Zenon
  <2>5. /\ Len(d.order) <= DequeMax /\ Cardinality(d.ids) <= Limit
        /\ Cardinality(d.ids) - Len(d.order) <= Limit + 1 - DequeMax
        /\ Len(d.order) >= Window
    BY <1>4, <2>2, <2>3, <2>4
  <2>6. d.ids \subseteq A  BY <2>1
  <2> QED BY <2>4, <2>5, <2>6 DEF Well, Recalls, d, A, q
<1>8. CASE ~(Cardinality(A) > Limit)
  <2>1. d.ids = A /\ d.order = s  BY <1>8 DEF Remember, A, s
  <2>2. /\ Len(s) <= DequeMax /\ Cardinality(A) <= Limit
        /\ Cardinality(A) - Len(s) <= Limit + 1 - DequeMax
    BY <1>1, <1>2, <1>3, <1>4, <1>8
  <2>3. Len(s) >= Window \/ Len(s) = Len(q)  BY <1>1, <1>3, <1>4, <1>5, <1>6
  <2> HIDE DEF d
  <2>4. Well(d)  BY <1>1, <1>2, <2>1, <2>2 DEF Well
  <2>5. Recalls(d, q)  BY <1>1, <2>1, <2>3 DEF Recalls
  <2>6. d.ids \subseteq A  BY <2>1
  <2> QED BY <2>4, <2>5, <2>6 DEF d, A, q
<1> QED BY <1>7, <1>8

LEMMA SeenInitInv == SeenInit => SeenInv
<1> SUFFICES ASSUME SeenInit PROVE SeenInv  OBVIOUS
<1>1. seen.ids = {} /\ seen.order = << >> /\ added = << >> /\ newest = 0
  BY DEF SeenInit, EmptyCache
<1>2. SeenTypeOK  BY <1>1, AddsAssumption DEF SeenTypeOK
<1>3. IsFiniteSet(seen.ids) /\ Cardinality(seen.ids) = 0  BY <1>1, FS_EmptySet
<1>4. Len(seen.order) = 0 /\ Len(added) = 0 /\ seen.order \in Seq(seen.ids)  BY <1>1
<1>5. Unlike(seen.order) /\ LastOf(seen.order, added)  BY <1>4 DEF Unlike, LastOf
<1>6. DequeMax \in Nat /\ Limit \in Nat /\ DequeMax <= Limit  BY CacheAssumption
<1>7. Well(seen)  BY <1>3, <1>4, <1>5, <1>6 DEF Well
<1>8. Recalls(seen, added)  BY <1>4, <1>5 DEF Recalls
<1>9. newest <= Len(added)  BY <1>1, <1>4
<1> QED BY <1>2, <1>7, <1>8, <1>9 DEF SeenInv

\* Adding an id that is new to the cache.
LEMMA AddIs ==
    ASSUME SeenInv, NEW u \in Nat, u \notin seen.ids, Add(u), newest' \in Nat, Ids \subseteq Ids',
           u \in Ids'
    PROVE  /\ seen'.ids \subseteq Ids' /\ seen'.order \in Seq(Ids') /\ added' \in Seq(Ids')
           /\ Well(seen') /\ Recalls(seen', added')
<1>1. added \in Seq(Ids') /\ seen.ids \subseteq Ids'
  <2>1. added \in Seq(Ids) /\ seen.ids \subseteq Ids  BY DEF SeenInv, SeenTypeOK
  <2>2. \A S, R : S \subseteq R => Seq(S) \subseteq Seq(R)  OBVIOUS
  <2> QED BY <2>1, <2>2
<1>2. seen' = Remember(seen, u) /\ added' = Append(added, u)  BY DEF Add
<1>3. Well(seen') /\ Recalls(seen', added') /\ seen'.ids \subseteq seen.ids \cup {u}
  BY <1>1, <1>2, RememberIs, CacheAssumption DEF SeenInv
<1>4. added' \in Seq(Ids')  BY <1>1, <1>2
<1>5. seen'.ids \subseteq Ids'  BY <1>1, <1>3
<1>6. seen'.order \in Seq(seen'.ids)  BY <1>3 DEF Well
<1>7. seen'.order \in Seq(Ids')  BY <1>5, <1>6
<1> QED BY <1>3, <1>4, <1>5, <1>7

LEMMA SeenStepInv == SeenInv /\ [SeenNext]_seenVars => SeenInv'
<1> SUFFICES ASSUME SeenInv, [SeenNext]_seenVars PROVE SeenInv'  OBVIOUS
<1>1. CASE UNCHANGED seenVars
  BY <1>1 DEF seenVars, SeenInv, SeenTypeOK, Ids, Well, Recalls, LastOf, Unlike
<1>2. CASE Receive
  <2>1. newest \in Nat /\ newest' = newest + 1 /\ Add(newest + 1)
    BY <1>2, AddsAssumption DEF Receive, SeenInv, SeenTypeOK
  <2>2. newest + 1 \notin seen.ids  BY <2>1 DEF SeenInv, SeenTypeOK, Ids
  <2>3. Ids \subseteq Ids' /\ newest + 1 \in Ids'  BY <2>1 DEF Ids
  <2>4. Len(added) \in Nat /\ Len(added') = Len(added) + 1 /\ newest <= Len(added)
        /\ Len(added) < MaxAdds
    BY <2>1 DEF SeenInv, SeenTypeOK, Add
  <2>5. newest' \in 0..MaxAdds /\ newest' <= Len(added')  BY <2>1, <2>4, AddsAssumption
  <2> QED BY <2>1, <2>2, <2>3, <2>5, AddIs DEF SeenInv, SeenTypeOK
<1>3. ASSUME NEW u \in Ids, Redeliver(u) PROVE SeenInv'
  <2>1. CASE UNCHANGED seenVars
    BY <2>1 DEF seenVars, SeenInv, SeenTypeOK, Ids, Well, Recalls, LastOf, Unlike
  <2>2. CASE u \notin seen.ids /\ Add(u) /\ UNCHANGED newest
    <3>1. u \in Nat /\ newest' \in Nat /\ Ids' = Ids
      BY <2>2, AddsAssumption DEF SeenInv, SeenTypeOK, Ids
    <3>2. newest' <= Len(added')  BY <2>2, AddsAssumption DEF SeenInv, SeenTypeOK, Add
    <3> QED BY <2>2, <3>1, <3>2, AddIs DEF SeenInv, SeenTypeOK
  <2> QED BY <1>3, <2>1, <2>2 DEF Redeliver
<1> QED BY <1>1, <1>2, <1>3 DEF SeenNext

LEMMA AlwaysSeenInv == SeenSpec => []SeenInv
BY SeenInitInv, SeenStepInv, PTL DEF SeenSpec

\* The set and the deque hold ids that were received, and nothing else.
THEOREM SeenTypeCorrect == SeenSpec => []SeenTypeOK
<1>1. SeenInv => SeenTypeOK  BY DEF SeenInv
<1> QED BY <1>1, AlwaysSeenInv, PTL

\* The last 3999 ids added are recognised, with the code's numbers (is_duplicate_update):
\* the deque is the last of what was added and is never trimmed below the window.
THEOREM WindowRecalled == SeenSpec => []RecentRemembered
<1>1. SeenInv => RecentRemembered
  <2> SUFFICES ASSUME SeenInv, NEW i \in DOMAIN added, i > Len(added) - Window
               PROVE  added[i] \in seen.ids
    BY DEF RecentRemembered
  <2> DEFINE s == seen.order
  <2>1. s \in Seq(seen.ids) /\ LastOf(s, added) /\ (Len(s) >= Window \/ Len(s) = Len(added))
    BY DEF SeenInv, Well, Recalls
  <2>2. i \in 1..Len(added) /\ Len(added) \in Nat  BY DEF SeenInv, SeenTypeOK
  <2>3. Window \in Int  BY CacheAssumption DEF Window
  <2> HIDE DEF s
  <2> DEFINE j == i - Len(added) + Len(s)
  <2>4. j \in 1..Len(s) /\ Len(added) - Len(s) + j = i  BY <2>1, <2>2, <2>3 DEF LastOf
  <2>5. s[j] = added[i]  BY <2>1, <2>4 DEF LastOf
  <2>6. s[j] \in seen.ids  BY <2>1, <2>4
  <2> QED BY <2>5, <2>6
<1> QED BY <1>1, AlwaysSeenInv, PTL

\* The set never holds more than the limit, and what the deque lost of it on its own
\* stays below the room between the two.
THEOREM LeakIsBounded == SeenSpec => []CacheBounded
<1>1. SeenInv => CacheBounded
  <2> SUFFICES ASSUME SeenInv PROVE CacheBounded  OBVIOUS
  <2> DEFINE A == seen.ids  s == seen.order  F == Forget(s, Len(s))
  <2>1. /\ IsFiniteSet(A) /\ s \in Seq(A) /\ Unlike(s)
        /\ Cardinality(A) <= Limit /\ Cardinality(A) - Len(s) <= Limit + 1 - DequeMax
    BY DEF SeenInv, Well
  <2>2. Stranded = A \ F  BY DEF Stranded
  <2> HIDE DEF A, s, F
  <2>3. F \subseteq A /\ Cardinality(F) = Len(s)
    <3>1. Len(s) \in 0..Len(s)  BY <2>1
    <3> QED BY <2>1, <3>1, ForgetCounts DEF F
  <2>4. A \cap F = F  BY <2>3
  <2>5. Cardinality(A \ F) = Cardinality(A) - Cardinality(A \cap F)  BY <2>1, FS_Difference
  <2> QED BY <2>1, <2>2, <2>3, <2>4, <2>5 DEF CacheBounded, A
<1> QED BY <1>1, AlwaysSeenInv, PTL
=================================================================================
