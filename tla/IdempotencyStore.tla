---------------------------- MODULE IdempotencyStore ----------------------------
(* The persistent idempotency table (app/services/idempotency.py) and the guard    *)
(* that runs a handler under it (app/services/idempotency_guard.py), at the        *)
(* granularity of one SQL statement per step.                                      *)
(*                                                                                 *)
(* A caller is an asyncio task inside with_idempotency.  begin(), commit() and     *)
(* fail() are synchronous: the tasks of one process (one event loop) never         *)
(* interleave inside begin(), the tasks of two processes sharing the database      *)
(* file do, and the purge job runs in the scheduler's thread of its process.       *)
EXTENDS Integers

CONSTANTS
    Callers,      \* the tasks that call with_idempotency
    Keys,         \* the keys make_key() builds
    NoKey,        \* the key of a task that is outside with_idempotency
    Procs,        \* the server processes on the database file
    ProcOf,       \* the process each caller runs in
    TTL,          \* IDMP_TTL_SEC, in clock ticks
    MaxTime,      \* bound: the clock stops there
    Purging,      \* is the purge job scheduled
    DbFaults      \* may a statement raise an sqlite3 error

ASSUME StoreAssumption ==
    /\ NoKey \notin Keys
    /\ ProcOf \in [Callers -> Procs]
    /\ TTL \in Nat \ {0}
    /\ MaxTime \in Nat
    /\ Purging \in BOOLEAN
    /\ DbFaults \in BOOLEAN

VARIABLES
    now,          \* now_ts()
    row,          \* the table: the row of each key, NoRow when there is none
    task,         \* the local state of each caller inside with_idempotency
    answer,       \* what begin() last answered
    victims,      \* the keys the purge job of each process has selected
    cause         \* history: how the exclusion of each key was broken, if it was

vars == <<now, row, task, answer, victims, cause>>

NoRow    == [status |-> "none", created |-> 0, expires |-> 0]
Rows     == [status : {"none", "processing", "done", "failed"}, created : Nat, expires : Nat]
Fresh(t) == [status |-> "processing", created |-> t, expires |-> t + TTL]

\* pc: the statement the caller is at; key: the key it works on; ts: the timestamp
\* begin() took when it started; got: the row begin() is about to reacquire.
Outside == [pc |-> "idle", key |-> NoKey, ts |-> 0, got |-> NoRow]

InBegin == {"insert", "read", "insert2", "read2", "reacquire"}
Answers == {"none", "acquired", "exists_done", "exists_processing"}
Causes  == {"blind", "stale_clock", "lost_update", "purged_live"}

Tasks == [pc : InBegin \cup {"idle", "handler"}, key : Keys \cup {NoKey}, ts : Nat, got : Rows]

TypeOK ==
    /\ now \in Nat
    /\ row \in [Keys -> Rows]
    /\ task \in [Callers -> Tasks]
    /\ \A c \in Callers : task[c].pc # "idle" => task[c].key \in Keys
    /\ answer \in [Callers -> Answers]
    /\ victims \in [Procs -> SUBSET Keys]
    /\ cause \in [Keys -> SUBSET Causes]

Init ==
    /\ now = 0
    /\ row = [k \in Keys |-> NoRow]
    /\ task = [c \in Callers |-> Outside]
    /\ answer = [c \in Callers |-> "none"]
    /\ victims = [p \in Procs |-> {}]
    /\ cause = [k \in Keys |-> {}]

---------------------------------------------------------------------------------
(* What begin() makes of a row it has read.                                        *)

\* Mutant: the lease counts as run out one tick early.
ReacquirableEarly(r, t) == r.expires <= t + 1 \/ r.created > t

\* The row has run out, or is younger than the timestamp begin() took.
Reacquirable(r, t) == r.expires <= t \/ r.created > t

Refusal(r) == IF r.status = "done" THEN "exists_done" ELSE "exists_processing"

\* The event loop of c's process is not inside the begin() of another task.
LoopFree(c) == \A d \in Callers \ {c} : ProcOf[d] = ProcOf[c] => task[d].pc \notin InBegin

Acquire(c) ==
    /\ task' = [task EXCEPT ![c].pc = "handler", ![c].got = NoRow]
    /\ answer' = [answer EXCEPT ![c] = "acquired"]

\* The guard returns None to its caller without running the handler.
Refuse(c, r) ==
    /\ task' = [task EXCEPT ![c] = Outside]
    /\ answer' = [answer EXCEPT ![c] = Refusal(r)]

Goto(c, label, r) ==
    /\ task' = [task EXCEPT ![c].pc = label, ![c].got = r]
    /\ UNCHANGED answer

Blame(k, why) == cause' = [cause EXCEPT ![k] = @ \cup why]

---------------------------------------------------------------------------------
(* begin()                                                                         *)

Begin(c, k) ==
    /\ task[c] = Outside
    /\ LoopFree(c)
    /\ task' = [task EXCEPT ![c] = [pc |-> "insert", key |-> k, ts |-> now, got |-> NoRow]]
    /\ answer' = [answer EXCEPT ![c] = "none"]
    /\ UNCHANGED <<now, row, victims, cause>>

\* INSERT OR IGNORE ... VALUES (key, 'processing', ts, ts + ttl), the first and the
\* second time; an sqlite3 error counts as "not inserted".
Insert(c) ==
    /\ task[c].pc \in {"insert", "insert2"}
    /\ LET k == task[c].key IN
       \/ /\ row[k] = NoRow
          /\ row' = [row EXCEPT ![k] = Fresh(task[c].ts)]
          /\ Acquire(c)
       \/ /\ row[k] # NoRow \/ DbFaults
          /\ Goto(c, IF task[c].pc = "insert" THEN "read" ELSE "read2", NoRow)
          /\ UNCHANGED row
    /\ UNCHANGED <<now, victims, cause>>

\* get(): a row sends begin() to its verdict, no row to the second insertion and, the
\* second time, to a "best effort" acquisition; an sqlite3 error counts as "no row".
Read(c) ==
    /\ task[c].pc \in {"read", "read2"}
    /\ LET k == task[c].key IN
       \/ /\ row[k] # NoRow
          /\ IF Reacquirable(row[k], task[c].ts)
             THEN Goto(c, "reacquire", row[k]) ELSE Refuse(c, row[k])
          /\ UNCHANGED cause
       \/ /\ row[k] = NoRow \/ DbFaults
          /\ \/ task[c].pc = "read"  /\ Goto(c, "insert2", NoRow) /\ UNCHANGED cause
             \/ task[c].pc = "read2" /\ Acquire(c) /\ Blame(k, {"blind"})
    /\ UNCHANGED <<now, row, victims>>

\* UPDATE ... SET status='processing', created_at=ts, expires_at=ts+ttl WHERE key=?
\* has no condition on the row it overwrites, and acquires even when it matches none.
Reacquire(c) ==
    /\ task[c].pc = "reacquire"
    /\ LET k == task[c].key IN
       /\ row' = [row EXCEPT ![k] = IF @ = NoRow THEN NoRow ELSE Fresh(task[c].ts)]
       /\ Blame(k, {w \in {"stale_clock"} : task[c].got.created > task[c].ts}
                     \cup {w \in {"lost_update"} : row[k] # task[c].got})
    /\ Acquire(c)
    /\ UNCHANGED <<now, victims>>

\* The UPDATE raises: begin() falls through to the status it read.
ReacquireFails(c) ==
    /\ task[c].pc = "reacquire"
    /\ DbFaults
    /\ Refuse(c, task[c].got)
    /\ UNCHANGED <<now, row, victims, cause>>

---------------------------------------------------------------------------------
(* with_idempotency around the handler                                             *)

Leave(c) ==
    /\ task[c].pc = "handler"
    /\ LoopFree(c)
    /\ task' = [task EXCEPT ![c] = Outside]
    /\ answer' = [answer EXCEPT ![c] = "none"]
    /\ UNCHANGED <<now, victims, cause>>

\* Mutant: the UPDATE has lost its AND status='processing'.
SettleAny(k, status) ==
    \/ row' = [row EXCEPT ![k].status = IF @ = "none" THEN @ ELSE status]
    \/ DbFaults /\ UNCHANGED row

\* UPDATE ... SET status=? WHERE key=? AND status='processing'; errors are swallowed.
Settle(k, status) ==
    \/ row' = [row EXCEPT ![k].status = IF @ = "processing" THEN status ELSE @]
    \/ DbFaults /\ UNCHANGED row

\* The handler returns: commit().
Return(c) == Leave(c) /\ Settle(task[c].key, "done")

\* The handler raises an Exception: fail().
Raise(c) == Leave(c) /\ Settle(task[c].key, "failed")

\* The handler is cancelled: CancelledError is no Exception, neither is called.
Cancelled(c) == Leave(c) /\ UNCHANGED row

---------------------------------------------------------------------------------
(* purge_expired(), the clock, and the death of a process                          *)

\* Mutant: the purge looks at created_at.
ExpiredByAge(k, t) == row[k] # NoRow /\ row[k].created < t

Expired(k, t) == row[k] # NoRow /\ row[k].expires <= t

PurgeSelect(p) ==
    /\ Purging
    /\ victims[p] = {}
    /\ victims' = [victims EXCEPT ![p] = {k \in Keys : Expired(k, now)}]
    /\ UNCHANGED <<now, row, task, answer, cause>>

\* DELETE ... WHERE key IN (...) does not look at expires_at again.
PurgeDelete(p) ==
    /\ victims[p] # {}
    /\ \/ /\ row' = [k \in Keys |-> IF k \in victims[p] THEN NoRow ELSE row[k]]
          /\ cause' = [k \in Keys |->
                         IF k \in victims[p] /\ row[k] # NoRow /\ ~Expired(k, now)
                         THEN cause[k] \cup {"purged_live"} ELSE cause[k]]
       \/ DbFaults /\ UNCHANGED <<row, cause>>
    /\ victims' = [victims EXCEPT ![p] = {}]
    /\ UNCHANGED <<now, task, answer>>

Tick ==
    /\ now < MaxTime
    /\ now' = now + 1
    /\ UNCHANGED <<row, task, answer, victims, cause>>

\* The process dies: its tasks and its purge vanish, the table stays.
Crash(p) ==
    /\ task' = [c \in Callers |-> IF ProcOf[c] = p THEN Outside ELSE task[c]]
    /\ answer' = [c \in Callers |-> IF ProcOf[c] = p THEN "none" ELSE answer[c]]
    /\ victims' = [victims EXCEPT ![p] = {}]
    /\ UNCHANGED <<now, row, cause>>

Next ==
    \/ \E c \in Callers, k \in Keys : Begin(c, k)
    \/ \E c \in Callers :
        \/ Insert(c) \/ Read(c) \/ Reacquire(c) \/ ReacquireFails(c)
        \/ Return(c) \/ Raise(c) \/ Cancelled(c)
    \/ \E p \in Procs : PurgeSelect(p) \/ PurgeDelete(p) \/ Crash(p)
    \/ Tick

Spec == Init /\ [][Next]_vars

---------------------------------------------------------------------------------
(* Properties                                                                      *)

\* c runs its handler under k and the lease it took on k has not run out.
Live(c, k) == task[c].pc = "handler" /\ task[c].key = k /\ now < task[c].ts + TTL

\* Two tasks work on one key within their leases only if one of the four accidents in
\* Causes happened to that key: begin() found no row twice, took a row younger than
\* its timestamp, overwrote a row that changed after it read it, or the purge deleted
\* a row that had been taken again after it was selected (begin(), purge_expired()).
LeaseExclusion ==
    \A k \in Keys : cause[k] = {} =>
        \A c, d \in Callers : Live(c, k) /\ Live(d, k) => c = d

\* Without such an accident the row of a key under a live lease is the holder's own,
\* so that its commit() or fail() settles its own row and nobody else's.
HolderOwnsRow ==
    \A k \in Keys : cause[k] = {} =>
        \A c \in Callers : Live(c, k) =>
            /\ row[k].status # "none"
            /\ row[k].created = task[c].ts
            /\ row[k].expires = task[c].ts + TTL

\* A settled row is never rewritten before it expires (a late commit or fail of an
\* earlier holder, a reacquisition, a purge), unless one of the accidents happened.
SettledStays ==
    [][\A k \in Keys :
        row[k].status \in {"done", "failed"} /\ now < row[k].expires /\ cause'[k] = {}
            => row'[k] = row[k]]_vars

\* One process, no database error: the purge job is the only source of accidents, so
\* idempotency can only break on a key whose row had expired.
OnlyPurgeBreaksExclusion ==
    \A k \in Keys : cause[k] \subseteq {"purged_live", "lost_update"}
=================================================================================
