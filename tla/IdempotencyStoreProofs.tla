------------------------- MODULE IdempotencyStoreProofs -------------------------
(* Proofs about IdempotencyStore for every set of callers, keys and processes,     *)
(* every TTL, with or without the purge job and database errors.                   *)
EXTENDS IdempotencyStore, TLAPS

(* What begin() remembers is sound: a timestamp is never in the future, and the    *)
(* row a task is about to reacquire is a row of the table that begin() found       *)
(* expired or younger than its timestamp.                                          *)
TasksSound ==
    \A c \in Callers :
        /\ task[c].ts <= now
        /\ task[c].pc = "reacquire" =>
               /\ task[c].got # NoRow
               /\ Reacquirable(task[c].got, task[c].ts)

\* The inductive invariant behind LeaseExclusion.
ExclusionInv == TypeOK /\ TasksSound /\ HolderOwnsRow /\ LeaseExclusion

LEMMA InitExclusion == Init => ExclusionInv
<1> SUFFICES ASSUME Init PROVE ExclusionInv
  OBVIOUS
<1> USE StoreAssumption
<1>1. TypeOK
  BY DEF Init, TypeOK, Tasks, Outside, NoRow, Rows, Answers
<1>2. TasksSound
  <2> USE DEF TasksSound
  <2> TAKE c \in Callers
  <2>1. task[c] = Outside /\ now = 0
    BY DEF Init
  <2> QED BY <2>1 DEF Outside
<1>3. HolderOwnsRow /\ LeaseExclusion
  BY DEF Init, HolderOwnsRow, LeaseExclusion, Live, Outside
<1> QED BY <1>1, <1>2, <1>3 DEF ExclusionInv

(* A task that moves to a statement of begin() or to its handler keeps its type.    *)
LEMMA MoveTask ==
    ASSUME TypeOK, NEW c \in Callers, task[c].pc # "idle",
           NEW label \in InBegin \cup {"handler"}, NEW r \in Rows,
           task' = [task EXCEPT ![c].pc = label, ![c].got = r]
    PROVE  /\ task' \in [Callers -> Tasks]
           /\ \A d \in Callers : task'[d].pc # "idle" => task'[d].key \in Keys
<1>1. task[c] \in Tasks /\ task[c].key \in Keys
  BY DEF TypeOK
<1>2. task'[c] \in Tasks /\ task'[c].key \in Keys
  BY <1>1 DEF TypeOK, Tasks
<1>3. \A d \in Callers \ {c} : task'[d] = task[d]
  BY DEF TypeOK
<1> QED BY <1>2, <1>3 DEF TypeOK

(* So does a task that leaves with_idempotency.                                    *)
LEMMA DropTask ==
    ASSUME TypeOK, NEW c \in Callers, task' = [task EXCEPT ![c] = Outside]
    PROVE  /\ task' \in [Callers -> Tasks]
           /\ \A d \in Callers : task'[d].pc # "idle" => task'[d].key \in Keys
<1>1. Outside \in Tasks /\ Outside.pc = "idle"
  BY DEF Outside, Tasks, NoRow, Rows
<1> QED BY <1>1 DEF TypeOK

(* commit() and fail() keep the timestamps of every row, and keep every row.       *)
LEMMA SettleRow ==
    ASSUME TypeOK, NEW k \in Keys, NEW s \in {"done", "failed"}, Settle(k, s)
    PROVE  /\ row' \in [Keys -> Rows]
           /\ \A j \in Keys :
                /\ row'[j].created = row[j].created
                /\ row'[j].expires = row[j].expires
                /\ row[j].status # "none" => row'[j].status # "none"
                /\ row[j].status # "processing" => row'[j] = row[j]
<1>1. CASE UNCHANGED row
  BY <1>1 DEF TypeOK
<1>2. CASE row' = [row EXCEPT ![k].status = IF @ = "processing" THEN s ELSE @]
  <2>1. row[k] \in Rows
    BY DEF TypeOK
  <2>2. /\ row'[k] = [row[k] EXCEPT !.status = IF @ = "processing" THEN s ELSE @]
        /\ \A j \in Keys \ {k} : row'[j] = row[j]
    BY <1>2 DEF TypeOK
  <2>3. /\ row'[k] \in Rows
        /\ row'[k].created = row[k].created
        /\ row'[k].expires = row[k].expires
        /\ row[k].status # "none" => row'[k].status # "none"
        /\ row[k].status # "processing" => row'[k] = row[k]
    BY <2>1, <2>2 DEF Rows
  <2>4. row' = [j \in Keys |-> row'[j]]
    BY <1>2 DEF TypeOK
  <2> QED BY <2>2, <2>3, <2>4 DEF TypeOK
<1> QED BY <1>1, <1>2 DEF Settle

(* Every variable keeps its type.                                                  *)
LEMMA TypeStep == TypeOK /\ [Next]_vars => TypeOK'
<1> SUFFICES ASSUME TypeOK, [Next]_vars PROVE TypeOK'
  OBVIOUS
<1> USE StoreAssumption
<1>0. NoRow \in Rows /\ \A t \in Nat : Fresh(t) \in Rows
  BY DEF NoRow, Fresh, Rows
<1>1. ASSUME NEW c \in Callers, NEW k \in Keys, Begin(c, k) PROVE TypeOK'
  <2> DEFINE start == [pc |-> "insert", key |-> k, ts |-> now, got |-> NoRow]
  <2>1. start \in Tasks
    BY <1>0 DEF Tasks, InBegin, TypeOK
  <2>2. task' = [task EXCEPT ![c] = start]
    BY <1>1 DEF Begin
  <2>3. /\ task' \in [Callers -> Tasks]
        /\ \A d \in Callers : task'[d].pc # "idle" => task'[d].key \in Keys
    BY <2>1, <2>2 DEF TypeOK
  <2> QED BY <1>1, <2>3 DEF Begin, TypeOK, Answers
<1>2. ASSUME NEW c \in Callers, Insert(c) PROVE TypeOK'
  <2>1. /\ task' \in [Callers -> Tasks]
        /\ \A d \in Callers : task'[d].pc # "idle" => task'[d].key \in Keys
    BY <1>0, <1>2, MoveTask DEF Insert, Acquire, Goto, InBegin
  <2>2. task[c].ts \in Nat
    BY DEF TypeOK, Tasks
  <2> QED BY <1>0, <1>2, <2>1, <2>2 DEF Insert, Acquire, Goto, TypeOK, Answers
<1>3. ASSUME NEW c \in Callers, Read(c) PROVE TypeOK'
  <2>1. task[c].pc # "idle" /\ task[c].key \in Keys
    BY <1>3 DEF Read, TypeOK
  <2>2. row[task[c].key] \in Rows
    BY <2>1 DEF TypeOK
  <2>3. /\ task' \in [Callers -> Tasks]
        /\ \A d \in Callers : task'[d].pc # "idle" => task'[d].key \in Keys
    BY <1>0, <1>3, <2>1, <2>2, MoveTask, DropTask DEF Read, Acquire, Goto, Refuse, InBegin
  <2>4. answer' \in [Callers -> Answers]
    BY <1>3 DEF Read, Acquire, Goto, Refuse, Refusal, TypeOK, Answers
  <2>5. cause' \in [Keys -> SUBSET Causes]
    BY <1>3 DEF Read, Blame, Causes, TypeOK
  <2> QED BY <1>3, <2>3, <2>4, <2>5 DEF Read, TypeOK
<1>4. ASSUME NEW c \in Callers, Reacquire(c) PROVE TypeOK'
  <2>1. /\ task' \in [Callers -> Tasks]
        /\ \A d \in Callers : task'[d].pc # "idle" => task'[d].key \in Keys
    BY <1>0, <1>4, MoveTask DEF Reacquire, Acquire
  <2>2. task[c].ts \in Nat
    BY DEF TypeOK, Tasks
  <2>3. row' \in [Keys -> Rows]
    BY <1>0, <1>4, <2>2 DEF Reacquire, TypeOK
  <2>4. cause' \in [Keys -> SUBSET Causes]
    BY <1>4 DEF Reacquire, Blame, Causes, TypeOK
  <2> QED BY <1>4, <2>1, <2>3, <2>4 DEF Reacquire, Acquire, TypeOK, Answers
<1>5. ASSUME NEW c \in Callers, ReacquireFails(c) PROVE TypeOK'
  <2>1. answer' \in [Callers -> Answers]
    BY <1>5 DEF ReacquireFails, Refuse, Refusal, TypeOK, Answers
  <2> QED BY <1>5, <2>1, DropTask DEF ReacquireFails, Refuse, TypeOK
<1>6. ASSUME NEW c \in Callers, Return(c) \/ Raise(c) \/ Cancelled(c) PROVE TypeOK'
  <2>1. row' \in [Keys -> Rows]
    BY <1>6, SettleRow DEF Return, Raise, Cancelled, Leave, TypeOK
  <2> QED BY <1>6, <2>1, DropTask DEF Return, Raise, Cancelled, Leave, TypeOK, Answers
<1>7. ASSUME NEW p \in Procs, PurgeSelect(p) PROVE TypeOK'
  BY <1>7 DEF PurgeSelect, TypeOK
<1>8. ASSUME NEW p \in Procs, PurgeDelete(p) PROVE TypeOK'
  BY <1>0, <1>8 DEF PurgeDelete, Causes, TypeOK
<1>9. ASSUME NEW p \in Procs, Crash(p) PROVE TypeOK'
  <2>1. Outside \in Tasks /\ Outside.pc = "idle"
    BY <1>0 DEF Outside, Tasks
  <2> QED BY <1>9, <2>1 DEF Crash, TypeOK, Answers
<1>10. ASSUME Tick PROVE TypeOK'
  BY <1>10 DEF Tick, TypeOK
<1>11. ASSUME UNCHANGED vars PROVE TypeOK'
  BY <1>11 DEF vars, TypeOK
<1> QED BY <1>1, <1>2, <1>3, <1>4, <1>5, <1>6, <1>7, <1>8, <1>9, <1>10, <1>11 DEF Next

THEOREM TypeCorrect == Spec => []TypeOK
<1>1. Init => TypeOK
  BY InitExclusion DEF ExclusionInv
<1>2. TypeOK /\ [Next]_vars => TypeOK'
  BY TypeStep
<1> QED BY <1>1, <1>2, PTL DEF Spec

---------------------------------------------------------------------------------
(* LeaseExclusion                                                                  *)

(* Tasks other than the one that moves do not matter to TasksSound: time only      *)
(* passes.                                                                         *)
LEMMA SoundStep == TypeOK /\ TypeOK' /\ TasksSound /\ [Next]_vars => TasksSound'
<1> SUFFICES ASSUME TypeOK, TypeOK', TasksSound, [Next]_vars, NEW d \in Callers
             PROVE  /\ task'[d].ts <= now'
                    /\ task'[d].pc = "reacquire" =>
                         /\ task'[d].got # NoRow
                         /\ Reacquirable(task'[d].got, task'[d].ts)
  BY DEF TasksSound, Reacquirable
<1> DEFINE Sound == /\ task'[d].ts <= now'
                    /\ task'[d].pc = "reacquire" =>
                         /\ task'[d].got # NoRow
                         /\ Reacquirable(task'[d].got, task'[d].ts)
<1>0. /\ now \in Nat /\ now' \in Nat /\ now <= now'
      /\ task[d] \in Tasks /\ task[d].ts \in Nat
  BY DEF Next, vars, Begin, Insert, Read, Reacquire, ReacquireFails, Return, Raise, Cancelled,
         Leave, PurgeSelect, PurgeDelete, Crash, Tick, TypeOK, Tasks
<1>1. CASE task'[d] = task[d]
  BY <1>0, <1>1 DEF TasksSound
<1>2. CASE task'[d] = Outside
  BY <1>0, <1>2 DEF Outside
<1>3. ASSUME NEW k \in Keys, Begin(d, k) PROVE Sound
  BY <1>0, <1>3 DEF Begin, TypeOK
<1>4. ASSUME Insert(d) PROVE Sound
  BY <1>0, <1>4 DEF Insert, Acquire, Goto, TypeOK, TasksSound, Tasks
<1>5. ASSUME Read(d) PROVE Sound
  <2>1. CASE Refuse(d, row[task[d].key])
    BY <2>1, <1>2 DEF Refuse, TypeOK
  <2>2. CASE row[task[d].key] # NoRow /\ Reacquirable(row[task[d].key], task[d].ts)
              /\ Goto(d, "reacquire", row[task[d].key])
    BY <1>0, <1>5, <2>2 DEF Read, Goto, TypeOK, TasksSound, Tasks
  <2>3. CASE Goto(d, "insert2", NoRow) \/ Acquire(d)
    BY <1>0, <1>5, <2>3 DEF Read, Goto, Acquire, TypeOK, TasksSound, Tasks
  <2> QED BY <1>5, <2>1, <2>2, <2>3 DEF Read
<1>6. ASSUME Reacquire(d) PROVE Sound
  BY <1>0, <1>6 DEF Reacquire, Acquire, TypeOK, TasksSound, Tasks
<1>7. ASSUME ReacquireFails(d) \/ Return(d) \/ Raise(d) \/ Cancelled(d) PROVE Sound
  BY <1>7, <1>2 DEF ReacquireFails, Refuse, Return, Raise, Cancelled, Leave, TypeOK
<1>8. ASSUME NEW p \in Procs, PurgeSelect(p) \/ PurgeDelete(p) \/ Crash(p) PROVE Sound
  BY <1>8, <1>1, <1>2 DEF PurgeSelect, PurgeDelete, Crash
<1>9. ASSUME NEW c \in Callers \ {d}, NEW k \in Keys,
             \/ Begin(c, k) \/ Insert(c) \/ Read(c) \/ Reacquire(c) \/ ReacquireFails(c)
             \/ Return(c) \/ Raise(c) \/ Cancelled(c)
      PROVE  task'[d] = task[d]
  BY <1>9 DEF Begin, Insert, Read, Reacquire, ReacquireFails, Return, Raise, Cancelled, Leave,
              Acquire, Refuse, Goto, TypeOK
<1>10. CASE Tick \/ UNCHANGED vars
  BY <1>10, <1>1 DEF Tick, vars
<1>11. CASE \E c \in Callers :
              \/ \E k \in Keys : Begin(c, k)
              \/ Insert(c) \/ Read(c) \/ Reacquire(c) \/ ReacquireFails(c)
              \/ Return(c) \/ Raise(c) \/ Cancelled(c)
  <2> PICK c \in Callers :
              \/ \E k \in Keys : Begin(c, k)
              \/ Insert(c) \/ Read(c) \/ Reacquire(c) \/ ReacquireFails(c)
              \/ Return(c) \/ Raise(c) \/ Cancelled(c)
    BY <1>11
  <2>1. CASE c = d
    BY <1>3, <1>4, <1>5, <1>6, <1>7, <2>1
  <2>2. CASE c # d
    <3>1. CASE \E k \in Keys : Begin(c, k)
      BY <1>1, <1>9, <2>2, <3>1
    <3>2. CASE \/ Insert(c) \/ Read(c) \/ Reacquire(c) \/ ReacquireFails(c)
               \/ Return(c) \/ Raise(c) \/ Cancelled(c)
      <4>1. PICK k : k \in Keys
        BY <3>2 DEF Insert, Read, Reacquire, ReacquireFails, Return, Raise, Cancelled, Leave,
                    TypeOK
      <4> QED BY <1>1, <1>9, <2>2, <3>2, <4>1
    <3> QED BY <3>1, <3>2
  <2> QED BY <2>1, <2>2
<1> QED BY <1>8, <1>10, <1>11 DEF Next

\* The row of k carries the lease c took.
Own(c, k) ==
    /\ row[k].status # "none"
    /\ row[k].created = task[c].ts
    /\ row[k].expires = task[c].ts + TTL

(* The two invariants of one key.                                                  *)
KeyInv(k) ==
    cause[k] = {} =>
        /\ \A c \in Callers : Live(c, k) => Own(c, k)
        /\ \A c, d \in Callers : Live(c, k) /\ Live(d, k) => c = d

(* A step by which nobody becomes a holder of k, and which leaves the row of k as   *)
(* it is while somebody holds k, keeps them.                                       *)
LEMMA KeepKey ==
    ASSUME NEW k \in Keys, KeyInv(k), cause[k] \subseteq cause'[k],
           \A d \in Callers : Live(d, k)' => Live(d, k) /\ task'[d] = task[d],
           \A d \in Callers : Live(d, k)' /\ cause'[k] = {} =>
               /\ row[k].status # "none" => row'[k].status # "none"
               /\ row'[k].created = row[k].created
               /\ row'[k].expires = row[k].expires
    PROVE  KeyInv(k)'
<1> SUFFICES ASSUME cause'[k] = {}
             PROVE  /\ \A c \in Callers : Live(c, k)' => Own(c, k)'
                    /\ \A c, d \in Callers : Live(c, k)' /\ Live(d, k)' => c = d
  BY DEF KeyInv
<1>1. cause[k] = {}
  OBVIOUS
<1>2. \A c \in Callers : Live(c, k)' => Own(c, k)'
  BY <1>1 DEF KeyInv, Own
<1> QED BY <1>1, <1>2 DEF KeyInv

(* A step by which c becomes a holder of k, when nobody else holds it afterwards    *)
(* and the row is c's, keeps them too.                                             *)
LEMMA TakeKey ==
    ASSUME NEW k \in Keys, NEW c \in Callers,
           cause'[k] = {} => Own(c, k)' /\ \A d \in Callers \ {c} : ~Live(d, k)'
    PROVE  KeyInv(k)'
BY DEF KeyInv

LEMMA KeyStep ==
    ASSUME TypeOK, TypeOK', TasksSound, [Next]_vars, NEW k \in Keys, KeyInv(k)
    PROVE  KeyInv(k)'
<1> USE StoreAssumption
<1>0. now \in Nat /\ row[k] \in Rows /\ \A c \in Callers : task[c].ts \in Nat
  BY DEF TypeOK, Tasks
<1>1. ASSUME NEW c \in Callers, NEW j \in Keys, Begin(c, j) PROVE KeyInv(k)'
  <2>1. /\ task'[c].pc = "insert"
        /\ \A d \in Callers \ {c} : task'[d] = task[d]
        /\ UNCHANGED <<now, row, cause>>
    BY <1>1 DEF Begin, TypeOK
  <2> QED BY <2>1, KeepKey DEF Live
<1>2. ASSUME NEW c \in Callers, Insert(c) PROVE KeyInv(k)'
  <2>1. CASE row[task[c].key] = NoRow /\ row' = [row EXCEPT ![task[c].key] = Fresh(task[c].ts)]
             /\ Acquire(c) /\ task[c].key = k
    <3>1. cause[k] = {} => \A d \in Callers : ~Live(d, k)
      BY <2>1 DEF KeyInv, Own, NoRow
    <3>2. /\ task'[c].ts = task[c].ts /\ row'[k] = Fresh(task[c].ts)
          /\ \A d \in Callers \ {c} : task'[d] = task[d]
      BY <2>1 DEF Acquire, TypeOK, Tasks
    <3>3. Own(c, k)'
      BY <3>2, <1>0 DEF Own, Fresh
    <3>4. now' = now /\ cause' = cause
      BY <1>2 DEF Insert
    <3> QED BY <3>1, <3>2, <3>3, <3>4, TakeKey DEF Live
  <2>2. CASE row[task[c].key] = NoRow /\ row' = [row EXCEPT ![task[c].key] = Fresh(task[c].ts)]
             /\ Acquire(c) /\ task[c].key # k
    <3>1. /\ task'[c].key # k /\ row'[k] = row[k]
          /\ \A d \in Callers \ {c} : task'[d] = task[d]
      BY <2>2 DEF Acquire, TypeOK, Tasks
    <3> QED BY <1>2, <3>1, KeepKey DEF Insert, Live
  <2>3. CASE Goto(c, IF task[c].pc = "insert" THEN "read" ELSE "read2", NoRow) /\ UNCHANGED row
    <3>1. /\ task'[c].pc # "handler"
          /\ \A d \in Callers \ {c} : task'[d] = task[d]
      BY <2>3 DEF Goto, TypeOK, Tasks
    <3> QED BY <1>2, <2>3, <3>1, KeepKey DEF Insert, Live
  <2> QED BY <1>2, <2>1, <2>2, <2>3 DEF Insert
<1>3. ASSUME NEW c \in Callers, Read(c) PROVE KeyInv(k)'
  <2>1. CASE Acquire(c) /\ Blame(task[c].key, {"blind"})
    <3>1. task[c].key \in Keys
      BY <1>3 DEF Read, TypeOK
    <3>2. CASE task[c].key = k
      <4>1. cause'[k] # {}
        BY <2>1, <3>2 DEF Blame, TypeOK
      <4> QED BY <4>1 DEF KeyInv
    <3>3. CASE task[c].key # k
      <4>1. /\ task'[c].key # k /\ cause'[k] = cause[k]
            /\ \A d \in Callers \ {c} : task'[d] = task[d]
        BY <2>1, <3>3 DEF Acquire, Blame, TypeOK, Tasks
      <4> QED BY <1>3, <4>1, KeepKey DEF Read, Live
    <3> QED BY <3>2, <3>3
  <2>2. CASE UNCHANGED cause /\ (\/ Goto(c, "insert2", NoRow)
                                 \/ Goto(c, "reacquire", row[task[c].key])
                                 \/ Refuse(c, row[task[c].key]))
    <3>1. /\ task'[c].pc # "handler"
          /\ \A d \in Callers \ {c} : task'[d] = task[d]
      BY <2>2 DEF Goto, Refuse, Outside, TypeOK, Tasks
    <3> QED BY <1>3, <2>2, <3>1, KeepKey DEF Read, Live
  <2> QED BY <1>3, <2>1, <2>2 DEF Read
<1>4. ASSUME NEW c \in Callers, Reacquire(c) PROVE KeyInv(k)'
  <2>1. /\ task'[c].ts = task[c].ts /\ task'[c].key = task[c].key /\ now' = now
        /\ \A d \in Callers \ {c} : task'[d] = task[d]
    BY <1>4 DEF Reacquire, Acquire, TypeOK, Tasks
  <2>2. CASE task[c].key # k
    <3>1. row'[k] = row[k] /\ cause'[k] = cause[k]
      BY <1>4, <2>2 DEF Reacquire, Blame, TypeOK
    <3> QED BY <2>1, <2>2, <3>1, KeepKey DEF Live
  <2>3. CASE task[c].key = k
    <3> SUFFICES ASSUME cause'[k] = {}
                 PROVE  Own(c, k)' /\ \A d \in Callers \ {c} : ~Live(d, k)'
      BY TakeKey
    <3>1. cause[k] = {} /\ row[k] = task[c].got /\ ~(task[c].got.created > task[c].ts)
      BY <1>4, <2>3 DEF Reacquire, Blame, TypeOK
    <3>2. row[k] # NoRow /\ row[k].expires <= now
      <4>1. task[c].got.expires <= task[c].ts /\ task[c].ts <= now /\ task[c].got # NoRow
        BY <1>4, <3>1 DEF Reacquire, TasksSound, Reacquirable
      <4> QED BY <4>1, <3>1, <1>0 DEF Rows
    <3>3. row'[k] = Fresh(task[c].ts)
      BY <1>4, <2>3, <3>2 DEF Reacquire, TypeOK
    <3>4. Own(c, k)'
      BY <3>3, <2>1, <1>0 DEF Own, Fresh
    <3>5. \A d \in Callers : ~Live(d, k)
      BY <3>1, <3>2, <1>0 DEF KeyInv, Own, Live, Rows
    <3> QED BY <3>4, <3>5, <2>1 DEF Live
  <2> QED BY <2>2, <2>3
<1>5. ASSUME NEW c \in Callers, ReacquireFails(c) PROVE KeyInv(k)'
  <2>1. /\ task'[c].pc # "handler"
        /\ \A d \in Callers \ {c} : task'[d] = task[d]
    BY <1>5 DEF ReacquireFails, Refuse, Outside, TypeOK
  <2> QED BY <1>5, <2>1, KeepKey DEF ReacquireFails, Live
<1>6. ASSUME NEW c \in Callers, Return(c) \/ Raise(c) \/ Cancelled(c) PROVE KeyInv(k)'
  <2>1. /\ task'[c].pc # "handler"
        /\ \A d \in Callers \ {c} : task'[d] = task[d]
        /\ now' = now /\ cause' = cause
    BY <1>6 DEF Return, Raise, Cancelled, Leave, Outside, TypeOK
  <2>2. /\ row[k].status # "none" => row'[k].status # "none"
        /\ row'[k].created = row[k].created
        /\ row'[k].expires = row[k].expires
    <3>1. CASE Return(c) \/ Raise(c)
      <4>1. task[c].key \in Keys
        BY <3>1 DEF Return, Raise, Leave, TypeOK
      <4> QED BY <3>1, <4>1, SettleRow DEF Return, Raise
    <3>2. CASE Cancelled(c)
      BY <3>2 DEF Cancelled
    <3> QED BY <1>6, <3>1, <3>2
  <2> QED BY <2>1, <2>2, KeepKey DEF Live
<1>7. ASSUME NEW p \in Procs, PurgeSelect(p) PROVE KeyInv(k)'
  BY <1>7, KeepKey DEF PurgeSelect, Live
<1>8. ASSUME NEW p \in Procs, PurgeDelete(p) PROVE KeyInv(k)'
  <2>1. CASE UNCHANGED <<row, cause>>
    BY <1>8, <2>1, KeepKey DEF PurgeDelete, Live
  <2>2. CASE row'[k] = row[k] /\ cause'[k] = cause[k]
    BY <1>8, <2>2, KeepKey DEF PurgeDelete, Live
  <2>3. CASE k \in victims[p] /\ row[k] # NoRow /\ ~Expired(k, now)
              /\ cause'[k] = cause[k] \cup {"purged_live"}
    BY <2>3 DEF KeyInv
  <2>4. CASE row[k] # NoRow /\ Expired(k, now) /\ cause'[k] = cause[k]
    <3>1. cause[k] = {} => \A d \in Callers : ~Live(d, k)
      BY <2>4, <1>0 DEF KeyInv, Own, Live, Expired, Rows
    <3> QED BY <1>8, <2>4, <3>1 DEF PurgeDelete, KeyInv, Live
  <2> QED BY <1>8, <2>1, <2>2, <2>3, <2>4 DEF PurgeDelete, TypeOK
<1>9. ASSUME NEW p \in Procs, Crash(p) PROVE KeyInv(k)'
  <2>1. \A d \in Callers : task'[d] = task[d] \/ task'[d].pc # "handler"
    BY <1>9 DEF Crash, Outside, TypeOK
  <2> QED BY <1>9, <2>1, KeepKey DEF Crash, Live
<1>10. ASSUME Tick PROVE KeyInv(k)'
  <2>1. now' = now + 1 /\ UNCHANGED <<row, task, cause>>
    BY <1>10 DEF Tick
  <2>2. \A d \in Callers : Live(d, k)' => Live(d, k)
    BY <2>1, <1>0 DEF Live
  <2> QED BY <2>1, <2>2, KeepKey
<1>11. ASSUME UNCHANGED vars PROVE KeyInv(k)'
  BY <1>11, KeepKey DEF vars, Live
<1> QED BY <1>1, <1>2, <1>3, <1>4, <1>5, <1>6, <1>7, <1>8, <1>9, <1>10, <1>11 DEF Next

(* Two live leases on one key need one of the four accidents, and without one the   *)
(* holder's row is its own (begin(), commit(), fail(), purge_expired()).           *)
THEOREM ExclusionHolds == Spec => [](LeaseExclusion /\ HolderOwnsRow)
<1>1. Init => ExclusionInv
  BY InitExclusion
<1>2. ExclusionInv /\ [Next]_vars => ExclusionInv'
  <2> SUFFICES ASSUME ExclusionInv, [Next]_vars PROVE ExclusionInv'
    OBVIOUS
  <2>1. TypeOK' /\ TasksSound'
    BY TypeStep, SoundStep DEF ExclusionInv
  <2>2. \A k \in Keys : KeyInv(k)
    BY DEF ExclusionInv, HolderOwnsRow, LeaseExclusion, KeyInv, Own
  <2>3. \A k \in Keys : KeyInv(k)'
    BY <2>1, <2>2, KeyStep DEF ExclusionInv
  <2> QED BY <2>1, <2>3 DEF ExclusionInv, HolderOwnsRow, LeaseExclusion, KeyInv, Own
<1>3. ExclusionInv => LeaseExclusion /\ HolderOwnsRow
  BY DEF ExclusionInv
<1> QED BY <1>1, <1>2, <1>3, PTL DEF Spec

(* The row a holder settles is the one it took, unless an accident happened to its  *)
(* key (commit(), fail()).                                                         *)
THEOREM HolderKeepsRow == Spec => []HolderOwnsRow
BY ExclusionHolds, PTL

---------------------------------------------------------------------------------
(* The deployed configuration: one server process, no database error.             *)

OneLoop == ~DbFaults /\ \A c, d \in Callers : ProcOf[c] = ProcOf[d]

(* At most one task is inside begin(), no row is younger than its timestamp, and    *)
(* once it has found no row there is none until it inserts its own.                *)
SoloInv ==
    /\ \A c, d \in Callers : task[c].pc \in InBegin /\ task[d].pc \in InBegin => c = d
    /\ \A k \in Keys : row[k].created <= now
    /\ \A c \in Callers :
        /\ task[c].pc \in InBegin => \A k \in Keys : row[k].created <= task[c].ts
        /\ task[c].pc = "reacquire" => task[c].got.created <= task[c].ts
        /\ task[c].pc = "insert2" => row[task[c].key] = NoRow
        /\ task[c].pc # "read2"
    /\ OnlyPurgeBreaksExclusion

\* SoloInv but for its last conjunct, for a step that moves c and leaves the others.
LEMMA SoloOthers ==
    ASSUME TypeOK, TypeOK', SoloInv, NEW c \in Callers, now' = now, cause' = cause,
           \A d \in Callers \ {c} : task'[d] = task[d],
           \A d \in Callers \ {c} : task'[d].pc \notin InBegin,
           \A k \in Keys : row'[k].created <= now,
           task'[c].pc \in InBegin => \A k \in Keys : row'[k].created <= task'[c].ts,
           task'[c].pc = "reacquire" => task'[c].got.created <= task'[c].ts,
           task'[c].pc = "insert2" => row'[task'[c].key] = NoRow,
           task'[c].pc # "read2"
    PROVE  SoloInv'
<1>1. \A d \in Callers \ {c} : task'[d].pc \notin {"reacquire", "insert2", "read2"}
  BY DEF InBegin
<1> QED BY <1>1 DEF SoloInv, OnlyPurgeBreaksExclusion

LEMMA SoloStep == OneLoop /\ TypeOK /\ TypeOK' /\ TasksSound /\ SoloInv /\ [Next]_vars => SoloInv'
<1> SUFFICES ASSUME OneLoop, TypeOK, TypeOK', TasksSound, SoloInv, [Next]_vars PROVE SoloInv'
  OBVIOUS
<1> USE StoreAssumption
<1>0. /\ now \in Nat /\ \A c \in Callers : task[c].ts \in Nat /\ task[c].ts <= now
      /\ \A k \in Keys : row[k].created \in Nat
      /\ \A c \in Callers : task[c].pc \in InBegin =>
             \A d \in Callers \ {c} : task[d].pc \notin InBegin
  BY DEF TypeOK, Tasks, Rows, TasksSound, SoloInv
<1>1. ASSUME NEW c \in Callers, NEW k \in Keys, Begin(c, k) PROVE SoloInv'
  <2>1. /\ task'[c].pc = "insert" /\ task'[c].ts = now
        /\ \A d \in Callers \ {c} : task'[d] = task[d]
    BY <1>1 DEF Begin, TypeOK
  <2>2. \A d \in Callers \ {c} : task[d].pc \notin InBegin
    BY <1>1 DEF Begin, LoopFree, OneLoop
  <2> QED BY <1>1, <2>1, <2>2, SoloOthers DEF Begin, SoloInv
<1>2. ASSUME NEW c \in Callers, Insert(c) PROVE SoloInv'
  <2>0. task[c].pc \in InBegin /\ task[c].key \in Keys
    BY <1>2 DEF Insert, InBegin, TypeOK
  <2>1. CASE row[task[c].key] = NoRow /\ row' = [row EXCEPT ![task[c].key] = Fresh(task[c].ts)]
             /\ Acquire(c)
    <3>1. task'[c].pc = "handler" /\ \A d \in Callers \ {c} : task'[d] = task[d]
      BY <2>1 DEF Acquire, TypeOK, Tasks
    <3>2. \A k \in Keys : row'[k].created <= now
      BY <1>0, <2>1, <2>0 DEF Fresh, SoloInv, TypeOK
    <3> QED BY <1>0, <1>2, <2>0, <3>1, <3>2, SoloOthers DEF Insert, InBegin
  <2>2. CASE row[task[c].key] # NoRow /\ UNCHANGED row
             /\ Goto(c, IF task[c].pc = "insert" THEN "read" ELSE "read2", NoRow)
    <3>1. task[c].pc = "insert"
      BY <1>2, <2>2 DEF Insert, SoloInv
    <3>2. /\ task'[c].pc = "read" /\ task'[c].ts = task[c].ts
          /\ \A d \in Callers \ {c} : task'[d] = task[d]
      BY <2>2, <3>1 DEF Goto, TypeOK, Tasks
    <3> QED BY <1>0, <1>2, <2>0, <2>2, <3>2, SoloOthers DEF Insert, SoloInv
  <2> QED BY <1>2, <2>1, <2>2 DEF Insert, OneLoop
<1>3. ASSUME NEW c \in Callers, Read(c) PROVE SoloInv'
  <2>0. task[c].pc = "read" /\ task[c].pc \in InBegin /\ task[c].key \in Keys
    BY <1>3 DEF Read, SoloInv, InBegin, TypeOK
  <2>1. CASE Goto(c, "reacquire", row[task[c].key]) /\ UNCHANGED cause
    <3>1. /\ task'[c].pc = "reacquire" /\ task'[c].ts = task[c].ts
          /\ task'[c].got = row[task[c].key]
          /\ \A d \in Callers \ {c} : task'[d] = task[d]
      BY <2>1 DEF Goto, TypeOK, Tasks
    <3> QED BY <1>0, <1>3, <2>0, <2>1, <3>1, SoloOthers DEF Read, SoloInv
  <2>2. CASE Refuse(c, row[task[c].key]) /\ UNCHANGED cause
    <3>1. task'[c].pc = "idle" /\ \A d \in Callers \ {c} : task'[d] = task[d]
      BY <2>2 DEF Refuse, Outside, TypeOK
    <3> QED BY <1>0, <1>3, <2>0, <2>2, <3>1, SoloOthers DEF Read, SoloInv, InBegin
  <2>3. CASE row[task[c].key] = NoRow /\ Goto(c, "insert2", NoRow) /\ UNCHANGED cause
    <3>1. /\ task'[c].pc = "insert2" /\ task'[c].ts = task[c].ts
          /\ task'[c].key = task[c].key
          /\ \A d \in Callers \ {c} : task'[d] = task[d]
      BY <2>3 DEF Goto, TypeOK, Tasks
    <3> QED BY <1>0, <1>3, <2>0, <2>3, <3>1, SoloOthers DEF Read, SoloInv
  <2> QED BY <1>3, <2>0, <2>1, <2>2, <2>3 DEF Read, OneLoop
<1>4. ASSUME NEW c \in Callers, Reacquire(c) PROVE SoloInv'
  <2>0. task[c].pc \in InBegin /\ task[c].key \in Keys
    BY <1>4 DEF Reacquire, InBegin, TypeOK
  <2>1. task'[c].pc = "handler" /\ \A d \in Callers \ {c} : task'[d] = task[d]
    BY <1>4 DEF Reacquire, Acquire, TypeOK, Tasks
  <2>2. \A k \in Keys : row'[k].created <= now
    BY <1>0, <1>4, <2>0 DEF Reacquire, Fresh, NoRow, SoloInv, TypeOK
  <2>3. OnlyPurgeBreaksExclusion'
    <3>1. ~(task[c].got.created > task[c].ts)
      <4>1. task[c].got.created \in Nat /\ task[c].got.created <= task[c].ts
        BY <1>4 DEF Reacquire, SoloInv, TypeOK, Tasks, Rows
      <4> QED BY <4>1, <1>0
    <3>2. \A k \in Keys : cause'[k] \subseteq cause[k] \cup {"lost_update"}
      BY <1>4, <3>1 DEF Reacquire, Blame, TypeOK
    <3> QED BY <3>2 DEF SoloInv, OnlyPurgeBreaksExclusion
  <2>4. \A d \in Callers : task'[d].pc \notin InBegin
    BY <1>0, <2>0, <2>1 DEF InBegin
  <2>5. now' = now
    BY <1>4 DEF Reacquire
  <2> QED BY <2>2, <2>3, <2>4, <2>5 DEF SoloInv, InBegin
<1>5. ASSUME NEW c \in Callers, Return(c) \/ Raise(c) \/ Cancelled(c) PROVE SoloInv'
  <2>0. task[c].key \in Keys
    BY <1>5 DEF Return, Raise, Cancelled, Leave, TypeOK
  <2>1. /\ task'[c].pc = "idle" /\ now' = now /\ cause' = cause
        /\ \A d \in Callers \ {c} : task'[d] = task[d] /\ task'[d].pc \notin InBegin
    BY <1>5 DEF Return, Raise, Cancelled, Leave, LoopFree, OneLoop, Outside, TypeOK
  <2>2. \A k \in Keys : row'[k].created = row[k].created
    BY <1>5, <2>0, SettleRow DEF Return, Raise, Cancelled
  <2> QED BY <2>1, <2>2, SoloOthers DEF SoloInv, InBegin
<1>6. ASSUME NEW p \in Procs, PurgeSelect(p) PROVE SoloInv'
  BY <1>6 DEF PurgeSelect, SoloInv, OnlyPurgeBreaksExclusion
<1>7. ASSUME NEW p \in Procs, PurgeDelete(p) PROVE SoloInv'
  <2>1. /\ now' = now /\ task' = task
        /\ \A k \in Keys : row'[k] = row[k] \/ row'[k] = NoRow
        /\ \A k \in Keys : cause'[k] \subseteq cause[k] \cup {"purged_live"}
    BY <1>7 DEF PurgeDelete, TypeOK
  <2>2. \A k \in Keys : row'[k].created <= row[k].created
    BY <1>0, <2>1 DEF NoRow
  <2>3. \A k \in Keys : row'[k].created \in Nat
    BY DEF TypeOK, Rows
  <2>4. OnlyPurgeBreaksExclusion'
    BY <2>1 DEF SoloInv, OnlyPurgeBreaksExclusion
  <2>5. \A c \in Callers : task[c].pc = "insert2" => task[c].key \in Keys
    BY DEF TypeOK
  <2>6. \A k \in Keys : row'[k].created <= now
    BY <1>0, <2>2, <2>3 DEF SoloInv
  <2>7. \A c \in Callers :
          task[c].pc \in InBegin => \A k \in Keys : row'[k].created <= task[c].ts
    BY <1>0, <2>2, <2>3 DEF SoloInv
  <2> QED BY <2>1, <2>4, <2>5, <2>6, <2>7 DEF SoloInv
<1>8. ASSUME NEW p \in Procs, Crash(p) PROVE SoloInv'
  <2>1. /\ UNCHANGED <<now, row, cause>>
        /\ \A d \in Callers : task'[d] = task[d] \/ task'[d].pc = "idle"
    BY <1>8 DEF Crash, Outside, TypeOK
  <2> QED BY <2>1 DEF SoloInv, OnlyPurgeBreaksExclusion, InBegin
<1>9. ASSUME Tick PROVE SoloInv'
  <2>1. now' = now + 1 /\ UNCHANGED <<row, task, cause>>
    BY <1>9 DEF Tick
  <2>2. \A k \in Keys : row[k].created <= now'
    BY <1>0, <2>1 DEF SoloInv
  <2> QED BY <2>1, <2>2 DEF SoloInv, OnlyPurgeBreaksExclusion
<1>10. ASSUME UNCHANGED vars PROVE SoloInv'
  BY <1>10 DEF vars, SoloInv, OnlyPurgeBreaksExclusion
<1>11. ASSUME NEW c \in Callers, ReacquireFails(c) PROVE SoloInv'
  BY <1>11 DEF ReacquireFails, OneLoop
<1> QED BY <1>1, <1>2, <1>3, <1>4, <1>5, <1>6, <1>7, <1>8, <1>9, <1>10, <1>11 DEF Next

(* One process and no database error: begin() never acquires blindly and never      *)
(* takes a row for being younger than its timestamp, so that only the purge job    *)
(* can break the exclusion of a key.                                               *)
THEOREM OneLoopExclusion == OneLoop => (Spec => []OnlyPurgeBreaksExclusion)
<1>1. Init => SoloInv
  <2> SUFFICES ASSUME Init PROVE SoloInv
    OBVIOUS
  <2>1. /\ \A c \in Callers : task[c].pc = "idle" /\ task[c].ts = 0
        /\ now = 0 /\ \A k \in Keys : row[k].created = 0 /\ cause[k] = {}
    BY DEF Init, Outside, NoRow
  <2> QED BY <2>1 DEF SoloInv, InBegin, OnlyPurgeBreaksExclusion
<1>2. OneLoop /\ TypeOK /\ TypeOK' /\ TasksSound /\ SoloInv /\ [Next]_vars => SoloInv'
  BY SoloStep
<1>3. Init => TypeOK /\ TasksSound
  BY InitExclusion DEF ExclusionInv
<1>4. TypeOK /\ TasksSound /\ [Next]_vars => TypeOK' /\ TasksSound'
  BY TypeStep, SoundStep
<1>5. SoloInv => OnlyPurgeBreaksExclusion
  BY DEF SoloInv
<1>6. ASSUME OneLoop PROVE Spec => []OnlyPurgeBreaksExclusion
  <2>1. TypeOK /\ TypeOK' /\ TasksSound /\ SoloInv /\ [Next]_vars => SoloInv'
    BY <1>2, <1>6
  <2> QED BY <1>1, <1>3, <1>4, <1>5, <2>1, PTL DEF Spec
<1> QED BY <1>6

---------------------------------------------------------------------------------
(* SettledStays                                                                    *)

\* What SettledStays says of one key and one step.
Kept(k) ==
    row[k].status \in {"done", "failed"} /\ now < row[k].expires /\ cause'[k] = {}
        => row'[k] = row[k]

(* Only an accident rewrites a settled row that has not expired.                    *)
LEMMA SettledStep == TypeOK /\ TasksSound /\ [Next]_vars => \A k \in Keys : Kept(k)
<1> SUFFICES ASSUME TypeOK, TasksSound, [Next]_vars, NEW k \in Keys PROVE Kept(k)
  OBVIOUS
<1>0. /\ row[k] \in Rows /\ now \in Nat
      /\ NoRow.status = "none"
  BY DEF TypeOK, NoRow
<1>1. CASE row' = row
  BY <1>1 DEF Kept
<1>2. ASSUME NEW c \in Callers, Insert(c) PROVE Kept(k)
  <2>1. task[c].key \in Keys
    BY <1>2 DEF Insert, TypeOK
  <2>2. row'[k] # row[k] => row[k] = NoRow
    BY <1>2, <2>1 DEF Insert, TypeOK
  <2> QED BY <1>0, <2>2 DEF Kept
<1>3. ASSUME NEW c \in Callers, Reacquire(c) PROVE Kept(k)
  <2> SUFFICES ASSUME row'[k] # row[k], now < row[k].expires, cause'[k] = {} PROVE FALSE
    BY DEF Kept
  <2>1. k = task[c].key
    BY <1>3 DEF Reacquire, TypeOK
  <2>2. /\ ~(task[c].got.created > task[c].ts)
        /\ row[k] = task[c].got
    BY <1>3, <2>1 DEF Reacquire, Blame, TypeOK
  <2>3. Reacquirable(row[k], task[c].ts) /\ task[c].ts <= now
    BY <1>3, <2>2 DEF Reacquire, TasksSound
  <2>4. task[c].ts \in Nat /\ row[k].expires \in Nat
    BY <1>0 DEF TypeOK, Tasks, Rows
  <2> QED BY <1>0, <2>2, <2>3, <2>4 DEF Reacquirable
<1>4. ASSUME NEW c \in Callers, Return(c) \/ Raise(c) \/ Cancelled(c) PROVE Kept(k)
  <2>1. task[c].key \in Keys
    BY <1>4 DEF Return, Raise, Cancelled, Leave, TypeOK
  <2>2. row[k].status # "processing" => row'[k] = row[k]
    BY <1>1, <1>4, <2>1, SettleRow DEF Return, Raise, Cancelled
  <2> QED BY <2>2 DEF Kept
<1>5. ASSUME NEW p \in Procs, PurgeDelete(p) PROVE Kept(k)
  <2> SUFFICES ASSUME row'[k] # row[k], now < row[k].expires, cause'[k] = {} PROVE FALSE
    BY DEF Kept
  <2>1. k \in victims[p] /\ row[k] # NoRow
    BY <1>5 DEF PurgeDelete, TypeOK
  <2>2. ~Expired(k, now)
    BY <1>0 DEF Expired, Rows
  <2>3. "purged_live" \in cause'[k]
    BY <1>5, <2>1, <2>2 DEF PurgeDelete, TypeOK
  <2> QED BY <2>3
<1> QED BY <1>1, <1>2, <1>3, <1>4, <1>5
        DEF Next, vars, Begin, Read, ReacquireFails, PurgeSelect, Crash, Tick

(* A settled row that has not expired is never rewritten, by any number of tasks,   *)
(* processes and purge jobs, unless an accident happens to its key.                *)
THEOREM SettledHolds == Spec => SettledStays
<1>1. Init => TypeOK /\ TasksSound
  BY InitExclusion DEF ExclusionInv
<1>2. TypeOK /\ TasksSound /\ [Next]_vars => TypeOK' /\ TasksSound'
  BY TypeStep, SoundStep
<1>3. TypeOK /\ TasksSound /\ [Next]_vars
        => [\A k \in Keys :
              row[k].status \in {"done", "failed"} /\ now < row[k].expires /\ cause'[k] = {}
                => row'[k] = row[k]]_vars
  BY SettledStep DEF Kept
<1> QED BY <1>1, <1>2, <1>3, PTL DEF Spec, SettledStays
=================================================================================
