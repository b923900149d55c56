------------------------------- MODULE DeadLetters ------------------------------
(* The dead letter queue: the service adds rows to the table dlq and counts them   *)
(* (app/services/dlq.py), and the commands of app/worker.py, processes of their    *)
(* own, replay and clean up rows.  replayed_at is written by Python in ISO format, *)
(* with a T, and compared with what datetime() of SQLite returns, with a space: on *)
(* one date the T is larger, whatever the time of day.                             *)
EXTENDS Naturals, FiniteSets

CONSTANTS
    Items,          \* the rows that may be added
    TypeOf,         \* their type: "update", "scheduled_job" or another
    Replays,        \* the dlq:replay commands that may run at once
    None,           \* a replay that has no row; a row that is not replayed
    PerDay,         \* ticks of the clock in a day
    DaysOld,        \* --days of dlq:cleanup
    MaxTime         \* bound on the clock

ASSUME DeadLettersAssumption ==
    /\ IsFiniteSet(Items)
    /\ None \notin Items \cup Nat
    /\ PerDay \in Nat \ {0}
    /\ DaysOld \in Nat
    /\ MaxTime \in Nat

VARIABLES
    present,        \* the rows of the table dlq
    replayedAt,     \* their column replayed_at
    adding,         \* the row the service has inserted and not yet counted
    gauge,          \* dlq_size_gauge in the service, one for each type
    known,          \* history: the types whose gauge has counted all the service added
    at,             \* the row each replay is at
    step,           \* "found" it waiting, or "marking" it
    replayed,       \* history: the rows ever marked as replayed
    successes,      \* history: how many replays of a row reported success (2: or more)
    overlapped,     \* history: the rows two replays were at together
    now

table == <<present, replayedAt>>
cli == <<at, step, replayed, successes, overlapped>>
metric == <<adding, gauge, known>>
vars == <<table, metric, cli, now>>

Times == 0..MaxTime
Types == {TypeOf[i] : i \in Items}

TypeOK ==
    /\ present \subseteq Items
    /\ replayedAt \in [Items -> Times \cup {None}]
    /\ adding \in Items \cup {None}
    /\ gauge \in [Types -> 0..Cardinality(Items)]
    /\ known \subseteq Types
    /\ at \in [Replays -> Items \cup {None}]
    /\ step \in [Replays -> {"idle", "found", "marking"}]
    /\ replayed \subseteq Items
    /\ successes \in [Items -> 0..2]
    /\ overlapped \subseteq Items
    /\ now \in Times

Init ==
    /\ present = {}
    /\ replayedAt = [i \in Items |-> None]
    /\ adding = None
    /\ gauge = [type \in Types |-> 0]
    /\ known = Types
    /\ at = [r \in Replays |-> None]
    /\ step = [r \in Replays |-> "idle"]
    /\ replayed = {}
    /\ successes = [i \in Items |-> 0]
    /\ overlapped = {}
    /\ now = 0

Waiting == {i \in present : replayedAt[i] = None}
WaitingOf(type) == {i \in Waiting : TypeOf[i] = type}

---------------------------------------------------------------------------------
(* The service                                                                     *)

\* Mutant: the rows are counted before the new one is among them.
InsertCounted(i) ==
    /\ adding = None /\ i \notin present \cup replayed
    /\ present' = present \cup {i}
    /\ gauge' = [gauge EXCEPT ![TypeOf[i]] = Cardinality(WaitingOf(TypeOf[i]))]
    /\ known' = known \cup {TypeOf[i]}
    /\ UNCHANGED <<replayedAt, adding, cli, now>>

\* A row never comes back: its id is new, and replayed rows have had theirs.
Insert(i) ==
    /\ adding = None /\ i \notin present \cup replayed
    /\ present' = present \cup {i}
    /\ adding' = i /\ known' = known \ {TypeOf[i]}
    /\ UNCHANGED <<replayedAt, gauge, cli, now>>

\* _update_size_gauge counts the rows of the new row's type and sets the gauge of that
\* type alone; if it fails add_to_dlq raises, although the row is there.
Count ==
    /\ adding # None /\ adding' = None
    /\ \/ /\ gauge' = [gauge EXCEPT ![TypeOf[adding]] = Cardinality(WaitingOf(TypeOf[adding]))]
          /\ known' = known \cup {TypeOf[adding]}
       \/ UNCHANGED <<gauge, known>>
    /\ UNCHANGED <<table, cli, now>>

\* A new process starts with gauges of zero, and counts a type when it adds to it.
Restart ==
    /\ adding' = None
    /\ gauge' = [type \in Types |-> 0]
    /\ known' = {type \in Types : WaitingOf(type) = {}}
    /\ UNCHANGED <<table, cli, now>>

---------------------------------------------------------------------------------
(* The commands                                                                    *)

\* Mutant: a row that was replayed is found again.
ReplayableAny(i) == i \in present /\ TypeOf[i] \in {"update", "scheduled_job"}

\* Of the two known types; what is run again is left open in the code.
Replayable(i) == i \in Waiting /\ TypeOf[i] \in {"update", "scheduled_job"}

Find(r, i) ==
    /\ step[r] = "idle"
    /\ Replayable(i)
    /\ at' = [at EXCEPT ![r] = i]
    /\ step' = [step EXCEPT ![r] = "found"]
    /\ overlapped' = IF \E q \in Replays : at[q] = i THEN overlapped \cup {i} ELSE overlapped
    /\ UNCHANGED <<table, metric, replayed, successes, now>>

\* Reported as a success, whatever mark_replayed returned.
Success(r) ==
    /\ at' = [at EXCEPT ![r] = None]
    /\ step' = [step EXCEPT ![r] = "idle"]
    /\ successes' = [successes EXCEPT ![at[r]] = IF @ < 2 THEN @ + 1 ELSE 2]

\* mark_replayed looks again; a row that was cleaned up is not marked.
LookAgain(r) ==
    /\ step[r] = "found"
    /\ IF at[r] \in present
       THEN step' = [step EXCEPT ![r] = "marking"] /\ UNCHANGED <<at, successes>>
       ELSE Success(r)
    /\ UNCHANGED <<table, metric, replayed, overlapped, now>>

\* UPDATE ... WHERE id = ? AND replayed_at IS NULL
Mark(r) ==
    /\ step[r] = "marking"
    /\ IF at[r] \in Waiting
       THEN /\ replayedAt' = [replayedAt EXCEPT ![at[r]] = now]
            /\ replayed' = replayed \cup {at[r]}
       ELSE UNCHANGED <<replayedAt, replayed>>
    /\ Success(r)
    /\ UNCHANGED <<present, metric, overlapped, now>>

\* A statement fails, or the command is interrupted: no success is reported.
GiveUp(r) ==
    /\ step[r] # "idle"
    /\ at' = [at EXCEPT ![r] = None]
    /\ step' = [step EXCEPT ![r] = "idle"]
    /\ UNCHANGED <<table, metric, replayed, successes, overlapped, now>>

\* Mutant: the date of the cutoff is old enough.
OldSameDay(t) == (t \div PerDay) + DaysOld <= now \div PerDay

\* replayed_at < datetime('now', '-N days'): its date is before that of the cutoff.
Old(t) == (t \div PerDay) + DaysOld < now \div PerDay

Cleanup ==
    /\ present' = {i \in present : replayedAt[i] = None \/ ~Old(replayedAt[i])}
    /\ replayedAt' = [i \in Items |-> IF i \in present' THEN replayedAt[i] ELSE None]
    /\ UNCHANGED <<metric, cli, now>>

Tick ==
    /\ now < MaxTime /\ now' = now + 1
    /\ UNCHANGED <<table, metric, cli>>

Next ==
    \/ \E i \in Items : Insert(i) \/ \E r \in Replays : Find(r, i)
    \/ Count \/ Restart
    \/ \E r \in Replays : LookAgain(r) \/ Mark(r) \/ GiveUp(r)
    \/ Cleanup \/ Tick

Spec == Init /\ [][Next]_vars

---------------------------------------------------------------------------------
(* Properties                                                                      *)

\* Two replays of one row report success only if they were at it together: the test
\* of replayed_at keeps every later one out (replay_dlq_item).  And a success stands
\* for a row that was marked, be it by the other.
ReplayedOnce ==
    \A i \in Items :
        /\ successes[i] > 1 => i \in overlapped
        /\ successes[i] > 0 => i \in replayed

\* The cleanup never takes a row earlier than N days after its replay, though it
\* compares texts of two formats, and leaves none that is N + 1 days old.
CleanedInTime ==
    [][\A i \in present :
         /\ i \notin present' => i \in replayed /\ now > replayedAt[i] + DaysOld * PerDay
         /\ Cleanup /\ i \in present' /\ replayedAt[i] # None =>
                now < replayedAt[i] + (DaysOld + 1) * PerDay]_vars

\* The gauge of a type shows no fewer rows than wait, once it has counted that type: the
\* commands, which cannot reach it, only ever take rows away (_update_size_gauge).
GaugeCovers == \A type \in known : gauge[type] >= Cardinality(WaitingOf(type))
=================================================================================
