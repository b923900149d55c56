------------------------------- MODULE Migrations -------------------------------
(* The forward-only migrations of app/utils/migrate.py: the statements of numbered *)
(* files, a row of schema_version for each file, an optional copy of the database  *)
(* file before; run from the command line and by a start of the service, which     *)
(* needs the table the last file creates.                                          *)
(*                                                                                 *)
(* executescript commits what is open and then runs each statement in a            *)
(* transaction of its own; the INSERT of the version opens a transaction that the  *)
(* next executescript or the final commit ends.  The database is in WAL mode: what *)
(* is committed reaches the file itself at a checkpoint, one of which is made when *)
(* the last connection is closed, but not when a process dies.                     *)
EXTENDS Naturals, FiniteSets, FiniteSetsExt

CONSTANTS
    Runs,           \* the runs of migrate() that may overlap
    Startup,        \* the one the service makes when it starts
    AutoMigrate,    \* AUTO_MIGRATE: whether it does
    Copying,        \* the runs with --backup
    LastFile,       \* the files are 1..LastFile, the last creates rate_limits
    Statements,     \* the statements of one file
    Fragile,        \* the files that cannot be repeated (no IF NOT EXISTS)
    Dependent,      \* the files that need the tables of init_db
    Nobody,         \* no run holds the write lock
    MaxAccidents    \* bound: processes that die and statements that fail of no fault of theirs

Files == 1..LastFile

ASSUME MigrationsAssumption ==
    /\ Startup \in Runs /\ Nobody \notin Runs
    /\ Copying \subseteq Runs \ {Startup}
    /\ AutoMigrate \in BOOLEAN
    /\ LastFile \in Nat \ {0} /\ Statements \in Nat \ {0}
    /\ Fragile \subseteq Files /\ Dependent \subseteq Files
    /\ MaxAccidents \in Nat

VARIABLES
    base,           \* do the tables of init_db exist
    done,           \* how many statements of each file are in effect
    recorded,       \* the committed rows of schema_version
    lock,           \* the run whose INSERT into schema_version is not committed
    pc,             \* where each run is
    file, stmt,     \* the file and statement it is at
    service,        \* where the service is in its lifespan
    open,           \* has the service a connection open
    behind,         \* does the database file lack something that is committed
    copy,           \* the copy a run has made of the file, "whole" or "partial"
    excused,        \* history: the runs whose copy was disturbed, see CopyWhole
    hurt,           \* history: the files a run had an accident in
    accidents       \* history: how many there were

store == <<base, done, recorded, lock>>
backups == <<behind, copy, excused>>
vars == <<store, pc, file, stmt, service, open, backups, hurt, accidents>>

TypeOK ==
    /\ base \in BOOLEAN
    /\ done \in [Files -> 0..Statements]
    /\ recorded \subseteq Files
    /\ lock \in Runs \cup {Nobody}
    /\ pc \in [Runs -> {"idle", "planned", "copying", "applying"}]
    /\ file \in [Runs -> Files]
    /\ stmt \in [Runs -> 1..(Statements + 1)]
    /\ service \in {"down", "created", "migrating", "migrated", "ready"}
    /\ open \in BOOLEAN
    /\ behind \in BOOLEAN
    /\ copy \in [Runs -> {"none", "whole", "partial"}]
    /\ excused \subseteq Runs
    /\ hurt \subseteq Files
    /\ accidents \in 0..MaxAccidents

Init ==
    /\ base = FALSE
    /\ done = [f \in Files |-> 0]
    /\ recorded = {}
    /\ lock = Nobody
    /\ pc = [m \in Runs |-> "idle"]
    /\ file = [m \in Runs |-> 1]
    /\ stmt = [m \in Runs |-> 1]
    /\ service = "down"
    /\ open = FALSE
    /\ behind = FALSE
    /\ copy = [m \in Runs |-> "none"]
    /\ excused = {}
    /\ hurt = {}
    /\ accidents = 0

---------------------------------------------------------------------------------
(* The database file                                                               *)

CopyingNow == {m \in Runs : pc[m] = "copying"}

\* Is no connection open but perhaps that of run m.
Last(m) == ~open /\ \A x \in Runs \ {m} : pc[x] # "applying"

\* What a checkpoint writes under a copy in progress tears the copy.
Checkpoint(dirty) ==
    /\ behind' = FALSE
    /\ copy' = [m \in Runs |-> IF m \in CopyingNow /\ dirty THEN "partial" ELSE copy[m]]

\* A connection is closed, after it committed something or not.
Close(m, committed) ==
    IF Last(m) THEN Checkpoint(behind \/ committed)
    ELSE behind' = (behind \/ committed) /\ UNCHANGED copy

\* A connection was opened that stays open or commits.
Opened == excused' = excused \cup CopyingNow

---------------------------------------------------------------------------------
(* A run of migrate()                                                              *)

\* The files above _current_version() are pending.
NextFile == IF recorded = {} THEN 1 ELSE Max(recorded) + 1

\* Mutant: the copy is made before the run opens its first connection.
WritesBackNever(m) == FALSE

\* _ensure_version_table and _current_version close the connections they open.
WritesBack(m) == behind /\ Last(m)

Plan(m) ==
    /\ pc[m] = "idle"
    /\ IF NextFile > LastFile THEN UNCHANGED <<pc, file, stmt>>
       ELSE /\ pc' = [pc EXCEPT ![m] = "planned"]
            /\ file' = [file EXCEPT ![m] = NextFile]
            /\ stmt' = [stmt EXCEPT ![m] = 1]
    /\ behind' = (behind /\ ~WritesBack(m))
    /\ copy' = [x \in Runs |-> IF x = m THEN "none"
                               ELSE IF x \in CopyingNow /\ WritesBack(m) THEN "partial"
                               ELSE copy[x]]
    /\ excused' = excused \ {m}
    /\ UNCHANGED <<store, open, hurt, accidents>>

RunFromCli(m) == m # Startup /\ Plan(m) /\ UNCHANGED service

\* --dry-run only reads.  The first run of all, be it this or another, finds no database
\* and creates the table of the versions, in which there is nothing yet.
DryRun(m) ==
    /\ m # Startup /\ pc[m] = "idle"
    /\ Close(m, FALSE)
    /\ UNCHANGED <<store, pc, file, stmt, service, open, excused, hurt, accidents>>

\* _create_backup copies the database file, without what is only in the WAL.
CopyStarts(m) ==
    /\ pc[m] = "planned" /\ m \in Copying
    /\ pc' = [pc EXCEPT ![m] = "copying"]
    /\ copy' = [copy EXCEPT ![m] = IF behind THEN "partial" ELSE "whole"]
    /\ excused' = IF Last(m) THEN excused ELSE excused \cup {m}
    /\ UNCHANGED <<store, file, stmt, service, open, behind, hurt, accidents>>

\* No space or no permission: the run refuses to migrate.
CopyFails(m) ==
    /\ pc[m] = "copying"
    /\ pc' = [pc EXCEPT ![m] = "idle"]
    /\ copy' = [copy EXCEPT ![m] = "none"]
    /\ UNCHANGED <<store, file, stmt, service, open, behind, excused, hurt, accidents>>

Apply(m) ==
    /\ pc[m] = IF m \in Copying THEN "copying" ELSE "planned"
    /\ pc' = [pc EXCEPT ![m] = "applying"]
    /\ excused' = excused \cup (CopyingNow \ {m})
    /\ UNCHANGED <<store, file, stmt, service, open, behind, copy, hurt, accidents>>

Applying(m) == pc[m] = "applying"
Unlocked == lock = Nobody

\* Mutant: no file can be repeated, CREATE without IF NOT EXISTS.
SucceedsOnce(f, n) == done[f] < n /\ (f \in Dependent => base)

Succeeds(f, n) ==
    /\ f \in Fragile => done[f] < n
    /\ f \in Dependent => base

Execute(m) ==
    /\ Applying(m) /\ stmt[m] <= Statements
    /\ Succeeds(file[m], stmt[m])
    /\ Unlocked \/ stmt[m] <= done[file[m]]
    /\ done' = [done EXCEPT ![file[m]] = Max({@, stmt[m]})]
    /\ stmt' = [stmt EXCEPT ![m] = @ + 1]
    /\ behind' = TRUE
    /\ UNCHANGED <<base, recorded, lock, pc, file, service, open, copy, excused, hurt, accidents>>

Record(m) ==
    /\ Applying(m) /\ stmt[m] = Statements + 1 /\ Unlocked
    /\ lock' = m
    /\ UNCHANGED <<base, done, recorded, pc, file, stmt, service, open, backups, hurt, accidents>>

\* Mutant: the commit after the last file is missing.
CommittedButLast(f) == IF f = LastFile THEN recorded ELSE recorded \cup {f}

Committed(f) == recorded \cup {f}

\* The executescript of the next file, or the last commit, commits the version.
Commit(m) ==
    /\ lock = m
    /\ recorded' = Committed(file[m])
    /\ lock' = Nobody
    /\ IF file[m] = LastFile
       THEN /\ pc' = [pc EXCEPT ![m] = "idle"]
            /\ Close(m, TRUE)
            /\ UNCHANGED <<file, stmt>>
       ELSE /\ file' = [file EXCEPT ![m] = @ + 1]
            /\ stmt' = [stmt EXCEPT ![m] = 1]
            /\ behind' = TRUE
            /\ UNCHANGED <<pc, copy>>
    /\ UNCHANGED <<base, done, service, open, excused, hurt, accidents>>

\* Mutant: a statement that fails is passed over.
FailsOver(m) ==
    /\ Applying(m) /\ stmt[m] <= Statements
    /\ ~Succeeds(file[m], stmt[m])
    /\ stmt' = [stmt EXCEPT ![m] = @ + 1]
    /\ UNCHANGED <<store, pc, file, service, open, backups, hurt, accidents>>

\* A statement that fails ends the run; there is nothing left to roll back.
Fails(m) ==
    /\ Applying(m) /\ stmt[m] <= Statements
    /\ ~Succeeds(file[m], stmt[m])
    /\ pc' = [pc EXCEPT ![m] = "idle"]
    /\ Close(m, FALSE)
    /\ UNCHANGED <<store, file, stmt, service, open, excused, hurt, accidents>>

Accident == accidents < MaxAccidents /\ accidents' = accidents + 1

\* A statement fails that might have succeeded: the disk is full, or busy_timeout is over
\* while another run, or the service, holds the lock.  A version not committed is gone.
FailsByAccident(m) ==
    /\ Applying(m)
    /\ Accident
    /\ hurt' = hurt \cup {file[m]}
    /\ lock' = IF lock = m THEN Nobody ELSE lock
    /\ pc' = [pc EXCEPT ![m] = "idle"]
    /\ Close(m, FALSE)
    /\ UNCHANGED <<base, done, recorded, file, stmt, service, open, excused>>

\* The runs in lost die: no checkpoint, and what they had not committed is gone.
Die(lost) ==
    /\ Accident
    /\ pc' = [m \in Runs |-> IF m \in lost THEN "idle" ELSE pc[m]]
    /\ lock' = IF lock \in lost THEN Nobody ELSE lock
    /\ hurt' = hurt \cup {file[m] : m \in {x \in lost : Applying(x)}}
    /\ excused' = excused \cup {m \in Runs : pc[m] \in {"planned", "copying"}}
    /\ UNCHANGED <<base, done, recorded, file, stmt, behind, copy>>

RunDies(m) ==
    /\ m # Startup /\ pc[m] # "idle"
    /\ Die({m})
    /\ UNCHANGED <<service, open>>

---------------------------------------------------------------------------------
(* The service                                                                     *)

\* The first call commits the tables, every later one finds them.
InitDb ==
    /\ service = "down" /\ (Unlocked \/ base)
    /\ service' = "created"
    /\ base' = TRUE
    /\ IF base THEN UNCHANGED excused ELSE Opened
    /\ Close(Startup, ~base)
    /\ UNCHANGED <<done, recorded, lock, pc, file, stmt, open, hurt, accidents>>

Migrates ==
    /\ service = "created" /\ AutoMigrate
    /\ service' = "migrating"
    /\ Plan(Startup)

\* Whatever became of the migration, an error is only logged.
Migrated ==
    /\ \/ service = "created" /\ ~AutoMigrate
       \/ service = "migrating" /\ pc[Startup] = "idle"
    /\ service' = "migrated"
    /\ UNCHANGED <<store, pc, file, stmt, open, backups, hurt, accidents>>

\* Mutant: the start asks for the version instead of the table.
HasLimitsVersion == LastFile \in recorded

HasLimits == done[LastFile] > 0

\* init_rate_limit_service reads rate_limits: without it the start fails.
Ready ==
    /\ service = "migrated"
    /\ service' = IF HasLimits THEN "ready" ELSE "down"
    /\ UNCHANGED <<store, pc, file, stmt, open, backups, hurt, accidents>>

\* The handlers and jobs of the service open, use and close connections.
Connects ==
    /\ service = "ready" /\ ~open
    /\ open' = TRUE
    /\ Opened
    /\ UNCHANGED <<store, pc, file, stmt, service, behind, copy, hurt, accidents>>

Writes ==
    /\ open /\ Unlocked
    /\ behind' = TRUE
    /\ UNCHANGED <<store, pc, file, stmt, service, open, copy, excused, hurt, accidents>>

Disconnects ==
    /\ open
    /\ open' = FALSE
    /\ IF \A m \in Runs : ~Applying(m) THEN Checkpoint(behind) ELSE UNCHANGED <<behind, copy>>
    /\ UNCHANGED <<store, pc, file, stmt, service, excused, hurt, accidents>>

\* get_wal_info and checkpoint_wal of the maintenance loop, with its connection open.
Maintains ==
    /\ open /\ Checkpoint(behind)
    /\ UNCHANGED <<store, pc, file, stmt, service, open, excused, hurt, accidents>>

ServiceDies ==
    /\ service # "down"
    /\ service' = "down" /\ open' = FALSE
    /\ Die({Startup})

Step(m) == CopyStarts(m) \/ Apply(m) \/ Execute(m) \/ Record(m) \/ Commit(m) \/ Fails(m)

Starts == InitDb \/ Migrates \/ Migrated \/ Ready

Next ==
    \/ \E m \in Runs :
        \/ RunFromCli(m) \/ DryRun(m) \/ Step(m)
        \/ CopyFails(m) \/ FailsByAccident(m) \/ RunDies(m)
    \/ Starts \/ Connects \/ Writes \/ Disconnects \/ Maintains \/ ServiceDies

Spec == Init /\ [][Next]_vars

\* A run goes on, and the service is started again after it ended (the container's
\* restart policy is unless-stopped).
FairSpec == Spec /\ WF_vars(Starts) /\ \A m \in Runs : WF_vars(Step(m))

---------------------------------------------------------------------------------
(* Properties                                                                      *)

Applied(f) == done[f] = Statements

\* A version on record stands for a database in which its file and all lower files
\* are fully applied, whatever died and whichever runs overlapped (_apply_sql_files).
RecordedApplied == \A f \in recorded : \A g \in 1..f : Applied(g)

\* A file that cannot be repeated is begun and not on record, and whoever is at it is
\* about to repeat one of its statements: no run will ever get past it.
Stuck(f) ==
    /\ f \in Fragile /\ f \notin recorded /\ done[f] > 0
    /\ \A m \in Runs : Applying(m) /\ file[m] = f => stmt[m] <= done[f]

\* That takes a run that died in that very file, or a statement of it that failed for
\* want of the disk or of the lock.
StuckByAccident == \A f \in Files : Stuck(f) => f \in hurt

\* A copy holds all that was committed when it began, unless another held a connection
\* open or committed meanwhile, or a process died after the run looked at the versions:
\* its own connection is the last to be closed and writes the WAL back (migrate).
CopyWhole == \A m \in Runs : copy[m] = "partial" => m \in excused

\* A service that migrates at its start is ready in the end, for good, whatever dies
\* on the way: even a file that is stuck leaves the table it needs (lifespan).
EventuallyReady == AutoMigrate => <>[](service = "ready")

\* And every file gets on record, up to one that is stuck.
EventuallyMigrated ==
    AutoMigrate => <>[](\A f \in Files : f \in recorded \/ \E g \in 1..f : Stuck(g))
=================================================================================
