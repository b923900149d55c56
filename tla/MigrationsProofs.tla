----------------------------- MODULE MigrationsProofs ---------------------------
(* Proofs about Migrations, for any files, statements, runs and accidents.  The    *)
(* inductive invariant has two halves that do not need each other: how far the     *)
(* files are, for what is on record and what is stuck; and who has a connection    *)
(* open while a run looks at the database file or copies it.                       *)
EXTENDS Migrations, Integers, TLAPS

\* The rows of schema_version have no gaps.
Prefix == \E n \in 0..LastFile : recorded = 1..n

\* A run that is under way has every lower file behind it, and of its own file the
\* statements up to the one it is at.
Proceeds(m) ==
    /\ \A g \in Files : g < file[m] => g \in recorded
    /\ stmt[m] - 1 <= done[file[m]]

UnderWay == \A m \in Runs : pc[m] # "idle" => Proceeds(m)

\* Only a run that has applied a file writes its version.
Locked == lock # Nobody => Applying(lock) /\ stmt[lock] = Statements + 1

\* What needs the tables of init_db was applied to a database that had them.
Based == \A f \in Dependent : done[f] > 0 => base

\* A file that cannot be repeated, is begun and was not hurt is in the hands of a run
\* that is about to go on with it.
InHand(f) == \E m \in Runs : Applying(m) /\ file[m] = f /\ stmt[m] = done[f] + 1

Held == \A f \in Fragile : f \notin recorded /\ done[f] > 0 /\ f \notin hurt => InHand(f)

FilesInv == Prefix /\ UnderWay /\ Locked /\ RecordedApplied /\ Based /\ Held

\* What is committed and not in the file is in a WAL that somebody else keeps open; and
\* nobody does while a copy is made, unless the run is excused.
Watched(m) ==
    m \notin excused =>
        /\ pc[m] = "planned" /\ behind => ~Last(m)
        /\ pc[m] = "copying" => Last(m) /\ ~behind

CopiesInv == (\A m \in Runs : Watched(m)) /\ CopyWhole

IInv == TypeOK /\ FilesInv /\ CopiesInv

---------------------------------------------------------------------------------
(* The largest of a set                                                            *)

\* Max is any member that no other exceeds.
LEMMA MaxOf ==
    ASSUME NEW S \in SUBSET Int, NEW x \in S, \A y \in S : x >= y
    PROVE  Max(S) = x
<1>1. \A z \in S : (\A y \in S : z >= y) => z = x  OBVIOUS
<1> QED BY <1>1 DEF Max

\* The greater of two numbers.
LEMMA Greater ==
    ASSUME NEW a \in Nat, NEW b \in Nat
    PROVE  Max({a, b}) = IF a >= b THEN a ELSE b
<1>1. CASE a >= b  BY <1>1, MaxOf
<1>2. CASE ~(a >= b)
  <2>1. \A y \in {a, b} : b >= y  BY <1>2
  <2> QED BY <2>1, <1>2, MaxOf
<1> QED BY <1>1, <1>2

\* Without gaps on record the next file is the one after the last of them.
LEMMA NextIs ==
    ASSUME NEW n \in 0..LastFile, recorded = 1..n, MigrationsAssumption
    PROVE  NextFile = n + 1
<1>1. CASE n = 0  BY <1>1 DEF NextFile
<1>2. CASE n # 0
  <2>1. n \in 1..n /\ \A y \in 1..n : n >= y  BY <1>2
  <2>2. 1..n \in SUBSET Int  OBVIOUS
  <2>4. Max(1..n) = n  BY <2>1, <2>2, MaxOf
  <2>3. recorded # {}  BY <2>1
  <2> QED BY <2>4, <2>3 DEF NextFile
<1> QED BY <1>1, <1>2

---------------------------------------------------------------------------------
(* Types                                                                           *)

\* The file a run plans to begin with is one of the files.
LEMMA PlanType == ASSUME TypeOK, Prefix, NEW m \in Runs, Plan(m), MigrationsAssumption,
                         service' \in {"down", "created", "migrating", "migrated", "ready"}
                  PROVE  TypeOK'
<1>1. PICK n \in 0..LastFile : recorded = 1..n  BY DEF Prefix
<1>2. NextFile = n + 1  BY <1>1, NextIs
<1>3. NextFile <= LastFile => NextFile \in Files  BY <1>2 DEF Files, MigrationsAssumption
<1>4. pc' \in [Runs -> {"idle", "planned", "copying", "applying"}]  BY DEF TypeOK, Plan
<1>5. file' \in [Runs -> Files]
  <2>1. CASE NextFile > LastFile  BY <2>1 DEF TypeOK, Plan
  <2>2. CASE ~(NextFile > LastFile)
    <3>1. NextFile \in Files  BY <2>2, <1>2, <1>3 DEF MigrationsAssumption
    <3> QED BY <2>2, <3>1 DEF TypeOK, Plan
  <2> QED BY <2>1, <2>2
<1>6. stmt' \in [Runs -> 1..(Statements + 1)]  BY DEF TypeOK, Plan, MigrationsAssumption
<1>7. behind' \in BOOLEAN  BY DEF TypeOK, Plan
<1>8. copy' \in [Runs -> {"none", "whole", "partial"}]  BY DEF TypeOK, Plan
<1> QED BY <1>4, <1>5, <1>6, <1>7, <1>8 DEF TypeOK, Plan, store

\* What closing a connection leaves of the file and of the copies.
LEMMA CloseType == ASSUME TypeOK, NEW m, NEW c \in BOOLEAN, Close(m, c)
                   PROVE  /\ behind' \in BOOLEAN
                          /\ copy' \in [Runs -> {"none", "whole", "partial"}]
<1>1. CASE Last(m)
  BY <1>1 DEF TypeOK, Close, Checkpoint
<1>2. CASE ~Last(m)
  <2>1. behind \/ c \in BOOLEAN  BY DEF TypeOK
  <2> QED BY <1>2, <2>1 DEF TypeOK, Close
<1> QED BY <1>1, <1>2

LEMMA DieType == ASSUME TypeOK, NEW lost \in SUBSET Runs, Die(lost), MigrationsAssumption
                 PROVE  /\ accidents' \in 0..MaxAccidents
                        /\ pc' \in [Runs -> {"idle", "planned", "copying", "applying"}]
                        /\ lock' \in Runs \cup {Nobody}
                        /\ hurt' \subseteq Files
                        /\ excused' \subseteq Runs
                        /\ UNCHANGED <<base, done, recorded, file, stmt, behind, copy>>
<1>1. accidents' \in 0..MaxAccidents  BY DEF TypeOK, Die, Accident, MigrationsAssumption
<1>2. pc' \in [Runs -> {"idle", "planned", "copying", "applying"}]  BY DEF TypeOK, Die
<1>3. hurt' \subseteq Files  BY DEF TypeOK, Die
<1> QED BY <1>1, <1>2, <1>3 DEF TypeOK, Die

\* Every step keeps the types.
LEMMA TypeStep == MigrationsAssumption /\ TypeOK /\ Prefix /\ [Next]_vars => TypeOK'
<1> SUFFICES ASSUME MigrationsAssumption, TypeOK, Prefix, [Next]_vars PROVE TypeOK'  OBVIOUS
<1>1. CASE UNCHANGED vars  BY <1>1 DEF TypeOK, vars, store, backups
<1>2. ASSUME NEW m \in Runs, RunFromCli(m) PROVE TypeOK'  
  <2>1. Plan(m) /\ service' \in {"down", "created", "migrating", "migrated", "ready"}
    BY <1>2 DEF RunFromCli, TypeOK
  <2> QED BY <2>1, PlanType
<1>3. ASSUME NEW m \in Runs, DryRun(m) PROVE TypeOK'
  <2>1. Close(m, FALSE)  BY <1>3 DEF DryRun
  <2> QED BY <1>3, <2>1, CloseType DEF TypeOK, DryRun, store
<1>4. ASSUME NEW m \in Runs, CopyStarts(m) PROVE TypeOK'
  BY <1>4 DEF TypeOK, CopyStarts, store
<1>5. ASSUME NEW m \in Runs, Apply(m) PROVE TypeOK'  BY <1>5 DEF TypeOK, Apply, store, CopyingNow
<1>6. ASSUME NEW m \in Runs, Execute(m) PROVE TypeOK'
  <2>1. file[m] \in Files /\ done[file[m]] \in Nat /\ stmt[m] \in Nat  BY DEF TypeOK
  <2>2. Max({done[file[m]], stmt[m]}) \in 0..Statements
    BY <1>6, <2>1, Greater DEF TypeOK, Execute, MigrationsAssumption
  <2>3. done' \in [Files -> 0..Statements]  BY <1>6, <2>1, <2>2 DEF TypeOK, Execute
  <2>4. stmt' \in [Runs -> 1..(Statements + 1)]  BY <1>6 DEF TypeOK, Execute, MigrationsAssumption
  <2> QED BY <1>6, <2>3, <2>4 DEF TypeOK, Execute
<1>7. ASSUME NEW m \in Runs, Record(m) PROVE TypeOK'  BY <1>7 DEF TypeOK, Record, backups
<1>8. ASSUME NEW m \in Runs, Commit(m) PROVE TypeOK'
  <2>1. recorded' \subseteq Files  BY <1>8 DEF TypeOK, Commit, Committed
  <2>2. CASE file[m] = LastFile
    <3>1. Close(m, TRUE) /\ UNCHANGED <<file, stmt>>  BY <1>8, <2>2 DEF Commit
    <3>2. pc' \in [Runs -> {"idle", "planned", "copying", "applying"}]  BY <1>8, <2>2 DEF TypeOK, Commit
    <3> QED BY <1>8, <2>1, <3>1, <3>2, CloseType DEF TypeOK, Commit
  <2>3. CASE file[m] # LastFile
    <3>3. file[m] \in 1..LastFile /\ file' = [file EXCEPT ![m] = @ + 1]
      BY <1>8, <2>3 DEF TypeOK, Commit, Files
    <3>4. file[m] + 1 \in Files  BY <3>3, <2>3 DEF Files, MigrationsAssumption
    <3>1. file' \in [Runs -> Files]  BY <3>3, <3>4 DEF TypeOK
    <3>2. stmt' \in [Runs -> 1..(Statements + 1)]  BY <1>8, <2>3 DEF TypeOK, Commit, MigrationsAssumption
    <3> QED BY <1>8, <2>1, <2>3, <3>1, <3>2 DEF TypeOK, Commit
  <2> QED BY <2>2, <2>3
<1>9. ASSUME NEW m \in Runs, Fails(m) PROVE TypeOK'
  <2>1. Close(m, FALSE)  BY <1>9 DEF Fails
  <2> QED BY <1>9, <2>1, CloseType DEF TypeOK, Fails, store
<1>10. ASSUME NEW m \in Runs, CopyFails(m) PROVE TypeOK'  BY <1>10 DEF TypeOK, CopyFails, store
<1>11. ASSUME NEW m \in Runs, FailsByAccident(m) PROVE TypeOK'
  <2>1. Close(m, FALSE)  BY <1>11 DEF FailsByAccident
  <2>2. accidents' \in 0..MaxAccidents /\ hurt' \subseteq Files
    BY <1>11 DEF TypeOK, FailsByAccident, Accident, MigrationsAssumption
  <2>3. lock' \in Runs \cup {Nobody}  BY <1>11 DEF TypeOK, FailsByAccident
  <2> QED BY <1>11, <2>1, <2>2, <2>3, CloseType DEF TypeOK, FailsByAccident
<1>12. ASSUME NEW m \in Runs, RunDies(m) PROVE TypeOK'
  <2>1. Die({m}) /\ {m} \in SUBSET Runs /\ UNCHANGED <<service, open>>  BY <1>12 DEF RunDies
  <2> QED BY <2>1, DieType DEF TypeOK
<1>13. ASSUME InitDb PROVE TypeOK'
  <2>1. Close(Startup, ~base) /\ (~base) \in BOOLEAN  BY <1>13 DEF InitDb, TypeOK
  <2>2. excused' \subseteq Runs  BY <1>13 DEF InitDb, Opened, CopyingNow, TypeOK
  <2> QED BY <1>13, <2>1, <2>2, CloseType DEF TypeOK, InitDb
<1>14. ASSUME Migrates PROVE TypeOK'  
  <2>1. Plan(Startup) /\ Startup \in Runs
        /\ service' \in {"down", "created", "migrating", "migrated", "ready"}
    BY <1>14 DEF Migrates, MigrationsAssumption
  <2> QED BY <2>1, PlanType
<1>15. ASSUME Migrated \/ Ready PROVE TypeOK'  BY <1>15 DEF TypeOK, Migrated, Ready, store, backups
<1>16. ASSUME Connects \/ Writes PROVE TypeOK'
  BY <1>16 DEF TypeOK, Connects, Opened, CopyingNow, Writes, store
<1>17. ASSUME Disconnects \/ Maintains PROVE TypeOK'
  BY <1>17 DEF TypeOK, Disconnects, Maintains, Checkpoint, store
<1>18. ASSUME ServiceDies PROVE TypeOK'
  <2>1. Die({Startup}) /\ {Startup} \in SUBSET Runs /\ service' = "down" /\ open' = FALSE
    BY <1>18 DEF ServiceDies, MigrationsAssumption
  <2> QED BY <2>1, DieType DEF TypeOK
<1> QED BY <1>1, <1>2, <1>3, <1>4, <1>5, <1>6, <1>7, <1>8, <1>9, <1>10, <1>11, <1>12, <1>13, <1>14,
           <1>15, <1>16, <1>17, <1>18 DEF Next, Step, Starts

---------------------------------------------------------------------------------
(* The files                                                                       *)

\* What the half about the files speaks of.
Work == <<base, done, recorded, lock, pc, file, stmt, hurt>>

\* The runs that apply a file go on with it, and the files are as they were.
GoOn ==
    /\ \A x \in Runs : Applying(x) => Applying(x)' /\ file'[x] = file[x] /\ stmt'[x] = stmt[x]
    /\ done' = done /\ recorded' = recorded /\ hurt \subseteq hurt'

LEMMA HeldGoesOn == ASSUME TypeOK, Held, GoOn, MigrationsAssumption PROVE Held'
<1> SUFFICES ASSUME NEW f \in Fragile, f \notin recorded, done[f] > 0, f \notin hurt'
             PROVE  InHand(f)'
  BY DEF Held, GoOn
<1>1. PICK m \in Runs : Applying(m) /\ file[m] = f /\ stmt[m] = done[f] + 1
  BY DEF Held, GoOn, InHand
<1> QED BY <1>1 DEF InHand, GoOn

LEMMA FilesPlan == ASSUME TypeOK, FilesInv, NEW m \in Runs, Plan(m), MigrationsAssumption
                   PROVE  FilesInv'
<1>1. PICK n \in 0..LastFile : recorded = 1..n  BY DEF FilesInv, Prefix
<1>2. NextFile = n + 1  BY <1>1, NextIs
<1>3. UNCHANGED <<base, done, recorded, lock, hurt>>  BY DEF Plan, store
<1>4. Prefix' /\ RecordedApplied' /\ Based'
  BY <1>3 DEF FilesInv, Prefix, RecordedApplied, Applied, Based
<1>5. UnderWay'
  <2>1. CASE NextFile > LastFile  BY <2>1, <1>3 DEF Plan, FilesInv, UnderWay, Proceeds
  <2>2. CASE ~(NextFile > LastFile)
    <3> SUFFICES ASSUME NEW x \in Runs, pc'[x] # "idle" PROVE Proceeds(x)'  BY DEF UnderWay
    <3>1. CASE x = m
      <4>1. file'[x] = n + 1 /\ stmt'[x] = 1  BY <3>1, <2>2, <1>2 DEF Plan, TypeOK
      <4>2. n + 1 \in Files  BY <1>2, <2>2 DEF Files, MigrationsAssumption
      <4>3. done[n + 1] \in Nat  BY <4>2 DEF TypeOK
      <4>4. \A g \in Files : g < n + 1 => g \in 1..n  BY DEF Files, MigrationsAssumption
      <4> QED BY <4>1, <4>3, <4>4, <1>1, <1>3 DEF Proceeds
    <3>2. CASE x # m
      <4>1. pc'[x] = pc[x] /\ file'[x] = file[x] /\ stmt'[x] = stmt[x]
        BY <3>2, <2>2 DEF Plan, TypeOK
      <4> QED BY <4>1, <1>3 DEF FilesInv, UnderWay, Proceeds
    <3> QED BY <3>1, <3>2
  <2> QED BY <2>1, <2>2
<1>6. GoOn
  <2>1. \A x \in Runs : Applying(x) => x # m  BY DEF Plan, Applying
  <2> QED BY <2>1, <1>3 DEF Plan, GoOn, Applying, TypeOK
<1>7. Locked'  BY <1>3, <1>6 DEF FilesInv, Locked, GoOn, TypeOK
<1> QED BY <1>4, <1>5, <1>6, <1>7, HeldGoesOn DEF FilesInv

\* A run that looks for or makes a copy, or goes on to apply, has done nothing yet.
LEMMA FilesMove ==
    ASSUME TypeOK, FilesInv, NEW m \in Runs, pc[m] # "idle", ~Applying(m), NEW to,
           pc' = [pc EXCEPT ![m] = to],
           UNCHANGED <<base, done, recorded, lock, file, stmt, hurt>>, MigrationsAssumption
    PROVE  FilesInv'
<1>1. Prefix' /\ RecordedApplied' /\ Based'
  BY DEF FilesInv, Prefix, RecordedApplied, Applied, Based
<1>2. UnderWay'  BY DEF FilesInv, UnderWay, Proceeds, TypeOK
<1>3. GoOn  BY DEF GoOn, Applying, TypeOK
<1>4. Locked'  BY <1>3 DEF FilesInv, Locked, GoOn, TypeOK
<1> QED BY <1>1, <1>2, <1>3, <1>4, HeldGoesOn DEF FilesInv

LEMMA FilesExecute == ASSUME TypeOK, FilesInv, NEW m \in Runs, Execute(m), MigrationsAssumption
                      PROVE  FilesInv'
<1> DEFINE f == file[m]  n == stmt[m]
<1>1. f \in Files /\ done[f] \in 0..Statements /\ n \in 1..Statements
  BY DEF TypeOK, Execute, MigrationsAssumption
<1>2. UNCHANGED <<base, recorded, lock, pc, file, hurt>>  BY DEF Execute
<1>3. done' = [done EXCEPT ![f] = IF done[f] >= n THEN done[f] ELSE n]
  <2>1. Max({done[f], n}) = IF done[f] >= n THEN done[f] ELSE n  BY <1>1, Greater
  <2>2. done' = [done EXCEPT ![f] = Max({done[f], n})]  BY DEF Execute
  <2> QED BY <2>1, <2>2
<1>4. stmt' = [stmt EXCEPT ![m] = n + 1]  BY DEF Execute
<1>5. \A g \in Files : done[g] <= done'[g] /\ (g # f => done'[g] = done[g])
  BY <1>1, <1>3 DEF TypeOK
<1>6. done'[f] >= n /\ done'[f] \in 0..Statements  BY <1>1, <1>3 DEF TypeOK
<1>7. stmt'[m] = n + 1 /\ \A x \in Runs \ {m} : stmt'[x] = stmt[x]  BY <1>4 DEF TypeOK
<1> HIDE DEF f, n
<1>8. Prefix'  BY <1>2 DEF FilesInv, Prefix
<1>9. UnderWay'
  <2> SUFFICES ASSUME NEW x \in Runs, pc[x] # "idle" PROVE Proceeds(x)'  BY <1>2 DEF UnderWay
  <2>1. Proceeds(x)  BY DEF FilesInv, UnderWay
  <2>2. CASE x = m  BY <2>1, <2>2, <1>1, <1>2, <1>6, <1>7 DEF Proceeds, f
  <2>3. CASE x # m
    <3>1. file[x] \in Files /\ stmt[x] \in Nat /\ done[file[x]] \in Nat /\ done'[file[x]] \in Nat
      BY <1>1, <1>5, <1>6 DEF TypeOK
    <3> QED BY <2>1, <2>3, <1>2, <1>5, <1>7, <3>1 DEF Proceeds
  <2> QED BY <2>2, <2>3
<1>10. Locked'
  <2> SUFFICES ASSUME lock # Nobody PROVE Applying(lock) /\ stmt'[lock] = Statements + 1
    BY <1>2 DEF Locked, Applying
  <2>1. lock \in Runs /\ Applying(lock) /\ stmt[lock] = Statements + 1
    BY DEF FilesInv, Locked, TypeOK
  <2>2. lock # m  BY <2>1, <1>1 DEF n, MigrationsAssumption
  <2> QED BY <2>1, <2>2, <1>7
<1>11. RecordedApplied'
  <2> SUFFICES ASSUME NEW r \in recorded, NEW g \in 1..r PROVE Applied(g)'
    BY <1>2 DEF RecordedApplied
  <2>1. g \in Files  BY DEF TypeOK, Files, MigrationsAssumption
  <2>2. done[g] = Statements  BY DEF FilesInv, RecordedApplied, Applied
  <2> QED BY <2>1, <2>2, <1>1, <1>3 DEF Applied, TypeOK, MigrationsAssumption
<1>12. Based'
  <2> SUFFICES ASSUME NEW g \in Dependent, done'[g] > 0 PROVE base  BY <1>2 DEF Based
  <2>1. CASE g = f  BY <2>1 DEF Execute, Succeeds, f
  <2>2. CASE g # f  BY <2>2, <1>5 DEF FilesInv, Based, MigrationsAssumption
  <2> QED BY <2>1, <2>2
<1>13. Held'
  <2> SUFFICES ASSUME NEW g \in Fragile, g \notin recorded, done'[g] > 0, g \notin hurt
               PROVE  InHand(g)'
    BY <1>2 DEF Held
  <2>1. g \in Files  BY DEF MigrationsAssumption
  <2>2. CASE g = f
    <3>1. done[f] < n  BY <2>2 DEF Execute, Succeeds, f, n
    <3>2. done'[f] = n  BY <3>1, <1>1, <1>3 DEF TypeOK
    <3> QED BY <2>2, <3>2, <1>2, <1>7 DEF InHand, Applying, Execute, f
  <2>3. CASE g # f
    <3>1. PICK x \in Runs : Applying(x) /\ file[x] = g /\ stmt[x] = done[g] + 1
      BY <2>1, <2>3, <1>5 DEF FilesInv, Held, InHand
    <3>2. x # m  BY <3>1, <2>3 DEF f
    <3> QED BY <3>1, <3>2, <2>1, <2>3, <1>2, <1>5, <1>7 DEF InHand, Applying
  <2> QED BY <2>2, <2>3
<1> QED BY <1>8, <1>9, <1>10, <1>11, <1>12, <1>13 DEF FilesInv

LEMMA FilesRecord == ASSUME TypeOK, FilesInv, NEW m \in Runs, Record(m), MigrationsAssumption
                     PROVE  FilesInv'
<1>1. UNCHANGED <<base, done, recorded, pc, file, stmt, hurt>>  BY DEF Record
<1>2. Prefix' /\ RecordedApplied' /\ Based'
  BY <1>1 DEF FilesInv, Prefix, RecordedApplied, Applied, Based
<1>3. UnderWay'  BY <1>1 DEF FilesInv, UnderWay, Proceeds
<1>4. GoOn  BY <1>1 DEF GoOn, Applying
<1>5. Locked'  BY DEF Locked, Record, Applying
<1> QED BY <1>2, <1>3, <1>4, <1>5, HeldGoesOn DEF FilesInv

\* A committed version extends what is on record by the file just applied.
LEMMA FilesCommit == ASSUME TypeOK, FilesInv, NEW m \in Runs, Commit(m), MigrationsAssumption
                     PROVE  FilesInv'
<1> DEFINE f == file[m]
<1>1. lock = m /\ recorded' = recorded \cup {f} /\ lock' = Nobody  BY DEF Commit, Committed
<1>2. UNCHANGED <<base, done, hurt>>  BY DEF Commit
<1>3. Applying(m) /\ stmt[m] = Statements + 1 /\ f \in Files
  BY <1>1 DEF FilesInv, Locked, MigrationsAssumption, TypeOK
<1>4. (\A g \in Files : g < f => g \in recorded) /\ done[f] = Statements
  <2>1. Proceeds(m)  BY <1>3 DEF FilesInv, UnderWay, Applying
  <2>2. done[f] \in 0..Statements  BY <1>3 DEF TypeOK
  <2> QED BY <2>1, <2>2, <1>3 DEF Proceeds, MigrationsAssumption
<1>5. \A x \in Runs \ {m} : pc'[x] = pc[x] /\ file'[x] = file[x] /\ stmt'[x] = stmt[x]
  BY DEF Commit, TypeOK
<1>6. pc'[m] # "idle" => file'[m] = f + 1 /\ stmt'[m] = 1  BY DEF Commit, TypeOK
<1> HIDE DEF f
<1>7. Prefix'
  <2>1. PICK n \in 0..LastFile : recorded = 1..n  BY DEF FilesInv, Prefix
  <2>2. f \in 1..LastFile /\ f <= n + 1
    <3>1. CASE f - 1 \in Files  BY <3>1, <1>3, <1>4, <2>1 DEF Files, MigrationsAssumption
    <3>2. CASE f - 1 \notin Files  BY <3>2, <1>3 DEF Files, MigrationsAssumption
    <3> QED BY <3>1, <3>2, <1>3 DEF Files
  <2>3. CASE f = n + 1
    <3>1. recorded' = 1..(n + 1) /\ n + 1 \in 0..LastFile
      BY <2>1, <2>2, <2>3, <1>1 DEF MigrationsAssumption
    <3> QED BY <3>1 DEF Prefix
  <2>4. CASE f # n + 1
    <3>1. recorded' = 1..n  BY <2>1, <2>2, <2>4, <1>1 DEF MigrationsAssumption
    <3> QED BY <3>1 DEF Prefix
  <2> QED BY <2>3, <2>4
<1>8. UnderWay'
  <2> SUFFICES ASSUME NEW x \in Runs, pc'[x] # "idle" PROVE Proceeds(x)'  BY DEF UnderWay
  <2>1. CASE x = m
    <3>1. file'[x] = f + 1 /\ stmt'[x] = 1 /\ f + 1 \in Files
      <4>1. pc'[m] # "idle"  BY <2>1
      <4>2. file[m] # LastFile  BY <4>1 DEF Commit, TypeOK
      <4> QED BY <2>1, <4>1, <4>2, <1>3, <1>6 DEF f, Files, MigrationsAssumption
    <3>2. done[f + 1] \in Nat  BY <3>1 DEF TypeOK
    <3>3. \A g \in Files : g < f + 1 => g \in recorded'
      <4> SUFFICES ASSUME NEW g \in Files, g < f + 1 PROVE g \in recorded'  OBVIOUS
      <4>1. g < f \/ g = f  BY <1>3 DEF Files, MigrationsAssumption
      <4> QED BY <4>1, <1>1, <1>4
    <3> QED BY <3>1, <3>2, <3>3, <1>2 DEF Proceeds
  <2>2. CASE x # m
    <3>1. Proceeds(x)  BY <2>2, <1>5 DEF FilesInv, UnderWay
    <3> QED BY <3>1, <2>2, <1>1, <1>2, <1>5 DEF Proceeds
  <2> QED BY <2>1, <2>2
<1>9. Locked'  BY <1>1 DEF Locked
<1>10. RecordedApplied'
  <2> SUFFICES ASSUME NEW r \in recorded', NEW g \in 1..r PROVE done[g] = Statements
    BY <1>2 DEF RecordedApplied, Applied
  <2>1. CASE r \in recorded  BY <2>1 DEF FilesInv, RecordedApplied, Applied
  <2>2. CASE r = f /\ g # f
    <3>1. g \in Files /\ g < f  BY <2>2, <1>3 DEF Files, MigrationsAssumption
    <3>2. g \in recorded /\ g \in 1..g  BY <3>1, <1>4 DEF Files
    <3> QED BY <3>2 DEF FilesInv, RecordedApplied, Applied
  <2> QED BY <2>1, <2>2, <1>1, <1>4
<1>11. Based'  BY <1>2 DEF FilesInv, Based
<1>12. Held'
  <2> SUFFICES ASSUME NEW g \in Fragile, g \notin recorded', done[g] > 0, g \notin hurt
               PROVE  InHand(g)'
    BY <1>2 DEF Held
  <2>1. PICK x \in Runs : Applying(x) /\ file[x] = g /\ stmt[x] = done[g] + 1
    BY <1>1 DEF FilesInv, Held, InHand
  <2>2. x # m  BY <2>1, <1>1 DEF f
  <2> QED BY <2>1, <2>2, <1>2, <1>5 DEF InHand, Applying
<1> QED BY <1>7, <1>8, <1>9, <1>10, <1>11, <1>12 DEF FilesInv

\* A run that fails does so at a statement that is not in effect, for want of the tables
\* of init_db: the file it is at was not in its hands.
LEMMA FilesFails == ASSUME TypeOK, FilesInv, NEW m \in Runs, Fails(m), MigrationsAssumption
                    PROVE  FilesInv'
<1>1. UNCHANGED <<base, done, recorded, lock, file, stmt, hurt>>  BY DEF Fails, store
<1>2. pc' = [pc EXCEPT ![m] = "idle"] /\ stmt[m] \in 1..Statements /\ file[m] \in Files
  BY DEF Fails, TypeOK, MigrationsAssumption
<1>3. Prefix' /\ RecordedApplied' /\ Based'
  BY <1>1 DEF FilesInv, Prefix, RecordedApplied, Applied, Based
<1>4. UnderWay'  BY <1>1, <1>2 DEF FilesInv, UnderWay, Proceeds, TypeOK
<1>5. Locked'
  <2>1. lock # Nobody => lock \in Runs /\ lock # m
    BY <1>2 DEF FilesInv, Locked, TypeOK, MigrationsAssumption
  <2> QED BY <2>1, <1>1, <1>2 DEF FilesInv, Locked, Applying, TypeOK
<1>6. Held'
  <2> SUFFICES ASSUME NEW g \in Fragile, g \notin recorded, done[g] > 0, g \notin hurt
               PROVE  InHand(g)'
    BY <1>1 DEF Held
  <2>1. PICK x \in Runs : Applying(x) /\ file[x] = g /\ stmt[x] = done[g] + 1
    BY DEF FilesInv, Held, InHand
  <2>2. x # m
    <3> SUFFICES ASSUME x = m PROVE FALSE  OBVIOUS
    <3>1. done[g] < stmt[m] /\ (g \in Dependent => base)
      BY <1>2, <2>1 DEF TypeOK, FilesInv, Based
    <3> QED BY <2>1, <3>1 DEF Fails, Succeeds
  <2> QED BY <2>1, <2>2, <1>1, <1>2 DEF InHand, Applying, TypeOK
<1> QED BY <1>3, <1>4, <1>5, <1>6 DEF FilesInv

\* Runs that stop in a file count it as hurt.
LEMMA FilesStop ==
    ASSUME TypeOK, FilesInv, NEW lost \in SUBSET Runs,
           UNCHANGED <<base, done, recorded, file, stmt>>,
           pc' = [x \in Runs |-> IF x \in lost THEN "idle" ELSE pc[x]],
           lock' = IF lock \in lost THEN Nobody ELSE lock,
           hurt' = hurt \cup {file[x] : x \in {y \in lost : Applying(y)}},
           MigrationsAssumption
    PROVE  FilesInv'
<1>1. Prefix' /\ RecordedApplied' /\ Based'
  BY DEF FilesInv, Prefix, RecordedApplied, Applied, Based
<1>2. UnderWay'  BY DEF FilesInv, UnderWay, Proceeds
<1>3. Locked'  BY DEF FilesInv, Locked, Applying, TypeOK
<1>4. Held'
  <2> SUFFICES ASSUME NEW g \in Fragile, g \notin recorded, done[g] > 0, g \notin hurt'
               PROVE  InHand(g)'
    BY DEF Held
  <2>1. PICK x \in Runs : Applying(x) /\ file[x] = g /\ stmt[x] = done[g] + 1
    BY DEF FilesInv, Held, InHand
  <2>2. x \notin lost  BY <2>1
  <2> QED BY <2>1, <2>2 DEF InHand, Applying
<1> QED BY <1>1, <1>2, <1>3, <1>4 DEF FilesInv

\* Every step keeps what the invariant says of the files.
LEMMA FilesStep == MigrationsAssumption /\ TypeOK /\ FilesInv /\ [Next]_vars => FilesInv'
<1> SUFFICES ASSUME MigrationsAssumption, TypeOK, FilesInv, [Next]_vars PROVE FilesInv'  OBVIOUS
<1>0. ASSUME UNCHANGED Work PROVE FilesInv'
  BY <1>0 DEF Work, FilesInv, Prefix, UnderWay, Proceeds, Locked, Applying, RecordedApplied,
              Applied, Based, Held, InHand
<1>1. CASE UNCHANGED vars  BY <1>0, <1>1 DEF vars, store, backups, Work
<1>2. ASSUME NEW m \in Runs, RunFromCli(m) PROVE FilesInv'  BY <1>2, FilesPlan DEF RunFromCli
<1>3. ASSUME NEW m \in Runs, DryRun(m) PROVE FilesInv'  BY <1>0, <1>3 DEF DryRun, store, Work
<1>4. ASSUME NEW m \in Runs, CopyStarts(m) \/ CopyFails(m) PROVE FilesInv'
  <2>1. PICK to : pc' = [pc EXCEPT ![m] = to]  BY <1>4 DEF CopyStarts, CopyFails
  <2>2. pc[m] # "idle" /\ ~Applying(m)  BY <1>4 DEF CopyStarts, CopyFails, Applying
  <2>3. UNCHANGED <<base, done, recorded, lock, file, stmt, hurt>>
    BY <1>4 DEF CopyStarts, CopyFails, store
  <2> QED BY <2>1, <2>2, <2>3, FilesMove
<1>5. ASSUME NEW m \in Runs, Apply(m) PROVE FilesInv'
  <2>1. pc' = [pc EXCEPT ![m] = "applying"]  BY <1>5 DEF Apply
  <2>2. pc[m] # "idle" /\ ~Applying(m)  BY <1>5 DEF Apply, Applying
  <2>3. UNCHANGED <<base, done, recorded, lock, file, stmt, hurt>>  BY <1>5 DEF Apply, store
  <2> QED BY <2>1, <2>2, <2>3, FilesMove
<1>6. ASSUME NEW m \in Runs, Execute(m) PROVE FilesInv'  BY <1>6, FilesExecute
<1>7. ASSUME NEW m \in Runs, Record(m) PROVE FilesInv'  BY <1>7, FilesRecord
<1>8. ASSUME NEW m \in Runs, Commit(m) PROVE FilesInv'  BY <1>8, FilesCommit
<1>9. ASSUME NEW m \in Runs, Fails(m) PROVE FilesInv'  BY <1>9, FilesFails
<1>10. ASSUME NEW m \in Runs, FailsByAccident(m) PROVE FilesInv'
  <2> DEFINE lost == {m}
  <2>1. lost \in SUBSET Runs /\ UNCHANGED <<base, done, recorded, file, stmt>>
    BY <1>10 DEF FailsByAccident
  <2>2. pc' = [x \in Runs |-> IF x \in lost THEN "idle" ELSE pc[x]]
    BY <1>10 DEF FailsByAccident, TypeOK
  <2>3. lock' = IF lock \in lost THEN Nobody ELSE lock  BY <1>10 DEF FailsByAccident
  <2>4. hurt' = hurt \cup {file[x] : x \in {y \in lost : Applying(y)}}
    BY <1>10 DEF FailsByAccident
  <2> HIDE DEF lost
  <2> QED BY <2>1, <2>2, <2>3, <2>4, FilesStop
<1>11. ASSUME NEW m \in Runs, RunDies(m) PROVE FilesInv'
  <2>1. Die({m}) /\ {m} \in SUBSET Runs  BY <1>11 DEF RunDies
  <2> QED BY <2>1, FilesStop DEF Die
<1>12. ASSUME InitDb PROVE FilesInv'
  <2>1. UNCHANGED <<done, recorded, lock, pc, file, stmt, hurt>> /\ base' = TRUE
    BY <1>12 DEF InitDb
  <2> QED BY <2>1 DEF FilesInv, Prefix, UnderWay, Proceeds, Locked, Applying, RecordedApplied,
                      Applied, Based, Held, InHand
<1>13. ASSUME Migrates PROVE FilesInv'  BY <1>13, FilesPlan DEF Migrates, MigrationsAssumption
<1>14. ASSUME Migrated \/ Ready \/ Connects \/ Writes \/ Disconnects \/ Maintains PROVE FilesInv'
  BY <1>0, <1>14 DEF Migrated, Ready, Connects, Writes, Disconnects, Maintains, store, Work
<1>15. ASSUME ServiceDies PROVE FilesInv'
  <2>1. Die({Startup}) /\ {Startup} \in SUBSET Runs  BY <1>15 DEF ServiceDies, MigrationsAssumption
  <2> QED BY <2>1, FilesStop DEF Die
<1> QED BY <1>1, <1>2, <1>3, <1>4, <1>5, <1>6, <1>7, <1>8, <1>9, <1>10, <1>11, <1>12, <1>13, <1>14,
           <1>15 DEF Next, Step, Starts

---------------------------------------------------------------------------------
(* The copies                                                                      *)

\* A checkpoint tears only copies of runs that are excused, as whoever copies and is
\* not has nothing behind, and whoever commits something excuses those who copy.
LEMMA CopiesCheckpoint ==
    ASSUME TypeOK, CopiesInv, NEW c \in BOOLEAN, Checkpoint(behind \/ c),
           excused \subseteq excused', c => CopyingNow \subseteq excused',
           \A x \in Runs : pc'[x] = "copying" => pc[x] = "copying" /\ (Last(x) => Last(x)')
    PROVE  CopiesInv'
<1>1. behind' = FALSE  BY DEF Checkpoint
<1>2. \A x \in Runs : Watched(x)'  BY <1>1 DEF CopiesInv, Watched
<1>3. CopyWhole'
  <2> SUFFICES ASSUME NEW x \in Runs, copy'[x] = "partial" PROVE x \in excused'
    BY DEF CopyWhole
  <2>1. CASE copy[x] = "partial"  BY <2>1 DEF CopiesInv, CopyWhole
  <2>2. CASE copy[x] # "partial"
    <3>1. x \in CopyingNow /\ (behind \/ c)  BY <2>2 DEF Checkpoint
    <3>2. pc[x] = "copying"  BY <3>1 DEF CopyingNow
    <3> QED BY <3>1, <3>2 DEF CopiesInv, Watched
  <2> QED BY <2>1, <2>2
<1> QED BY <1>2, <1>3 DEF CopiesInv

\* A run that stops applying writes the WAL back, or leaves it to one that is still
\* open; nobody who is not excused copies meanwhile.
LEMMA CopiesEnd ==
    ASSUME TypeOK, CopiesInv, NEW m \in Runs, Applying(m), pc' = [pc EXCEPT ![m] = "idle"],
           NEW c \in BOOLEAN, Close(m, c), UNCHANGED <<open, excused>>
    PROVE  CopiesInv'
<1>1. \A x \in Runs : pc'[x] # "idle" => x # m /\ pc'[x] = pc[x]  BY DEF TypeOK
<1>2. \A x \in Runs \ {m} : ~Last(x)  BY DEF Last, Applying
<1>3. CASE Last(m)
  <2>1. Checkpoint(behind \/ c)  BY <1>3 DEF Close
  <2>3. \A x \in CopyingNow : ~Last(x) /\ x \in excused
    <3>1. \A x \in CopyingNow : x # m  BY DEF CopyingNow, Applying
    <3> QED BY <3>1, <1>2 DEF CopyingNow, CopiesInv, Watched
  <2>2. \A x \in Runs : pc'[x] = "copying" => pc[x] = "copying" /\ (Last(x) => Last(x)')
    BY <1>1, <1>2
  <2> QED BY <2>1, <2>2, <2>3, CopiesCheckpoint DEF CopyingNow
<1>4. CASE ~Last(m)
  <2>1. UNCHANGED <<copy, excused>>  BY <1>4 DEF Close
  <2>2. ASSUME NEW x \in Runs, pc'[x] = "planned" PROVE ~Last(x)'
    <3>1. CASE open  BY <3>1 DEF Last
    <3>2. CASE ~open
      <4>1. PICK y \in Runs \ {m} : pc[y] = "applying"  BY <1>4, <3>2 DEF Last
      <4>2. pc'[y] = "applying" /\ y # x  BY <4>1, <2>2 DEF TypeOK
      <4> QED BY <4>2 DEF Last
    <3> QED BY <3>1, <3>2
  <2>3. \A x \in Runs : Watched(x)'
    <3> SUFFICES ASSUME NEW x \in Runs PROVE Watched(x)'  OBVIOUS
    <3>1. Watched(x)  BY DEF CopiesInv
    <3>2. pc'[x] = "copying" => x \in excused  BY <1>1, <1>2, <3>1 DEF Watched
    <3> QED BY <2>1, <2>2, <3>2 DEF Watched
  <2> QED BY <2>1, <2>3 DEF CopiesInv, CopyWhole
<1> QED BY <1>3, <1>4

\* While a run applies files nobody who is not excused copies, and who looks is told.
LEMMA CopiesWrite ==
    ASSUME TypeOK, CopiesInv, NEW m \in Runs, Applying(m), UNCHANGED <<pc, open, copy, excused>>
    PROVE  CopiesInv'
<1>1. \A x \in Runs : pc[x] # "applying" => ~Last(x) /\ ~Last(x)'  BY DEF Last, Applying
<1>2. \A x \in Runs : Watched(x)'  BY <1>1 DEF CopiesInv, Watched
<1> QED BY <1>2 DEF CopiesInv, CopyWhole

LEMMA CopiesPlan == ASSUME TypeOK, CopiesInv, NEW m \in Runs, Plan(m)  PROVE CopiesInv'
<1>1. pc[m] = "idle" /\ pc'[m] \in {"idle", "planned"} /\ \A x \in Runs \ {m} : pc'[x] = pc[x]
  BY DEF Plan, TypeOK
<1>2. open' = open /\ excused' = excused \ {m}  BY DEF Plan
<1>3. \A x \in Runs : Last(x)' = Last(x)  BY <1>1, <1>2 DEF Last
<1>4. behind' => behind /\ ~Last(m)  BY DEF Plan, WritesBack
<1>5. ASSUME NEW x \in Runs PROVE Watched(x)'
  <2>1. CASE x = m  BY <2>1, <1>1, <1>3, <1>4 DEF Watched
  <2>2. CASE x # m
    <3>1. Watched(x)  BY DEF CopiesInv
    <3> QED BY <3>1, <2>2, <1>1, <1>2, <1>3, <1>4 DEF Watched
  <2> QED BY <2>1, <2>2
<1>6. CopyWhole'
  <2> SUFFICES ASSUME NEW x \in Runs, copy'[x] = "partial" PROVE x \in excused'
    BY DEF CopyWhole
  <2>1. x # m /\ (copy[x] = "partial" \/ (pc[x] = "copying" /\ behind))
    BY DEF Plan, CopyingNow, WritesBack
  <2>2. x \in excused  BY <2>1 DEF CopiesInv, CopyWhole, Watched
  <2> QED BY <2>1, <2>2, <1>2
<1> QED BY <1>5, <1>6 DEF CopiesInv

\* A death excuses every run that looked at the versions or copies.
LEMMA CopiesDie == ASSUME TypeOK, CopiesInv, NEW lost \in SUBSET Runs, Die(lost)  PROVE CopiesInv'
<1>1. \A x \in Runs : pc'[x] \in {"planned", "copying"} => x \in excused'  BY DEF Die
<1>2. excused \subseteq excused' /\ copy' = copy  BY DEF Die
<1>3. \A x \in Runs : Watched(x)'  BY <1>1 DEF Watched
<1> QED BY <1>2, <1>3 DEF CopiesInv, CopyWhole

\* A run that starts its copy with nothing behind copies all; one that does not is
\* not alone.
LEMMA CopiesStart == ASSUME TypeOK, CopiesInv, NEW m \in Runs, CopyStarts(m)  PROVE CopiesInv'
<1>1. pc[m] = "planned" /\ pc'[m] = "copying" /\ \A x \in Runs \ {m} : pc'[x] = pc[x]
  BY DEF CopyStarts, TypeOK
<1>2. UNCHANGED <<open, behind>> /\ (Last(m) => excused' = excused)
      /\ (~Last(m) => excused' = excused \cup {m})
  BY DEF CopyStarts
<1>3. \A x \in Runs : Last(x)' = Last(x)  BY <1>1, <1>2 DEF Last
<1>4. m \notin excused' => Last(m) /\ ~behind
  BY <1>1, <1>2 DEF CopiesInv, Watched
<1>5. ASSUME NEW x \in Runs PROVE Watched(x)'
  <2>1. CASE x = m  BY <2>1, <1>1, <1>2, <1>3, <1>4 DEF Watched
  <2>2. CASE x # m
    <3>1. Watched(x)  BY DEF CopiesInv
    <3> QED BY <3>1, <2>2, <1>1, <1>2, <1>3 DEF Watched
  <2> QED BY <2>1, <2>2
<1>6. CopyWhole'
  <2> SUFFICES ASSUME NEW x \in Runs, copy'[x] = "partial" PROVE x \in excused'
    BY DEF CopyWhole
  <2>1. CASE x = m
    <3>1. behind  BY <2>1 DEF CopyStarts, TypeOK
    <3> QED BY <3>1, <2>1, <1>4
  <2>2. CASE x # m  BY <2>2, <1>2 DEF CopyStarts, TypeOK, CopiesInv, CopyWhole
  <2> QED BY <2>1, <2>2
<1> QED BY <1>5, <1>6 DEF CopiesInv

LEMMA CopiesApply == ASSUME TypeOK, CopiesInv, NEW m \in Runs, Apply(m)  PROVE CopiesInv'
<1>1. pc'[m] = "applying" /\ \A x \in Runs \ {m} : pc'[x] = pc[x]  BY DEF Apply, TypeOK
<1>2. UNCHANGED <<open, behind, copy>> /\ excused' = excused \cup (CopyingNow \ {m})
  BY DEF Apply
<1>3. \A x \in Runs \ {m} : ~Last(x)'  BY <1>1 DEF Last
<1>4. ASSUME NEW x \in Runs PROVE Watched(x)'
  <2>1. CASE x = m  BY <2>1, <1>1 DEF Watched
  <2>2. CASE x # m  BY <2>2, <1>1, <1>2, <1>3 DEF Watched, CopyingNow
  <2> QED BY <2>1, <2>2
<1> QED BY <1>2, <1>4 DEF CopiesInv, CopyWhole

\* A connection that is opened and closed again, with something committed or not, while
\* no run starts or stops.
LEMMA CopiesClose ==
    ASSUME TypeOK, CopiesInv, NEW m \in Runs, NEW c \in BOOLEAN, Close(m, c),
           UNCHANGED <<pc, open>>, excused \subseteq excused', c => CopyingNow \subseteq excused'
    PROVE  CopiesInv'
<1>1. \A x \in Runs : Last(x)' = Last(x)  BY DEF Last
<1>2. CASE Last(m)
  <2>1. Checkpoint(behind \/ c)  BY <1>2 DEF Close
  <2> QED BY <2>1, <1>1, CopiesCheckpoint
<1>3. CASE ~Last(m)
  <2>1. copy' = copy  BY <1>3 DEF Close
  <2>2. \A x \in Runs : pc[x] # "applying" => ~Last(x)  BY <1>3 DEF Last, Applying
  <2>3. \A x \in Runs : Watched(x)'  BY <1>1, <2>2 DEF CopiesInv, Watched
  <2> QED BY <2>1, <2>3 DEF CopiesInv, CopyWhole
<1> QED BY <1>2, <1>3

\* Every step keeps what the invariant says of the copies.
LEMMA CopiesStep == MigrationsAssumption /\ TypeOK /\ FilesInv /\ CopiesInv /\ [Next]_vars => CopiesInv'
<1> SUFFICES ASSUME MigrationsAssumption, TypeOK, FilesInv, CopiesInv, [Next]_vars PROVE CopiesInv'
  OBVIOUS
<1>0. ASSUME UNCHANGED <<pc, open, behind, copy, excused>> PROVE CopiesInv'
  BY <1>0 DEF CopiesInv, Watched, CopyWhole, Last
<1>1. CASE UNCHANGED vars  BY <1>0, <1>1 DEF vars, backups
<1>2. ASSUME NEW m \in Runs, RunFromCli(m) PROVE CopiesInv'  BY <1>2, CopiesPlan DEF RunFromCli
<1>3. ASSUME NEW m \in Runs, DryRun(m) PROVE CopiesInv'
  <2>1. Close(m, FALSE) /\ UNCHANGED <<pc, open, excused>>  BY <1>3 DEF DryRun
  <2> QED BY <2>1, CopiesClose
<1>4. ASSUME NEW m \in Runs, CopyStarts(m) PROVE CopiesInv'  BY <1>4, CopiesStart
<1>5. ASSUME NEW m \in Runs, CopyFails(m) PROVE CopiesInv'
  <2>1. pc' = [pc EXCEPT ![m] = "idle"] /\ copy' = [copy EXCEPT ![m] = "none"]
        /\ UNCHANGED <<open, behind, excused>> /\ pc[m] # "applying"
    BY <1>5 DEF CopyFails
  <2>2. \A x \in Runs : Last(x)' = Last(x)  BY <2>1 DEF Last, TypeOK
  <2>3. \A x \in Runs : Watched(x)'  BY <2>1, <2>2 DEF CopiesInv, Watched, TypeOK
  <2>4. CopyWhole'  BY <2>1 DEF CopiesInv, CopyWhole, TypeOK
  <2> QED BY <2>3, <2>4 DEF CopiesInv
<1>6. ASSUME NEW m \in Runs, Apply(m) PROVE CopiesInv'  BY <1>6, CopiesApply
<1>7. ASSUME NEW m \in Runs, Execute(m) PROVE CopiesInv'
  <2>1. Applying(m) /\ UNCHANGED <<pc, open, copy, excused>>  BY <1>7 DEF Execute
  <2> QED BY <2>1, CopiesWrite
<1>8. ASSUME NEW m \in Runs, Record(m) PROVE CopiesInv'  BY <1>0, <1>8 DEF Record, backups
<1>9. ASSUME NEW m \in Runs, Commit(m) PROVE CopiesInv'
  <2>1. Applying(m) /\ UNCHANGED <<open, excused>>  BY <1>9 DEF FilesInv, Locked, Commit, MigrationsAssumption
  <2>2. CASE file[m] = LastFile
    <3>1. pc' = [pc EXCEPT ![m] = "idle"] /\ Close(m, TRUE)  BY <1>9, <2>2 DEF Commit
    <3> QED BY <2>1, <3>1, CopiesEnd
  <2>3. CASE file[m] # LastFile
    <3>1. UNCHANGED <<pc, copy>>  BY <1>9, <2>3 DEF Commit
    <3> QED BY <2>1, <3>1, CopiesWrite
  <2> QED BY <2>2, <2>3
<1>10. ASSUME NEW m \in Runs, Fails(m) \/ FailsByAccident(m) PROVE CopiesInv'
  <2>1. Applying(m) /\ pc' = [pc EXCEPT ![m] = "idle"] /\ Close(m, FALSE)
        /\ UNCHANGED <<open, excused>>
    BY <1>10 DEF Fails, FailsByAccident
  <2> QED BY <2>1, CopiesEnd
<1>11. ASSUME NEW m \in Runs, RunDies(m) PROVE CopiesInv'
  <2>1. Die({m}) /\ {m} \in SUBSET Runs  BY <1>11 DEF RunDies
  <2> QED BY <2>1, CopiesDie
<1>12. ASSUME InitDb PROVE CopiesInv'
  <2>1. Close(Startup, ~base) /\ UNCHANGED <<pc, open>> /\ (~base) \in BOOLEAN /\ Startup \in Runs
    BY <1>12 DEF InitDb, TypeOK, MigrationsAssumption
  <2>2. excused \subseteq excused' /\ (~base => CopyingNow \subseteq excused')
    BY <1>12 DEF InitDb, Opened
  <2> QED BY <2>1, <2>2, CopiesClose
<1>13. ASSUME Migrates PROVE CopiesInv'  BY <1>13, CopiesPlan DEF Migrates, MigrationsAssumption
<1>14. ASSUME Migrated \/ Ready PROVE CopiesInv'  BY <1>0, <1>14 DEF Migrated, Ready, backups
<1>15. ASSUME Connects PROVE CopiesInv'
  <2>1. open' = TRUE /\ UNCHANGED <<pc, behind, copy>> /\ excused' = excused \cup CopyingNow
    BY <1>15 DEF Connects, Opened
  <2>2. \A x \in Runs : Watched(x)'  BY <2>1 DEF Watched, Last, CopyingNow
  <2> QED BY <2>1, <2>2 DEF CopiesInv, CopyWhole
<1>16. ASSUME Writes PROVE CopiesInv'
  <2>1. open /\ UNCHANGED <<pc, open, copy, excused>>  BY <1>16 DEF Writes
  <2>2. \A x \in Runs : Watched(x)'  BY <2>1 DEF CopiesInv, Watched, Last
  <2> QED BY <2>1, <2>2 DEF CopiesInv, CopyWhole
<1>17. ASSUME Disconnects PROVE CopiesInv'
  <2>1. open /\ pc' = pc  BY <1>17 DEF Disconnects
  <2>2. CASE \A m \in Runs : ~Applying(m)
    <3>1. Checkpoint(behind \/ FALSE) /\ excused' = excused
      BY <1>17, <2>2 DEF Disconnects, Checkpoint
    <3>2. \A x \in Runs : pc'[x] = "copying" => pc[x] = "copying" /\ (Last(x) => Last(x)')
      BY <2>1 DEF Last
    <3> QED BY <3>1, <3>2, CopiesCheckpoint
  <2>3. CASE ~(\A m \in Runs : ~Applying(m))
    <3>1. PICK m \in Runs : Applying(m)  BY <2>3
    <3>2. UNCHANGED <<behind, copy, excused>>  BY <1>17, <2>3 DEF Disconnects
    <3>3. \A x \in Runs : pc[x] # "applying" => ~Last(x)'  BY <3>1, <2>1 DEF Last, Applying
    <3>4. \A x \in Runs : ~Last(x)  BY <2>1 DEF Last
    <3>5. \A x \in Runs : Watched(x)'  BY <2>1, <3>2, <3>3, <3>4 DEF CopiesInv, Watched
    <3> QED BY <3>2, <3>5 DEF CopiesInv, CopyWhole
  <2> QED BY <2>2, <2>3
<1>18. ASSUME Maintains PROVE CopiesInv'
  <2>1. Checkpoint(behind \/ FALSE) /\ UNCHANGED <<pc, open, excused>>
    BY <1>18 DEF Maintains, Checkpoint
  <2>2. \A x \in Runs : pc'[x] = "copying" => pc[x] = "copying" /\ (Last(x) => Last(x)')
    BY <2>1 DEF Last
  <2> QED BY <2>1, <2>2, CopiesCheckpoint
<1>19. ASSUME ServiceDies PROVE CopiesInv'
  <2>1. Die({Startup}) /\ {Startup} \in SUBSET Runs  BY <1>19 DEF ServiceDies, MigrationsAssumption
  <2> QED BY <2>1, CopiesDie
<1> QED BY <1>1, <1>2, <1>3, <1>4, <1>5, <1>6, <1>7, <1>8, <1>9, <1>10, <1>11, <1>12, <1>13, <1>14,
           <1>15, <1>16, <1>17, <1>18, <1>19 DEF Next, Step, Starts

---------------------------------------------------------------------------------
(* Theorems                                                                        *)

LEMMA InitInv == MigrationsAssumption /\ Init => IInv
<1> SUFFICES ASSUME MigrationsAssumption, Init PROVE IInv  OBVIOUS
<1>1. TypeOK
  <2>1. 1 \in Files /\ 1 \in 1..(Statements + 1) /\ 0 \in 0..Statements /\ 0 \in 0..MaxAccidents
    BY DEF MigrationsAssumption, Files
  <2>2. done \in [Files -> 0..Statements]  BY <2>1 DEF Init
  <2>3. file \in [Runs -> Files] /\ stmt \in [Runs -> 1..(Statements + 1)]  BY <2>1 DEF Init
  <2>4. pc \in [Runs -> {"idle", "planned", "copying", "applying"}]
        /\ copy \in [Runs -> {"none", "whole", "partial"}]
    BY DEF Init
  <2> QED BY <2>1, <2>2, <2>3, <2>4 DEF Init, TypeOK
<1>2. Prefix
  <2>1. 0 \in 0..LastFile /\ recorded = 1..0  BY DEF Init, MigrationsAssumption
  <2> QED BY <2>1 DEF Prefix
<1>3. UnderWay /\ Locked /\ RecordedApplied  BY DEF Init, UnderWay, Locked, RecordedApplied
<1>4. Based /\ Held  BY DEF Init, Based, Held, MigrationsAssumption
<1>5. CopiesInv  BY DEF Init, CopiesInv, Watched, CopyWhole
<1> QED BY <1>1, <1>2, <1>3, <1>4, <1>5 DEF IInv, FilesInv

LEMMA StepInv == MigrationsAssumption /\ IInv /\ [Next]_vars => IInv'
BY TypeStep, FilesStep, CopiesStep DEF IInv, FilesInv

\* The inductive invariant holds throughout, for any number of files, statements, runs
\* and accidents (migrate, lifespan).
THEOREM InvariantHolds == Spec => []IInv
<1>1. MigrationsAssumption  BY MigrationsAssumption
<1> QED BY <1>1, InitInv, StepInv, PTL DEF Spec

\* Every variable keeps its type; in particular the versions stay among the files.
THEOREM TypeCorrect == Spec => []TypeOK
<1>1. IInv => TypeOK  BY DEF IInv
<1> QED BY <1>1, InvariantHolds, PTL

\* A version on record stands for its file and all lower ones, fully applied
\* (_apply_sql_files): a run has every lower file behind it on record, and the rows
\* have no gap.
THEOREM VersionsAreApplied == Spec => []RecordedApplied
<1>1. IInv => RecordedApplied  BY DEF IInv, FilesInv
<1> QED BY <1>1, InvariantHolds, PTL

\* Only an accident in a file leaves it stuck, a death or a statement that failed for want
\* of the disk or of the lock: short of that a file that
\* is begun is in the hands of a run at its next statement, and one that fails was not.
THEOREM StuckIsHurt == Spec => []StuckByAccident
<1>1. IInv => StuckByAccident
  <2> SUFFICES ASSUME IInv, NEW f \in Files, Stuck(f), f \notin hurt PROVE FALSE
    BY DEF StuckByAccident
  <2>1. PICK m \in Runs : Applying(m) /\ file[m] = f /\ stmt[m] = done[f] + 1
    BY DEF IInv, FilesInv, Held, InHand, Stuck
  <2>2. stmt[m] <= done[f] /\ done[f] \in Nat  BY <2>1 DEF Stuck, IInv, TypeOK
  <2> QED BY <2>1, <2>2
<1> QED BY <1>1, InvariantHolds, PTL

\* A copy that nobody disturbed holds all that was committed when it began (migrate,
\* _create_backup): what is behind is in a WAL that somebody else keeps open.
THEOREM CopiesAreWhole == Spec => []CopyWhole
<1>1. IInv => CopyWhole  BY DEF IInv, CopiesInv
<1> QED BY <1>1, InvariantHolds, PTL
=================================================================================
