---------------------------- MODULE DeadLettersProofs ----------------------------
(* What the dead letter queue promises, proved for any rows, any number of replays, *)
(* any length of a day and any age of deletion.                                     *)
EXTENDS DeadLetters, FiniteSetTheorems, TLAPS

\* A replay at a row is at work on it, and a row somebody is at exists or was replayed.
AtWork ==
    \A r \in Replays :
        /\ (at[r] = None) <=> (step[r] = "idle")
        /\ at[r] # None => at[r] \in present \cup replayed

\* The column replayed_at says who was replayed, as long as the row is there.
Marked ==
    \A i \in Items :
        /\ replayedAt[i] # None => i \in present /\ i \in replayed
        /\ i \in replayed /\ i \in present => replayedAt[i] # None

\* Two at one row have met; so has whoever is at a row of which a success was reported.
Met ==
    /\ \A r, q \in Replays : r # q /\ at[r] = at[q] /\ at[r] # None => at[r] \in overlapped
    /\ \A r \in Replays : at[r] # None /\ successes[at[r]] > 0 => at[r] \in overlapped

IInv == TypeOK /\ AtWork /\ Marked /\ Met /\ ReplayedOnce /\ GaugeCovers

---------------------------------------------------------------------------------
(* The rows that wait, and the calendar                                            *)

LEMMA WaitingIsFinite ==
    ASSUME TypeOK, NEW type
    PROVE  /\ WaitingOf(type) \subseteq Items /\ IsFiniteSet(WaitingOf(type))
           /\ Cardinality(WaitingOf(type)) \in 0..Cardinality(Items)
<1>1. WaitingOf(type) \subseteq Items
  BY DEF WaitingOf, Waiting, TypeOK
<1>2. IsFiniteSet(Items)
  BY DeadLettersAssumption
<1>3. IsFiniteSet(WaitingOf(type)) /\ Cardinality(WaitingOf(type)) <= Cardinality(Items)
  BY <1>1, <1>2, FS_Subset
<1>4. Cardinality(WaitingOf(type)) \in Nat /\ Cardinality(Items) \in Nat
  BY <1>2, <1>3, FS_CardinalityType
<1> QED
  BY <1>1, <1>3, <1>4

\* Fewer rows of each type wait, so its gauge still covers them.
LEMMA FewerWait ==
    ASSUME TypeOK, GaugeCovers, Waiting' \subseteq Waiting, gauge' = gauge, known' = known
    PROVE  GaugeCovers'
<1> SUFFICES ASSUME NEW type \in known'
             PROVE  gauge'[type] >= Cardinality(WaitingOf(type)')
  BY DEF GaugeCovers
<1>1. /\ IsFiniteSet(WaitingOf(type)) /\ Cardinality(WaitingOf(type)) \in Nat
      /\ Cardinality(Items) \in Nat /\ gauge[type] \in Nat
  <2>1. Cardinality(Items) \in Nat
    BY DeadLettersAssumption, FS_CardinalityType
  <2> QED
    BY <2>1, WaitingIsFinite DEF TypeOK
<1>2. WaitingOf(type)' \subseteq WaitingOf(type)
  BY DEF WaitingOf
<1>3. IsFiniteSet(WaitingOf(type)') /\ Cardinality(WaitingOf(type)') <= Cardinality(WaitingOf(type))
  BY <1>1, <1>2, FS_Subset
<1>4. Cardinality(WaitingOf(type)') \in Nat
  BY <1>3, FS_CardinalityType
<1>5. gauge[type] >= Cardinality(WaitingOf(type)) /\ gauge'[type] = gauge[type]
  BY DEF GaugeCovers
<1> QED
  BY <1>1, <1>3, <1>4, <1>5

\* The ticks of a day: t lies in the day of its quotient.
LEMMA DayOf ==
    ASSUME NEW t \in Nat
    PROVE  /\ t \div PerDay \in Nat
           /\ PerDay * (t \div PerDay) <= t
           /\ t < PerDay * (t \div PerDay) + PerDay
<1>1. PerDay \in Nat /\ PerDay > 0
  BY DeadLettersAssumption
<1>2. t = PerDay * (t \div PerDay) + (t % PerDay) /\ t % PerDay \in 0..(PerDay - 1)
  BY <1>1
<1>3. t \div PerDay \in Nat
  BY <1>1
<1>4. PerDay * (t \div PerDay) \in Nat
  BY <1>1, <1>3
<1> QED
  BY <1>1, <1>2, <1>3, <1>4

\* Longer is longer, in days.
LEMMA DaysAreMonotonic ==
    ASSUME NEW x \in Nat, NEW y \in Nat, x <= y
    PROVE  PerDay * x <= PerDay * y
<1>1. PICK k \in Nat : y = x + k
  <2>1. y - x \in Nat /\ y = x + (y - x)
    OBVIOUS
  <2> QED
    BY <2>1
<1>2. PerDay \in Nat
  BY DeadLettersAssumption
<1>3. PerDay * (x + k) = PerDay * x + PerDay * k
  BY <1>2
<1>4. PerDay * x \in Nat /\ PerDay * k \in Nat
  BY <1>2
<1> QED
  BY <1>1, <1>3, <1>4

\* The comparison of dates is exact to a day (cleanup_old_replayed).
LEMMA OldToADay ==
    ASSUME NEW t \in Nat, now \in Nat
    PROVE  /\ Old(t) => now > t + DaysOld * PerDay
           /\ ~Old(t) => now < t + (DaysOld + 1) * PerDay
<1> DEFINE a == t \div PerDay
           b == now \div PerDay
<1>1. /\ a \in Nat /\ PerDay * a <= t /\ t < PerDay * a + PerDay
      /\ b \in Nat /\ PerDay * b <= now /\ now < PerDay * b + PerDay
  BY DayOf
<1>2. PerDay \in Nat /\ DaysOld \in Nat
  BY DeadLettersAssumption
<1>3. Old(t) <=> a + DaysOld < b
  BY DEF Old
<1> HIDE DEF a, b
<1>4. /\ PerDay * (a + DaysOld + 1) = PerDay * a + DaysOld * PerDay + PerDay
      /\ PerDay * (a + DaysOld) = PerDay * a + DaysOld * PerDay
      /\ (DaysOld + 1) * PerDay = DaysOld * PerDay + PerDay
      /\ PerDay * a \in Nat /\ PerDay * b \in Nat /\ DaysOld * PerDay \in Nat
  BY <1>1, <1>2
<1>5. ASSUME a + DaysOld < b PROVE now > t + DaysOld * PerDay
  <2>1. PerDay * (a + DaysOld + 1) <= PerDay * b
    BY <1>1, <1>2, <1>5, DaysAreMonotonic
  <2> QED
    BY <1>1, <1>2, <1>4, <2>1
<1>6. ASSUME ~(a + DaysOld < b) PROVE now < t + (DaysOld + 1) * PerDay
  <2>1. PerDay * b <= PerDay * (a + DaysOld)
    BY <1>1, <1>2, <1>6, DaysAreMonotonic
  <2> QED
    BY <1>1, <1>2, <1>4, <2>1
<1> QED
  BY <1>3, <1>5, <1>6

---------------------------------------------------------------------------------
(* The steps                                                                       *)

LEMMA InitIInv == Init => IInv
<1> SUFFICES ASSUME Init PROVE IInv
  OBVIOUS
<1>1. Cardinality(Items) \in Nat
  BY DeadLettersAssumption, FS_CardinalityType
<1>2. TypeOK
  <2>1. /\ replayedAt \in [Items -> Times \cup {None}] /\ successes \in [Items -> 0..2]
        /\ at \in [Replays -> Items \cup {None}]
        /\ step \in [Replays -> {"idle", "found", "marking"}]
    BY DEF Init
  <2>2. gauge \in [Types -> 0..Cardinality(Items)]
    BY <1>1 DEF Init
  <2>3. now \in Times /\ adding = None
    BY DeadLettersAssumption DEF Init, Times
  <2>4. present = {} /\ replayed = {} /\ overlapped = {} /\ known = Types
    BY DEF Init
  <2> QED
    BY <2>1, <2>2, <2>3, <2>4 DEF TypeOK
<1>3. \A type : WaitingOf(type) = {}
  BY DEF Init, WaitingOf, Waiting
<1>4. GaugeCovers
  <2>1. \A type \in known : gauge[type] = 0
    BY DEF Init
  <2> QED
    BY <1>3, <2>1, FS_EmptySet DEF GaugeCovers
<1>5. AtWork /\ Marked /\ Met /\ ReplayedOnce
  BY DEF Init, AtWork, Marked, Met, ReplayedOnce
<1> QED
  BY <1>2, <1>4, <1>5 DEF IInv

LEMMA InsertStep ==
    ASSUME IInv, NEW i \in Items, Insert(i)
    PROVE  IInv'
<1>1. TypeOK'
  BY DEF Insert, cli, IInv, TypeOK
<1>2. Marked'
  BY DEF Insert, cli, IInv, Marked, TypeOK
<1>3. AtWork' /\ Met' /\ ReplayedOnce'
  BY DEF Insert, cli, IInv, AtWork, Met, ReplayedOnce
<1>4. GaugeCovers'
  <2> SUFFICES ASSUME NEW type \in known'
               PROVE  gauge'[type] >= Cardinality(WaitingOf(type)')
    BY DEF GaugeCovers
  <2>1. type \in known /\ type # TypeOf[i]
    BY DEF Insert
  <2>2. WaitingOf(type)' = WaitingOf(type)
    BY <2>1 DEF Insert, WaitingOf, Waiting
  <2> QED
    BY <2>1, <2>2 DEF Insert, IInv, GaugeCovers
<1> QED
  BY <1>1, <1>2, <1>3, <1>4 DEF IInv

\* The steps of the service that leave the rows alone.
LEMMA MetricFrame ==
    ASSUME IInv, UNCHANGED table, UNCHANGED cli, UNCHANGED now,
           gauge' \in [Types -> 0..Cardinality(Items)], adding' \in Items \cup {None},
           known' \subseteq Types,
           GaugeCovers'
    PROVE  IInv'
<1>1. UNCHANGED <<present, replayedAt, at, step, replayed, successes, overlapped, now>>
  BY DEF table, cli
<1>2. TypeOK'
  BY <1>1 DEF IInv, TypeOK
<1>3. AtWork' /\ Marked' /\ Met' /\ ReplayedOnce'
  BY <1>1 DEF IInv, AtWork, Marked, Met, ReplayedOnce
<1> QED
  BY <1>2, <1>3 DEF IInv

LEMMA CountStep ==
    ASSUME IInv, Count
    PROVE  IInv'
<1> DEFINE type == TypeOf[adding]
<1>1. /\ UNCHANGED table /\ UNCHANGED cli /\ UNCHANGED now
      /\ adding' \in Items \cup {None} /\ type \in Types
  BY DEF Count, IInv, TypeOK, Types
<1>2. /\ Cardinality(WaitingOf(type)) \in 0..Cardinality(Items)
      /\ \A other : WaitingOf(other)' = WaitingOf(other)
  BY <1>1, WaitingIsFinite DEF IInv, WaitingOf, Waiting, table
<1>3. CASE /\ gauge' = [gauge EXCEPT ![type] = Cardinality(WaitingOf(type))]
           /\ known' = known \cup {type}
  <2>1. gauge' \in [Types -> 0..Cardinality(Items)] /\ known' \subseteq Types
    BY <1>1, <1>2, <1>3 DEF IInv, TypeOK
  <2>2. GaugeCovers'
    <3> SUFFICES ASSUME NEW other \in known'
                 PROVE  gauge'[other] >= Cardinality(WaitingOf(other)')
      BY DEF GaugeCovers
    <3>1. CASE other = type
      BY <1>1, <1>2, <1>3, <3>1 DEF IInv, TypeOK
    <3>2. CASE other # type
      BY <1>2, <1>3, <3>2 DEF IInv, TypeOK, GaugeCovers
    <3> QED
      BY <3>1, <3>2
  <2> QED
    BY <1>1, <2>1, <2>2, MetricFrame
<1>4. CASE UNCHANGED <<gauge, known>>
  <2>1. GaugeCovers'
    BY <1>2, <1>4 DEF IInv, GaugeCovers
  <2>2. gauge' \in [Types -> 0..Cardinality(Items)] /\ known' \subseteq Types
    BY <1>4 DEF IInv, TypeOK
  <2> QED
    BY <1>1, <2>1, <2>2, MetricFrame
<1> QED
  BY <1>3, <1>4 DEF Count

LEMMA RestartStep ==
    ASSUME IInv, Restart
    PROVE  IInv'
<1>1. /\ UNCHANGED table /\ UNCHANGED cli /\ UNCHANGED now
      /\ adding' \in Items \cup {None} /\ known' \subseteq Types
  BY DEF Restart
<1>2. /\ gauge' \in [Types -> 0..Cardinality(Items)]
      /\ \A type \in Types : gauge'[type] = 0
  <2>1. Cardinality(Items) \in Nat
    BY DeadLettersAssumption, FS_CardinalityType
  <2> QED
    BY <2>1 DEF Restart
<1>3. \A type : WaitingOf(type)' = WaitingOf(type)
  BY <1>1 DEF WaitingOf, Waiting, table
<1>4. GaugeCovers'
  <2>1. \A type \in known' : type \in Types /\ WaitingOf(type) = {}
    BY DEF Restart
  <2> QED
    BY <1>2, <1>3, <2>1, FS_EmptySet DEF GaugeCovers
<1> QED
  BY <1>1, <1>2, <1>4, MetricFrame

LEMMA FindStep ==
    ASSUME IInv, NEW r \in Replays, NEW i \in Items, Find(r, i)
    PROVE  IInv'
<1>1. /\ step[r] = "idle" /\ i \in present /\ replayedAt[i] = None /\ i # None
      /\ UNCHANGED <<present, replayedAt, adding, gauge, known, replayed, successes, now>>
      /\ at'[r] = i /\ \A q \in Replays \ {r} : at'[q] = at[q]
      /\ step'[r] = "found" /\ \A q \in Replays \ {r} : step'[q] = step[q]
      /\ overlapped \subseteq overlapped' /\ overlapped' \subseteq Items
      /\ (\E q \in Replays : at[q] = i) => i \in overlapped'
  BY DeadLettersAssumption DEF Find, Replayable, Waiting, table, metric, IInv, TypeOK
<1>2. TypeOK'
  BY <1>1 DEF Find, IInv, TypeOK
<1>3. AtWork' /\ Marked'
  BY <1>1 DEF IInv, AtWork, Marked
<1>4. successes[i] = 0
  BY <1>1 DEF IInv, ReplayedOnce, Marked, TypeOK
<1>5. Met'
  BY <1>1, <1>4 DEF IInv, Met
<1>6. ReplayedOnce' /\ GaugeCovers'
  BY <1>1 DEF IInv, ReplayedOnce, GaugeCovers, WaitingOf, Waiting
<1> QED
  BY <1>2, <1>3, <1>5, <1>6 DEF IInv

\* A success, once its row has been marked, by whomever.
LEMMA SuccessStep ==
    ASSUME IInv, NEW r \in Replays, step[r] # "idle", Success(r),
           at[r] \in replayed', replayed \subseteq replayed', replayed' \subseteq Items,
           present' = present, UNCHANGED <<adding, gauge, known, overlapped, now>>,
           replayedAt' \in [Items -> Times \cup {None}], Marked', Waiting' \subseteq Waiting
    PROVE  IInv'
<1> DEFINE i == at[r]
<1>1. /\ i \in Items /\ i # None
      /\ at'[r] = None /\ \A q \in Replays \ {r} : at'[q] = at[q]
      /\ step'[r] = "idle" /\ \A q \in Replays \ {r} : step'[q] = step[q]
      /\ at' \in [Replays -> Items \cup {None}]
      /\ step' \in [Replays -> {"idle", "found", "marking"}]
  BY DEF Success, IInv, TypeOK, AtWork
<1>2. /\ successes' \in [Items -> 0..2]
      /\ \A j \in Items \ {i} : successes'[j] = successes[j]
      /\ successes'[i] > 1 => successes[i] > 0
  BY <1>1 DEF Success, IInv, TypeOK
<1> HIDE DEF i
<1>3. TypeOK'
  BY <1>1, <1>2 DEF IInv, TypeOK
<1>4. AtWork'
  BY <1>1 DEF IInv, AtWork
<1>5. Met'
  <2>1. \A q, s \in Replays : q # s /\ at'[q] = at'[s] /\ at'[q] # None => at'[q] \in overlapped
    BY <1>1 DEF IInv, Met
  <2>2. ASSUME NEW q \in Replays, at'[q] # None, successes'[at'[q]] > 0
        PROVE  at'[q] \in overlapped
    <3>1. q # r /\ at'[q] = at[q] /\ at[q] \in Items
      BY <1>1, <2>2 DEF IInv, TypeOK
    <3>2. CASE at[q] = i
      BY <1>1, <3>1, <3>2 DEF IInv, Met, i
    <3>3. CASE at[q] # i
      BY <1>2, <2>2, <3>1, <3>3 DEF IInv, Met
    <3> QED
      BY <3>2, <3>3
  <2> QED
    BY <2>1, <2>2 DEF Met
<1>6. ReplayedOnce'
  <2>1. successes[i] > 0 => i \in overlapped
    BY <1>1 DEF IInv, Met, i
  <2> QED
    BY <1>1, <1>2, <2>1 DEF IInv, ReplayedOnce, i
<1>7. GaugeCovers'
  BY FewerWait DEF IInv
<1> QED
  BY <1>3, <1>4, <1>5, <1>6, <1>7 DEF IInv

LEMMA LookAgainStep ==
    ASSUME IInv, NEW r \in Replays, LookAgain(r)
    PROVE  IInv'
<1>1. /\ step[r] = "found"
      /\ UNCHANGED <<present, replayedAt, adding, gauge, known, replayed, overlapped, now>>
  BY DEF LookAgain, table, metric
<1>2. CASE at[r] \in present
  <2>1. /\ at' = at /\ successes' = successes
        /\ step'[r] = "marking" /\ \A q \in Replays \ {r} : step'[q] = step[q]
        /\ step' \in [Replays -> {"idle", "found", "marking"}]
    BY <1>2 DEF LookAgain, IInv, TypeOK
  <2>2. TypeOK'
    BY <1>1, <2>1 DEF IInv, TypeOK
  <2>3. AtWork'
    BY <1>1, <2>1 DEF IInv, AtWork
  <2>4. Marked' /\ Met' /\ ReplayedOnce' /\ GaugeCovers'
    BY <1>1, <2>1 DEF IInv, Marked, Met, ReplayedOnce, GaugeCovers, WaitingOf, Waiting
  <2> QED
    BY <2>2, <2>3, <2>4 DEF IInv
<1>3. CASE at[r] \notin present
  <2>1. Success(r) /\ step[r] # "idle"
    BY <1>1, <1>3 DEF LookAgain
  <2>2. at[r] \in replayed
    BY <1>1, <1>3 DEF IInv, AtWork
  <2>3. Marked' /\ Waiting' = Waiting
    BY <1>1 DEF IInv, Marked, Waiting
  <2>4. /\ replayed' \subseteq Items /\ replayedAt' \in [Items -> Times \cup {None}]
        /\ at[r] \in replayed' /\ replayed \subseteq replayed'
    BY <1>1, <2>2 DEF IInv, TypeOK
  <2> QED
    BY <1>1, <2>1, <2>3, <2>4, SuccessStep
<1> QED
  BY <1>2, <1>3

LEMMA MarkStep ==
    ASSUME IInv, NEW r \in Replays, Mark(r)
    PROVE  IInv'
<1>1. /\ step[r] # "idle" /\ Success(r)
      /\ UNCHANGED <<present, adding, gauge, known, overlapped, now>>
  BY DEF Mark, metric
<1>2. at[r] \in Items /\ at[r] \in present \cup replayed /\ now \in Times /\ now # None
  BY <1>1, DeadLettersAssumption DEF IInv, AtWork, TypeOK, Times
<1>3. CASE at[r] \in Waiting
  <2>1. /\ replayedAt' = [replayedAt EXCEPT ![at[r]] = now]
        /\ replayed' = replayed \cup {at[r]}
    BY <1>3 DEF Mark
  <2>2. /\ at[r] \in present
        /\ replayedAt'[at[r]] # None
        /\ \A i \in Items \ {at[r]} : replayedAt'[i] = replayedAt[i]
        /\ replayedAt' \in [Items -> Times \cup {None}]
    BY <1>2, <1>3, <2>1 DEF Waiting, IInv, TypeOK
  <2>3. Marked'
    BY <1>1, <1>2, <2>1, <2>2 DEF IInv, Marked
  <2>4. Waiting' \subseteq Waiting
    BY <1>1, <1>2, <2>2 DEF Waiting, IInv, TypeOK
  <2>5. replayed' \subseteq Items /\ at[r] \in replayed' /\ replayed \subseteq replayed'
    BY <1>2, <2>1 DEF IInv, TypeOK
  <2> QED
    BY <1>1, <2>2, <2>3, <2>4, <2>5, SuccessStep
<1>4. CASE at[r] \notin Waiting
  <2>1. replayedAt' = replayedAt /\ replayed' = replayed
    BY <1>4 DEF Mark
  <2>2. at[r] \in replayed
    BY <1>2, <1>4 DEF Waiting, IInv, Marked
  <2>3. Marked' /\ Waiting' = Waiting
    BY <1>1, <2>1 DEF IInv, Marked, Waiting
  <2>4. /\ replayed' \subseteq Items /\ replayedAt' \in [Items -> Times \cup {None}]
        /\ at[r] \in replayed' /\ replayed \subseteq replayed'
    BY <2>1, <2>2 DEF IInv, TypeOK
  <2> QED
    BY <1>1, <2>3, <2>4, SuccessStep
<1> QED
  BY <1>3, <1>4

LEMMA GiveUpStep ==
    ASSUME IInv, NEW r \in Replays, GiveUp(r)
    PROVE  IInv'
<1>1. /\ at'[r] = None /\ \A q \in Replays \ {r} : at'[q] = at[q]
      /\ step'[r] = "idle" /\ \A q \in Replays \ {r} : step'[q] = step[q]
      /\ UNCHANGED <<present, replayedAt, adding, gauge, known, replayed, successes,
                     overlapped, now>>
  BY DEF GiveUp, table, metric, IInv, TypeOK
<1>2. TypeOK'
  BY <1>1 DEF GiveUp, IInv, TypeOK
<1>3. AtWork' /\ Met'
  BY <1>1 DEF IInv, AtWork, Met
<1>4. Marked' /\ ReplayedOnce' /\ GaugeCovers'
  BY <1>1 DEF IInv, Marked, ReplayedOnce, GaugeCovers, WaitingOf, Waiting
<1> QED
  BY <1>2, <1>3, <1>4 DEF IInv

LEMMA CleanupStep ==
    ASSUME IInv, Cleanup
    PROVE  IInv'
<1>1. /\ present' \subseteq present
      /\ \A i \in present : replayedAt[i] = None => i \in present'
      /\ \A i \in Items : replayedAt'[i] = IF i \in present' THEN replayedAt[i] ELSE None
      /\ UNCHANGED <<adding, gauge, known, at, step, replayed, successes, overlapped, now>>
  BY DEF Cleanup, metric, cli
<1>2. replayedAt' \in [Items -> Times \cup {None}]
  BY DEF Cleanup, IInv, TypeOK
<1>3. TypeOK'
  BY <1>1, <1>2 DEF IInv, TypeOK
<1>4. Marked'
  BY <1>1 DEF IInv, Marked
<1>5. AtWork'
  <2>1. present \subseteq present' \cup replayed
    BY <1>1 DEF IInv, Marked, TypeOK
  <2> QED
    BY <1>1, <2>1 DEF IInv, AtWork
<1>6. Met' /\ ReplayedOnce'
  BY <1>1 DEF IInv, Met, ReplayedOnce
<1>7. Waiting' \subseteq Waiting
  BY <1>1 DEF IInv, TypeOK, Waiting
<1>8. GaugeCovers'
  BY <1>1, <1>7, FewerWait DEF IInv
<1> QED
  BY <1>3, <1>4, <1>5, <1>6, <1>8 DEF IInv

LEMMA TickStep ==
    ASSUME IInv, Tick
    PROVE  IInv'
<1>1. UNCHANGED <<present, replayedAt, adding, gauge, known, at, step, replayed, successes,
                  overlapped>>
  BY DEF Tick, table, metric, cli
<1>2. TypeOK'
  <2>1. now' \in Times
    BY DeadLettersAssumption DEF Tick, IInv, TypeOK, Times
  <2> QED
    BY <1>1, <2>1 DEF IInv, TypeOK
<1>3. AtWork' /\ Marked' /\ Met' /\ ReplayedOnce' /\ GaugeCovers'
  BY <1>1 DEF IInv, AtWork, Marked, Met, ReplayedOnce, GaugeCovers, WaitingOf, Waiting
<1> QED
  BY <1>2, <1>3 DEF IInv

---------------------------------------------------------------------------------
(* The invariant                                                                   *)

LEMMA NextIInv == IInv /\ [Next]_vars => IInv'
<1> SUFFICES ASSUME IInv, [Next]_vars PROVE IInv'
  OBVIOUS
<1>1. ASSUME NEW i \in Items, Insert(i) \/ \E r \in Replays : Find(r, i) PROVE IInv'
  BY <1>1, InsertStep, FindStep
<1>2. CASE Count \/ Restart
  BY <1>2, CountStep, RestartStep
<1>3. ASSUME NEW r \in Replays, LookAgain(r) \/ Mark(r) \/ GiveUp(r) PROVE IInv'
  BY <1>3, LookAgainStep, MarkStep, GiveUpStep
<1>4. CASE Cleanup
  BY <1>4, CleanupStep
<1>5. CASE Tick
  BY <1>5, TickStep
<1>6. CASE UNCHANGED vars
  BY <1>6 DEF vars, table, metric, cli, IInv, TypeOK, AtWork, Marked, Met, ReplayedOnce,
              GaugeCovers, WaitingOf, Waiting
<1> QED
  BY <1>1, <1>2, <1>3, <1>4, <1>5, <1>6 DEF Next

LEMMA AlwaysIInv == Spec => []IInv
  BY InitIInv, NextIInv, PTL DEF Spec

---------------------------------------------------------------------------------
(* The theorems                                                                    *)

\* The type invariant of the table, the gauge and the commands.
THEOREM TypeCorrect == Spec => []TypeOK
  BY AlwaysIInv, PTL DEF IInv

\* Two successes of one row need two replays that overlapped, and every success stands
\* for a marked row (replay_dlq_item, mark_replayed).
THEOREM OneSuccess == Spec => []ReplayedOnce
  BY AlwaysIInv, PTL DEF IInv

\* The gauge of no type shows fewer rows than wait of that type, once it has counted them,
\* however many types there are (_update_size_gauge).
THEOREM GaugeIsAbove == Spec => []GaugeCovers
  BY AlwaysIInv, PTL DEF IInv

\* The cleanup deletes replayed rows only, and to the day (cleanup_old_replayed).
THEOREM CleanupIsTimely == Spec => CleanedInTime
<1>1. IInv /\ [Next]_vars =>
        [\A i \in present :
           /\ i \notin present' => i \in replayed /\ now > replayedAt[i] + DaysOld * PerDay
           /\ Cleanup /\ i \in present' /\ replayedAt[i] # None =>
                  now < replayedAt[i] + (DaysOld + 1) * PerDay]_vars
  <2> SUFFICES ASSUME IInv, [Next]_vars, NEW i \in present
               PROVE  /\ i \notin present' =>
                           i \in replayed /\ now > replayedAt[i] + DaysOld * PerDay
                      /\ Cleanup /\ i \in present' /\ replayedAt[i] # None =>
                           now < replayedAt[i] + (DaysOld + 1) * PerDay
    OBVIOUS
  <2>1. i \in Items /\ now \in Nat /\ (replayedAt[i] # None => replayedAt[i] \in Nat)
    BY DeadLettersAssumption DEF IInv, TypeOK, Times
  <2>2. i \notin present' => Cleanup
    BY DEF Next, Insert, Find, Count, Restart, LookAgain, Mark, GiveUp, Tick, vars, table
  <2>3. Cleanup => present' = {j \in present : replayedAt[j] = None \/ ~Old(replayedAt[j])}
    BY DEF Cleanup
  <2>4. ASSUME i \notin present' PROVE i \in replayed /\ now > replayedAt[i] + DaysOld * PerDay
    <3>1. replayedAt[i] # None /\ Old(replayedAt[i])
      BY <2>2, <2>3, <2>4
    <3> QED
      BY <2>1, <3>1, OldToADay DEF IInv, Marked
  <2>5. ASSUME Cleanup, i \in present', replayedAt[i] # None
        PROVE  now < replayedAt[i] + (DaysOld + 1) * PerDay
    BY <2>1, <2>3, <2>5, OldToADay
  <2> QED
    BY <2>4, <2>5
<1> QED
  BY <1>1, AlwaysIInv, PTL DEF Spec, CleanedInTime
=================================================================================
