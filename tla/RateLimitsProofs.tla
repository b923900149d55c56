---------------------------- MODULE RateLimitsProofs -----------------------------
(* What the caches of overlapping processes keep to, proved for any processes,      *)
(* scopes, settings and time to live.  The invariant has two parts: an entry or a   *)
(* bucket that differs from its row was overtaken by another process, and then the  *)
(* row is younger than the entry; and a default about to be inserted is one that    *)
(* nobody decided about, or deleted, or decided about in the meantime.              *)
(*                                                                                  *)
(* And, in the second half, what the bucket on button presses promises.             *)
EXTENDS RateLimits, Callbacks, TLAPS

\* An entry and a bucket that are the row, or not there.
Fits(c, s) == c.config[s] \in {Absent, row[s]} /\ c.bucket[s] \in {Absent, row[s]}

\* An entry that is not the row is older than it.
Predates(c, s) == c.config[s] \notin {Absent, row[s]} => rowAge[s] <= c.age[s]

Sound(c, out) ==
    /\ c \in Service
    /\ \A s \in Scopes : (s \notin out => Fits(c, s)) /\ Predates(c, s)

\* The service a write to the row of s leaves behind: sound for the other scopes.
Kept(d, s, out) ==
    /\ d \in Service /\ d.bucket[s] = Absent
    /\ \A t \in Scopes \ {s} : (t \notin out => Fits(d, t)) /\ Predates(d, t)

\* The service of process p, and of no other, becomes d.
Becomes(p, d) ==
    /\ service' \in [Processes -> Service]
    /\ service'[p] = d /\ \A q \in Processes \ {p} : service'[q] = service[q]

Cached == \A p \in Processes : Sound(service[p], foreign[p])

Down == \A p \in Processes :
            phase[p] = "down" => service[p] = NewService /\ missing[p] = {}

Waiting == \A p \in Processes : \A s \in missing[p] :
               choice[s] \in {Undecided, Absent} \/ s \in contested

IInv == TypeOK /\ Cached /\ Down /\ DecisionStands /\ Waiting

---------------------------------------------------------------------------------
(* The operations of the service                                                   *)

LEMMA HalfIsNat == Half \in Nat /\ TTL \in Nat /\ TTL > 0
  BY RateLimitsAssumption DEF Half

LEMMA NewIsSound == ASSUME NEW out PROVE NewService \in Service /\ Sound(NewService, out)
  BY HalfIsNat DEF NewService, Service, Optional, Sound, Fits, Predates

\* What a command finds or builds when it asks for the bucket of a scope
\* (get_token_bucket, get_rate_limit_config, _refresh_config).
LEMMA ConsultedIs ==
    ASSUME TypeOK, NEW c \in Service, NEW t \in Scopes, NEW s \in Scopes
    PROVE  LET d == Consulted(c, t)
           IN  /\ d \in Service
               /\ \/ d.config[s] = c.config[s] /\ d.age[s] = c.age[s]
                  \/ d.config[s] = row[s]
               /\ \/ d.bucket[s] = c.bucket[s]
                  \/ /\ d.bucket[s] = d.config[s]
                     /\ \/ d.config[s] = row[s]
                        \/ row[s] = Absent
                        \/ d.config[s] = c.config[s] /\ Valid(c, s)
<1> DEFINE k == Configured(c, t)
           d == Consulted(c, t)
<1>1. /\ k \in Service /\ k.bucket = c.bucket
      /\ \/ k.config[s] = c.config[s] /\ k.age[s] = c.age[s]
         \/ k.config[s] = row[s]
      /\ s = t => \/ k.config[s] = row[s]
                  \/ row[s] = Absent
                  \/ k.config[s] = c.config[s] /\ Valid(c, s)
  <2>1. CASE Valid(c, t)
    <3>1. k = c
      BY <2>1 DEF Configured
    <3> QED
      BY <2>1, <3>1
  <2>2. CASE ~Valid(c, t) /\ row[t] = Absent
    <3>1. k = c
      BY <2>2 DEF Configured, Refreshed
    <3> QED
      BY <2>2, <3>1
  <2>3. CASE ~Valid(c, t) /\ row[t] # Absent
    <3>1. k = [c EXCEPT !.config[t] = row[t], !.age[t] = 0]
      BY <2>3 DEF Configured, Refreshed
    <3>2. row[t] \in Optional /\ 0 \in 0..TTL
      BY HalfIsNat DEF TypeOK
    <3> HIDE DEF k
    <3>3. /\ k \in Service /\ k.bucket = c.bucket
          /\ k.config = [c.config EXCEPT ![t] = row[t]]
          /\ k.age = [c.age EXCEPT ![t] = 0]
      BY <3>1, <3>2 DEF Service
    <3> QED
      BY <3>3 DEF Service
  <2> QED
    BY <2>1, <2>2, <2>3
<1> DEFINE Goal == /\ d \in Service
                   /\ \/ d.config[s] = c.config[s] /\ d.age[s] = c.age[s]
                      \/ d.config[s] = row[s]
                   /\ \/ d.bucket[s] = c.bucket[s]
                      \/ /\ d.bucket[s] = d.config[s]
                         /\ \/ d.config[s] = row[s]
                            \/ row[s] = Absent
                            \/ d.config[s] = c.config[s] /\ Valid(c, s)
<1>2. ASSUME c.bucket[t] # Absent PROVE Goal
  <2>1. d = c
    BY <1>2 DEF Consulted
  <2> HIDE DEF d
  <2> QED
    BY <2>1
<1>3. ASSUME c.bucket[t] = Absent PROVE Goal
  <2>1. d = [k EXCEPT !.bucket[t] = k.config[t]]
    BY <1>3 DEF Consulted
  <2> HIDE DEF k, d
  <2>2. /\ d \in Service /\ d.config = k.config /\ d.age = k.age
        /\ d.bucket[s] = IF s = t THEN k.config[t] ELSE k.bucket[s]
    BY <1>1, <2>1 DEF Service
  <2>3. CASE s = t
    BY <1>1, <2>2, <2>3
  <2>4. CASE s # t
    BY <1>1, <2>2, <2>4
  <2> QED
    BY <2>3, <2>4
<1>4. Goal
  BY <1>2, <1>3
<1> QED
  BY <1>4

LEMMA ConsultedIsSound ==
    ASSUME TypeOK, NEW c, NEW out, Sound(c, out)
    PROVE  Sound(Consulted(c, "admin"), out)
<1>1. c \in Service /\ "admin" \in Scopes
  BY RateLimitsAssumption DEF Sound
<1> DEFINE d == Consulted(c, "admin")
<1>2. ASSUME NEW s \in Scopes PROVE (s \notin out => Fits(d, s)) /\ Predates(d, s)
  <2>1. /\ \/ d.config[s] = c.config[s] /\ d.age[s] = c.age[s]
           \/ d.config[s] = row[s]
        /\ d.bucket[s] = c.bucket[s] \/ d.bucket[s] = d.config[s]
    BY <1>1, ConsultedIs
  <2> HIDE DEF d
  <2> QED
    BY <2>1 DEF Sound, Fits, Predates
<1> QED
  BY <1>1, <1>2, ConsultedIs DEF Sound

\* A list renews every entry that has a row (_refresh_all_configs).
LEMMA ListedIsSound ==
    ASSUME TypeOK, NEW c, NEW out, Sound(c, out)
    PROVE  Sound(Listed(c), out) /\ Listed(c).bucket = c.bucket
<1> DEFINE d == Listed(c)
<1>1. CASE c.listAge < Half
  BY <1>1 DEF Listed
<1>2. CASE ~(c.listAge < Half)
  <2> DEFINE config == [s \in Scopes |-> IF row[s] = Absent THEN c.config[s] ELSE row[s]]
             age == [s \in Scopes |-> IF row[s] = Absent THEN c.age[s] ELSE 0]
  <2>3. c \in Service /\ config \in [Scopes -> Optional] /\ age \in [Scopes -> 0..TTL]
    BY HalfIsNat DEF Sound, Service, TypeOK
  <2>4. d = [c EXCEPT !.config = config, !.age = age, !.listAge = 0]
    BY <1>2, <2>3 DEF Listed, Service
  <2>5. /\ \A s \in Scopes : config[s] = IF row[s] = Absent THEN c.config[s] ELSE row[s]
        /\ \A s \in Scopes : age[s] = IF row[s] = Absent THEN c.age[s] ELSE 0
    OBVIOUS
  <2> HIDE DEF config, age, d
  <2>6. /\ d.bucket = c.bucket /\ d.config = config /\ d.age = age /\ d.listAge = 0
        /\ d = [config |-> d.config, age |-> d.age, bucket |-> d.bucket, listAge |-> d.listAge]
    BY <2>3, <2>4 DEF Service
  <2>7. c.bucket \in [Scopes -> Optional] /\ 0 \in 0..Half
    BY <2>3, HalfIsNat DEF Service
  <2>1. d \in Service
    BY <2>3, <2>6, <2>7 DEF Service
  <2>2. Sound(d, out)
    BY <2>1, <2>3, <2>5, <2>6 DEF Sound, Fits, Predates
  <2> QED
    BY <2>2, <2>6 DEF d
<1> QED
  BY <1>1, <1>2

---------------------------------------------------------------------------------
(* Steps of one process                                                            *)

\* A step that changes the service of one process and no row.
LEMMA LocalStep ==
    ASSUME IInv, NEW p \in Processes, NEW c, Sound(c, foreign[p]), phase[p] # "down",
           service' = [service EXCEPT ![p] = c],
           UNCHANGED <<row, phase, missing, rowAge, foreign, choice, contested>>
    PROVE  IInv'
<1>1. /\ service'[p] = c /\ \A q \in Processes \ {p} : service'[q] = service[q]
      /\ service' \in [Processes -> Service]
  BY DEF IInv, TypeOK, Sound
<1>2. TypeOK'
  BY <1>1 DEF IInv, TypeOK
<1>3. Cached'
  BY <1>1 DEF IInv, Cached, Sound, Fits, Predates
<1>4. Down'
  BY <1>1 DEF IInv, Down
<1>5. DecisionStands' /\ Waiting'
  BY DEF IInv, DecisionStands, Waiting
<1> QED
  BY <1>2, <1>3, <1>4, <1>5 DEF IInv

\* A step that writes a row, and with it the entry of its process
\* (set_rate_limit_config, delete_config).
LEMMA WriteStep ==
    ASSUME TypeOK, Cached, NEW p \in Processes, NEW s \in Scopes, NEW v \in Optional,
           Writes(p, s, v), NEW d, Kept(d, s, foreign[p]), d.config[s] = v, Becomes(p, d)
    PROVE  /\ row' \in [Scopes -> Optional] /\ rowAge' \in [Scopes -> 0..TTL]
           /\ foreign' \in [Processes -> SUBSET Scopes]
           /\ row'[s] = v /\ \A t \in Scopes \ {s} : row'[t] = row[t]
           /\ Cached'
<1>1. /\ row' \in [Scopes -> Optional] /\ rowAge' \in [Scopes -> 0..TTL]
      /\ foreign' \in [Processes -> SUBSET Scopes]
  BY HalfIsNat DEF TypeOK, Writes
<1>2. /\ row'[s] = v /\ \A t \in Scopes \ {s} : row'[t] = row[t]
      /\ rowAge'[s] = 0 /\ \A t \in Scopes \ {s} : rowAge'[t] = rowAge[t]
      /\ foreign'[p] = foreign[p] \ {s}
      /\ \A q \in Processes \ {p} : foreign'[q] = foreign[q] \cup {s}
      /\ service'[p] = d /\ \A q \in Processes \ {p} : service'[q] = service[q]
  BY DEF TypeOK, Writes, Becomes
<1>3. Sound(service[p], foreign[p])' 
  <2>1. ASSUME NEW t \in Scopes
        PROVE  (t \notin foreign'[p] => Fits(d, t)') /\ Predates(d, t)'
    <3>1. CASE t = s
      BY <1>2, <3>1 DEF Fits, Predates, Kept
    <3>2. CASE t # s
      BY <1>2, <3>2 DEF Fits, Predates, Kept
    <3> QED
      BY <3>1, <3>2
  <2> QED
    BY <1>2, <2>1 DEF Sound, Fits, Predates, Kept
<1>4. ASSUME NEW q \in Processes \ {p} PROVE Sound(service[q], foreign[q])'
  <2>1. Sound(service[q], foreign[q]) /\ service[q].age[s] \in 0..TTL
    BY DEF Cached, Sound, Service
  <2>2. ASSUME NEW t \in Scopes
        PROVE  (t \notin foreign'[q] => Fits(service[q], t)') /\ Predates(service[q], t)'
    <3>1. CASE t = s
      BY <1>2, <2>1, <3>1 DEF Fits, Predates
    <3>2. CASE t # s
      BY <1>2, <2>1, <3>2 DEF Fits, Predates, Sound
    <3> QED
      BY <3>1, <3>2
  <2> QED
    BY <1>2, <2>1, <2>2 DEF Sound, Fits, Predates
<1> QED
  BY <1>1, <1>2, <1>3, <1>4 DEF Cached

Replaced(c, s, v, n) == [c EXCEPT !.config[s] = v, !.age[s] = n, !.bucket[s] = Absent]

\* What a write of v, or a deletion, leaves in the service of its process.
LEMMA ReplacedIs ==
    ASSUME NEW c \in Service, NEW s \in Scopes, NEW v \in Optional, NEW n \in 0..TTL,
           NEW out, Sound(c, out)
    PROVE  LET d == Replaced(c, s, v, n)
           IN  /\ Kept(d, s, out) /\ d.config[s] = v
               /\ \A t \in Scopes \ {s} : d.bucket[t] = c.bucket[t]
<1> DEFINE d == Replaced(c, s, v, n)
           config == [c.config EXCEPT ![s] = v]
           age == [c.age EXCEPT ![s] = n]
           bucket == [c.bucket EXCEPT ![s] = Absent]
<1>6. c \in Service /\ d = [c EXCEPT !.config = config, !.age = age, !.bucket = bucket]
  BY DEF Replaced, Service
<1>7. d = [config |-> config, age |-> age, bucket |-> bucket, listAge |-> c.listAge]
  <2> HIDE DEF config, age, bucket, d
  <2> QED
    BY <1>6 DEF Service
<1>1. /\ d.config = config /\ d.age = age /\ d.bucket = bucket /\ d.listAge = c.listAge
      /\ d = [config |-> d.config, age |-> d.age, bucket |-> d.bucket, listAge |-> d.listAge]
  <2> HIDE DEF config, age, bucket, d
  <2> QED
    BY <1>7
<1> HIDE DEF d
<1>2. d \in Service
  <2>1. /\ d.config \in [Scopes -> Optional] /\ d.age \in [Scopes -> 0..TTL]
        /\ d.bucket \in [Scopes -> Optional] /\ d.listAge \in 0..Half
    BY <1>1 DEF Service, Optional
  <2> QED
    BY <1>1, <2>1 DEF Service
<1>3. d.config[s] = v /\ d.bucket[s] = Absent
  BY <1>1 DEF Service
<1>4. ASSUME NEW t \in Scopes \ {s}
      PROVE  d.config[t] = c.config[t] /\ d.age[t] = c.age[t] /\ d.bucket[t] = c.bucket[t]
  BY <1>1 DEF Service
<1>5. Kept(d, s, out)
  BY <1>2, <1>3, <1>4 DEF Kept, Sound, Fits, Predates
<1> QED
  BY <1>3, <1>4, <1>5 DEF d

LEMMA StoredIs ==
    ASSUME NEW c, NEW out, Sound(c, out), NEW s \in Scopes, NEW v \in Settings
    PROVE  LET d == Stored(c, s, v)
           IN  /\ Kept(d, s, out) /\ d.config[s] = v
               /\ \A t \in Scopes \ {s} : d.bucket[t] = c.bucket[t]
<1>1. c \in Service /\ v \in Optional /\ 0 \in 0..TTL
  BY HalfIsNat DEF Sound, Optional
<1>2. Stored(c, s, v) = Replaced(c, s, v, 0)
  BY DEF Stored, Replaced
<1> QED
  BY <1>1, <1>2, ReplacedIs

LEMMA DroppedIs ==
    ASSUME NEW c, NEW out, Sound(c, out), NEW s \in Scopes
    PROVE  LET d == Dropped(c, s)
           IN  /\ Kept(d, s, out) /\ d.config[s] = Absent
               /\ \A t \in Scopes \ {s} : d.bucket[t] = c.bucket[t]
<1>1. c \in Service /\ Absent \in Optional /\ TTL \in 0..TTL
  BY HalfIsNat DEF Sound, Optional
<1>2. Dropped(c, s) = Replaced(c, s, Absent, TTL)
  BY DEF Dropped, Replaced
<1> QED
  BY <1>1, <1>2, ReplacedIs

\* A decision of an administrator: the rest of SetCommand and DeleteCommand.
LEMMA DecisionStep ==
    ASSUME IInv, NEW p \in Processes, NEW s \in Scopes, NEW v \in Optional, Up(p),
           Writes(p, s, v), Decides(s, v), UNCHANGED <<phase, missing>>,
           NEW d, Becomes(p, d), row'[s] = v, \A t \in Scopes \ {s} : row'[t] = row[t]
    PROVE  /\ choice' \in [Scopes -> Optional \cup {Undecided}] /\ contested' \subseteq Scopes
           /\ Down' /\ DecisionStands' /\ Waiting'
<1>1. /\ choice' \in [Scopes -> Optional \cup {Undecided}] /\ contested' \subseteq Scopes
      /\ choice'[s] = v /\ \A t \in Scopes \ {s} : choice'[t] = choice[t]
      /\ \A t \in Scopes \ {s} : t \in contested' <=> t \in contested
      /\ (\E q \in Processes : s \in missing[q]) => s \in contested'
  BY DEF Decides, IInv, TypeOK
<1>2. Down'
  BY DEF IInv, Down, Up, Becomes
<1>3. DecisionStands'
  BY <1>1 DEF IInv, DecisionStands
<1>4. Waiting'
  <2> SUFFICES ASSUME NEW q \in Processes, NEW t \in missing[q]
               PROVE  choice'[t] \in {Undecided, Absent} \/ t \in contested'
    BY DEF Waiting
  <2>1. t \in Scopes
    BY RateLimitsAssumption DEF IInv, TypeOK
  <2>2. CASE t = s
    BY <1>1, <2>2
  <2>3. CASE t # s
    BY <1>1, <2>1, <2>3 DEF IInv, Waiting
  <2> QED
    BY <2>2, <2>3
<1> QED
  BY <1>1, <1>2, <1>3, <1>4

LEMMA SetStep ==
    ASSUME IInv, NEW p \in Processes, NEW s \in Scopes, NEW v \in Settings, SetCommand(p, s, v)
    PROVE  IInv'
<1> DEFINE c == Consulted(service[p], "admin")
           d == Stored(c, s, v)
<1>1. Sound(c, foreign[p]) /\ c \in Service
  BY ConsultedIsSound DEF IInv, Cached, Sound
<1>2. Kept(d, s, foreign[p]) /\ d \in Service /\ d.config[s] = v
  BY <1>1, StoredIs DEF Kept
<1>3. /\ Up(p) /\ Writes(p, s, v) /\ Decides(s, v) /\ phase' = phase /\ missing' = missing
      /\ service' = [service EXCEPT ![p] = d]
  BY DEF SetCommand
<1>7. Becomes(p, d)
  BY <1>2, <1>3 DEF Becomes, IInv, TypeOK
<1>4. v \in Optional
  BY DEF Optional
<1> HIDE DEF c, d
<1>5. /\ row' \in [Scopes -> Optional] /\ rowAge' \in [Scopes -> 0..TTL]
      /\ foreign' \in [Processes -> SUBSET Scopes]
      /\ row'[s] = v /\ \A t \in Scopes \ {s} : row'[t] = row[t]
      /\ Cached'
  BY <1>2, <1>3, <1>4, <1>7, WriteStep DEF IInv
<1>6. /\ choice' \in [Scopes -> Optional \cup {Undecided}] /\ contested' \subseteq Scopes
      /\ Down' /\ DecisionStands' /\ Waiting'
  BY <1>3, <1>4, <1>5, <1>7, DecisionStep
<1> QED
  BY <1>3, <1>5, <1>6, <1>7 DEF IInv, TypeOK, Becomes

LEMMA DeleteStep ==
    ASSUME IInv, NEW p \in Processes, NEW s \in Scopes, DeleteCommand(p, s)
    PROVE  IInv'
<1> DEFINE c == Consulted(service[p], "admin")
           d == Dropped(c, s)
<1>1. Sound(c, foreign[p]) /\ c \in Service
  BY ConsultedIsSound DEF IInv, Cached, Sound
<1>2. Kept(d, s, foreign[p]) /\ d \in Service /\ d.config[s] = Absent
  BY <1>1, DroppedIs DEF Kept
<1>3. /\ Up(p) /\ Writes(p, s, Absent) /\ Decides(s, Absent)
      /\ phase' = phase /\ missing' = missing
      /\ service' = [service EXCEPT ![p] = d]
  BY DEF DeleteCommand
<1>7. Becomes(p, d)
  BY <1>2, <1>3 DEF Becomes, IInv, TypeOK
<1>4. Absent \in Optional
  BY DEF Optional
<1> HIDE DEF c, d
<1>5. /\ row' \in [Scopes -> Optional] /\ rowAge' \in [Scopes -> 0..TTL]
      /\ foreign' \in [Processes -> SUBSET Scopes]
      /\ row'[s] = Absent /\ \A t \in Scopes \ {s} : row'[t] = row[t]
      /\ Cached'
  BY <1>2, <1>3, <1>4, <1>7, WriteStep DEF IInv
<1>6. /\ choice' \in [Scopes -> Optional \cup {Undecided}] /\ contested' \subseteq Scopes
      /\ Down' /\ DecisionStands' /\ Waiting'
  BY <1>3, <1>4, <1>5, <1>7, DecisionStep
<1> QED
  BY <1>3, <1>5, <1>6, <1>7 DEF IInv, TypeOK, Becomes

LEMMA InsertStep ==
    ASSUME IInv, NEW p \in Processes, NEW s \in Scopes, StartInserts(p, s)
    PROVE  IInv'
<1> DEFINE c == service[p]
           v == DefaultOf[s]
           d == Stored(c, s, v)
<1>1. Sound(c, foreign[p]) /\ c \in Service /\ v \in Settings /\ v \in Optional
  BY RateLimitsAssumption DEF IInv, Cached, Sound, Optional
<1>2. Kept(d, s, foreign[p]) /\ d \in Service /\ d.config[s] = v
  BY <1>1, StoredIs DEF Kept
<1>3. /\ s \in missing[p] /\ Writes(p, s, v)
      /\ service' = [service EXCEPT ![p] = d]
      /\ missing' = [missing EXCEPT ![p] = @ \ {s}]
      /\ phase' = phase /\ choice' = choice /\ contested' = contested
  BY DEF StartInserts
<1>10. Becomes(p, d)
  BY <1>2, <1>3 DEF Becomes, IInv, TypeOK
<1> HIDE DEF d
<1>4. /\ row' \in [Scopes -> Optional] /\ rowAge' \in [Scopes -> 0..TTL]
      /\ foreign' \in [Processes -> SUBSET Scopes]
      /\ row'[s] = v /\ \A t \in Scopes \ {s} : row'[t] = row[t]
      /\ Cached'
  BY <1>1, <1>2, <1>3, <1>10, WriteStep DEF IInv
<1>5. /\ missing' \in [Processes -> SUBSET Defaults] /\ s \in Defaults
      /\ \A q \in Processes : missing'[q] \subseteq missing[q]
      /\ phase[p] # "down"
  BY <1>3 DEF IInv, TypeOK, Down
<1>6. TypeOK'
  BY <1>3, <1>4, <1>5, <1>10 DEF IInv, TypeOK, Becomes
<1>7. Down'
  BY <1>3, <1>5, <1>10 DEF IInv, Down, Becomes
<1>8. DecisionStands'
  <2>1. choice[s] \in {Undecided, Absent} \/ s \in contested
    BY <1>3 DEF IInv, Waiting
  <2> QED
    BY <1>3, <1>4, <1>5, <2>1 DEF IInv, DecisionStands
<1>9. Waiting'
  BY <1>3, <1>5 DEF IInv, Waiting
<1> QED
  BY <1>4, <1>6, <1>7, <1>8, <1>9 DEF IInv

LEMMA StartReadsStep ==
    ASSUME IInv, NEW p \in Processes, StartReads(p)
    PROVE  IInv'
<1>1. /\ phase[p] = "down" /\ phase' = [phase EXCEPT ![p] = "starting"]
      /\ missing'[p] = {s \in Defaults : row[s] = Absent}
      /\ \A q \in Processes \ {p} : missing'[q] = missing[q]
      /\ missing' \in [Processes -> SUBSET Defaults]
      /\ foreign'[p] = {} /\ \A q \in Processes \ {p} : foreign'[q] = foreign[q]
      /\ foreign' \in [Processes -> SUBSET Scopes]
      /\ row' = row /\ service' = service /\ rowAge' = rowAge /\ choice' = choice
      /\ contested' = contested
  BY DEF StartReads, Lacks, IInv, TypeOK
<1>2. TypeOK'
  BY <1>1 DEF IInv, TypeOK
<1>3. ASSUME NEW q \in Processes PROVE Sound(service[q], foreign[q])'
  <2>1. CASE q = p
    <3>1. service[p] = NewService
      BY <1>1 DEF IInv, Down
    <3>2. Sound(service[p], {})
      BY <3>1, NewIsSound
    <3> QED
      BY <1>1, <2>1, <3>2 DEF Sound, Fits, Predates
  <2>2. CASE q # p
    BY <1>1, <2>2 DEF IInv, Cached, Sound, Fits, Predates
  <2> QED
    BY <2>1, <2>2
<1>4. Down'
  BY <1>1 DEF IInv, Down, TypeOK
<1>5. Waiting'
  <2> SUFFICES ASSUME NEW q \in Processes, NEW s \in missing'[q]
               PROVE  choice[s] \in {Undecided, Absent} \/ s \in contested
    BY <1>1 DEF Waiting
  <2>1. CASE q = p
    <3>1. s \in Scopes /\ row[s] = Absent /\ DefaultOf[s] # Absent
      BY <1>1, <2>1, RateLimitsAssumption
    <3> QED
      BY <3>1 DEF IInv, DecisionStands
  <2>2. CASE q # p
    BY <1>1, <2>2 DEF IInv, Waiting
  <2> QED
    BY <2>1, <2>2
<1>6. DecisionStands'
  BY <1>1 DEF IInv, DecisionStands
<1> QED
  BY <1>2, <1>3, <1>4, <1>5, <1>6 DEF IInv, Cached

LEMMA EndsStep ==
    ASSUME IInv, NEW p \in Processes, Ends(p)
    PROVE  IInv'
<1>1. /\ phase' = [phase EXCEPT ![p] = "down"]
      /\ service'[p] = NewService /\ \A q \in Processes \ {p} : service'[q] = service[q]
      /\ service' \in [Processes -> Service]
      /\ missing'[p] = {} /\ \A q \in Processes \ {p} : missing'[q] = missing[q]
      /\ missing' \in [Processes -> SUBSET Defaults]
      /\ row' = row /\ rowAge' = rowAge /\ foreign' = foreign /\ choice' = choice
      /\ contested' = contested
  BY NewIsSound DEF Ends, IInv, TypeOK
<1>2. TypeOK'
  BY <1>1 DEF IInv, TypeOK
<1>3. ASSUME NEW q \in Processes PROVE Sound(service[q], foreign[q])'
  <2>1. Sound(service'[q], foreign[q])
    BY <1>1, NewIsSound DEF IInv, Cached
  <2> QED
    BY <1>1, <2>1 DEF Sound, Fits, Predates
<1>4. Down'
  BY <1>1 DEF IInv, Down, TypeOK
<1>5. Waiting' /\ DecisionStands'
  BY <1>1 DEF IInv, Waiting, DecisionStands
<1> QED
  BY <1>2, <1>3, <1>4, <1>5 DEF IInv, Cached

LEMMA StartedStep ==
    ASSUME IInv, NEW p \in Processes, Started(p)
    PROVE  IInv'
<1>1. TypeOK'
  BY DEF Started, IInv, TypeOK
<1>2. Cached'
  BY DEF Started, IInv, Cached, Sound, Fits, Predates
<1>3. Down'
  BY DEF Started, IInv, Down, TypeOK
<1>4. Waiting' /\ DecisionStands'
  BY DEF Started, IInv, Waiting, DecisionStands
<1> QED
  BY <1>1, <1>2, <1>3, <1>4 DEF IInv

LEMMA OlderIs ==
    ASSUME NEW m \in Nat, NEW n \in 0..m
    PROVE  Older(n, m) \in 0..m /\ n <= Older(n, m)
  BY DEF Older

LEMMA TickStep ==
    ASSUME IInv, Tick
    PROVE  IInv'
<1>1. /\ rowAge' \in [Scopes -> 0..TTL]
      /\ \A s \in Scopes : rowAge'[s] = Older(rowAge[s], TTL)
  BY HalfIsNat, OlderIs DEF Tick, IInv, TypeOK
<1>2. ASSUME NEW p \in Processes
      PROVE  /\ service'[p] \in Service /\ service'[p].config = service[p].config
             /\ service'[p].bucket = service[p].bucket
             /\ \A s \in Scopes : service'[p].age[s] = Older(service[p].age[s], TTL)
  <2> DEFINE c == service[p]
             age == [s \in Scopes |-> Older(c.age[s], TTL)]
  <2>1. c \in Service /\ service'[p] = [c EXCEPT !.age = age, !.listAge = Older(c.listAge, Half)]
    BY DEF Tick, IInv, TypeOK, Service
  <2>2. age \in [Scopes -> 0..TTL] /\ Older(c.listAge, Half) \in 0..Half
    BY <2>1, HalfIsNat, OlderIs DEF Service
  <2>3. \A s \in Scopes : age[s] = Older(c.age[s], TTL)
    OBVIOUS
  <2> HIDE DEF age, c
  <2>4. /\ service'[p] \in Service /\ service'[p].config = c.config
        /\ service'[p].bucket = c.bucket /\ service'[p].age = age
    BY <2>1, <2>2 DEF Service
  <2> QED
    BY <2>3, <2>4 DEF c
<1>3. /\ row' = row /\ phase' = phase /\ missing' = missing /\ foreign' = foreign
      /\ choice' = choice /\ contested' = contested
      /\ service' \in [Processes -> Service]
  BY <1>2 DEF Tick
<1>4. TypeOK'
  BY <1>1, <1>3 DEF IInv, TypeOK
<1>5. ASSUME NEW p \in Processes, NEW s \in Scopes
      PROVE  (s \notin foreign[p] => Fits(service[p], s)') /\ Predates(service[p], s)'
  <2>1. rowAge[s] \in 0..TTL /\ service[p].age[s] \in 0..TTL
    BY DEF IInv, TypeOK, Service
  <2>2. (s \notin foreign[p] => Fits(service[p], s)) /\ Predates(service[p], s)
    BY DEF IInv, Cached, Sound
  <2> QED
    BY <1>1, <1>2, <1>3, <2>1, <2>2, HalfIsNat DEF Fits, Predates, Older
<1>6. Cached'
  BY <1>2, <1>3, <1>5 DEF Cached, Sound, Fits, Predates
<1>7. Down'
  <2> SUFFICES ASSUME NEW p \in Processes, phase[p] = "down" PROVE service'[p] = NewService
    BY <1>3 DEF IInv, Down
  <2>1. service[p] = NewService
    BY DEF IInv, Down
  <2>2. Older(TTL, TTL) = TTL /\ Older(Half, Half) = Half
    BY HalfIsNat DEF Older
  <2> DEFINE age == [s \in Scopes |-> Older(NewService.age[s], TTL)]
  <2>3. age = NewService.age
    BY <2>2 DEF NewService
  <2>4. service'[p] = [NewService EXCEPT !.age = age, !.listAge = Older(NewService.listAge, Half)]
    BY <2>1 DEF Tick, NewService
  <2> HIDE DEF age
  <2> QED
    BY <2>2, <2>3, <2>4 DEF NewService
<1>8. Waiting' /\ DecisionStands'
  BY <1>3 DEF IInv, Waiting, DecisionStands
<1> QED
  BY <1>4, <1>6, <1>7, <1>8 DEF IInv

---------------------------------------------------------------------------------
(* The invariant                                                                   *)

LEMMA InitIInv == Init => IInv
<1> SUFFICES ASSUME Init PROVE IInv
  OBVIOUS
<1>1. TypeOK
  BY NewIsSound, HalfIsNat, RateLimitsAssumption DEF Init, TypeOK, Optional
<1>2. Cached
  BY NewIsSound DEF Init, Cached
<1>3. Down /\ DecisionStands /\ Waiting
  BY DEF Init, Down, DecisionStands, Waiting
<1> QED
  BY <1>1, <1>2, <1>3 DEF IInv

LEMMA NextIInv == IInv /\ [Next]_vars => IInv'
<1> SUFFICES ASSUME IInv, [Next]_vars PROVE IInv'
  OBVIOUS
<1>1. ASSUME NEW p \in Processes, StartReads(p) \/ Started(p) \/ Ends(p) PROVE IInv'
  BY <1>1, StartReadsStep, StartedStep, EndsStep
<1>2. ASSUME NEW p \in Processes, ListCommand(p) PROVE IInv'
  <2> DEFINE c == Listed(Consulted(service[p], "admin"))
  <2>1. Sound(c, foreign[p])
    BY ConsultedIsSound, ListedIsSound DEF IInv, Cached
  <2>2. phase[p] # "down"
    BY <1>2 DEF ListCommand, Up
  <2> QED
    BY <1>2, <2>1, <2>2, LocalStep DEF ListCommand
<1>3. ASSUME NEW p \in Processes, OtherCommand(p) PROVE IInv'
  <2> DEFINE c == Consulted(service[p], "admin")
  <2>1. Sound(c, foreign[p])
    BY ConsultedIsSound DEF IInv, Cached
  <2>2. phase[p] # "down"
    BY <1>3 DEF OtherCommand, Up
  <2> QED
    BY <1>3, <2>1, <2>2, LocalStep DEF OtherCommand
<1>4. ASSUME NEW p \in Processes, NEW s \in Scopes,
             StartInserts(p, s) \/ DeleteCommand(p, s) \/ \E v \in Settings : SetCommand(p, s, v)
      PROVE  IInv'
  BY <1>4, InsertStep, DeleteStep, SetStep
<1>5. CASE Tick
  BY <1>5, TickStep
<1>6. CASE UNCHANGED vars
  BY <1>6 DEF vars, IInv, TypeOK, Cached, Sound, Fits, Predates, Down, DecisionStands, Waiting
<1> QED
  BY <1>1, <1>2, <1>3, <1>4, <1>5, <1>6 DEF Next

LEMMA AlwaysIInv == Spec => []IInv
  BY InitIInv, NextIInv, PTL DEF Spec

---------------------------------------------------------------------------------
(* The theorems                                                                    *)

\* The type invariant of the limits, for any processes, scopes and time to live.
THEOREM TypeCorrect == Spec => []TypeOK
  BY AlwaysIInv, PTL DEF IInv

\* A bucket differs from its row only if another process changed the row
\* (set_rate_limit_config, delete_config).
THEOREM BucketsFollow == Spec => []BucketIsRow
<1>1. IInv => BucketIsRow
  BY DEF IInv, Cached, Sound, Fits, BucketIsRow
<1> QED
  BY <1>1, AlwaysIInv, PTL

\* What an administrator decided stands, but for the defaults of a start
\* (ensure_defaults).
THEOREM DecisionsStand == Spec => []DecisionStands
  BY AlwaysIInv, PTL DEF IInv

\* A bucket after a step is none, the old one or the one a command asked for.
Known(p, s) ==
    service'[p].bucket[s] \in {Absent, service[p].bucket[s],
                               Consulted(service[p], "admin").bucket[s]}

\* A new bucket has the numbers of a row no older than the time to live
\* (get_token_bucket, _is_cache_valid).
THEOREM BuildsAreRecent == Spec => BuiltFromRecent
<1> DEFINE Recent(new, s) == new = row[s] \/ row[s] = Absent \/ rowAge[s] < TTL
           Built(p, s) == service[p].bucket[s] = Absent /\ service'[p].bucket[s] # Absent
                              => Recent(service'[p].bucket[s], s)
<1>1. ASSUME IInv, NEW p \in Processes, NEW s \in Scopes,
             Consulted(service[p], "admin").bucket[s] # service[p].bucket[s]
      PROVE  Recent(Consulted(service[p], "admin").bucket[s], s)
             \/ Consulted(service[p], "admin").bucket[s] = Absent
  <2> DEFINE d == Consulted(service[p], "admin")
  <2>1. service[p] \in Service /\ "admin" \in Scopes /\ Predates(service[p], s)
        /\ rowAge[s] \in 0..TTL
    BY <1>1, RateLimitsAssumption DEF IInv, Cached, Sound, TypeOK
  <2>2. /\ d.bucket[s] = d.config[s]
        /\ \/ d.config[s] = row[s] \/ row[s] = Absent
           \/ d.config[s] = service[p].config[s] /\ Valid(service[p], s)
    BY <1>1, <2>1, ConsultedIs DEF IInv
  <2>3. CASE d.config[s] = row[s] \/ row[s] = Absent
    BY <2>2, <2>3
  <2>4. CASE d.config[s] = service[p].config[s] /\ Valid(service[p], s)
    <3>1. service[p].age[s] \in 0..TTL /\ service[p].age[s] < TTL
      BY <2>1, <2>4 DEF Valid, Service
    <3> HIDE DEF d
    <3>2. d.bucket[s] \in {Absent, row[s]} \/ rowAge[s] <= service[p].age[s]
      BY <2>1, <2>2, <2>4 DEF Predates
    <3> QED
      BY <2>1, <3>1, <3>2, HalfIsNat DEF d
  <2> QED
    BY <2>2, <2>3, <2>4
<1>2. ASSUME IInv, NEW p \in Processes, NEW s \in Scopes,
             service'[p].bucket[s] \in {Absent, service[p].bucket[s],
                                        Consulted(service[p], "admin").bucket[s]}
      PROVE  Built(p, s)
  BY <1>1, <1>2
<1>3. ASSUME IInv, [Next]_vars, NEW p \in Processes, NEW s \in Scopes
      PROVE  Built(p, s)
  <2>1. service \in [Processes -> Service] /\ Consulted(service[p], "admin") \in Service
    BY <1>3, ConsultedIsSound DEF IInv, TypeOK, Cached, Sound
  <2>11. /\ Sound(service[p], foreign[p])
        /\ Sound(Consulted(service[p], "admin"), foreign[p])
    BY <1>3, ConsultedIsSound DEF IInv, Cached
  <2>2. ASSUME NEW q \in Processes, StartReads(q) \/ Started(q) \/ Ends(q) PROVE Known(p, s)
    BY <2>1, <2>2 DEF Known, StartReads, Started, Ends, NewService
  <2>3. ASSUME NEW q \in Processes, ListCommand(q) PROVE Known(p, s)
    <3>1. Listed(Consulted(service[q], "admin")).bucket = Consulted(service[q], "admin").bucket
      BY <1>3, ConsultedIsSound, ListedIsSound DEF IInv, Cached
    <3> QED
      BY <2>1, <2>3, <3>1 DEF Known, ListCommand
  <2>4. ASSUME NEW q \in Processes, OtherCommand(q) PROVE Known(p, s)
    BY <2>1, <2>4 DEF Known, OtherCommand
  <2>5. ASSUME NEW q \in Processes, NEW t \in Scopes, NEW v \in Settings, SetCommand(q, t, v)
        PROVE  Known(p, s)
    <3>1. CASE q = p
      <4>1. service'[p] = Stored(Consulted(service[p], "admin"), t, v)
        BY <2>1, <2>5, <3>1 DEF SetCommand
      <4> QED
        BY <2>11, <4>1, StoredIs DEF Known, Kept
    <3>2. CASE q # p
      BY <2>1, <2>5, <3>2 DEF Known, SetCommand
    <3> QED
      BY <3>1, <3>2
  <2>6. ASSUME NEW q \in Processes, NEW t \in Scopes, DeleteCommand(q, t) PROVE Known(p, s)
    <3>1. CASE q = p
      <4>1. service'[p] = Dropped(Consulted(service[p], "admin"), t)
        BY <2>1, <2>6, <3>1 DEF DeleteCommand
      <4> QED
        BY <2>11, <4>1, DroppedIs DEF Known, Kept
    <3>2. CASE q # p
      BY <2>1, <2>6, <3>2 DEF Known, DeleteCommand
    <3> QED
      BY <3>1, <3>2
  <2>7. ASSUME NEW q \in Processes, NEW t \in Scopes, StartInserts(q, t) PROVE Known(p, s)
    <3>1. CASE q = p
      <4>1. service'[p] = Stored(service[p], t, DefaultOf[t]) /\ DefaultOf[t] \in Settings
        BY <2>1, <2>7, <3>1, RateLimitsAssumption DEF StartInserts
      <4> QED
        BY <2>11, <4>1, StoredIs DEF Known, Kept
    <3>2. CASE q # p
      BY <2>1, <2>7, <3>2 DEF Known, StartInserts
    <3> QED
      BY <3>1, <3>2
  <2>8. ASSUME Tick PROVE Known(p, s)
    BY <2>1, <2>8 DEF Known, Tick, Service
  <2>9. ASSUME UNCHANGED vars PROVE Known(p, s)
    BY <2>9 DEF Known, vars
  <2>10. Known(p, s)
    <3>1. ASSUME NEW q \in Processes,
                 \/ StartReads(q) \/ Started(q) \/ Ends(q)
                 \/ ListCommand(q) \/ OtherCommand(q)
          PROVE  Known(p, s)
      BY <3>1, <2>2, <2>3, <2>4
    <3>2. ASSUME NEW q \in Processes, NEW t \in Scopes,
                 StartInserts(q, t) \/ DeleteCommand(q, t)
                 \/ \E v \in Settings : SetCommand(q, t, v)
          PROVE  Known(p, s)
      BY <3>2, <2>5, <2>6, <2>7
    <3> QED
      BY <1>3, <2>8, <2>9, <3>1, <3>2 DEF Next
  <2> QED
    BY <1>2, <1>3, <2>10 DEF Known
<1>4. IInv /\ [Next]_vars =>
        [\A p \in Processes, s \in Scopes :
           LET old == service[p].bucket[s]
               new == service'[p].bucket[s]
           IN  old = Absent /\ new # Absent =>
                   new = row[s] \/ row[s] = Absent \/ rowAge[s] < TTL]_vars
  BY <1>3
<1> QED
  BY <1>4, AlwaysIInv, PTL DEF Spec, BuiltFromRecent

---------------------------------------------------------------------------------
(* The token bucket on button presses, which rate_limits.py builds too, for any     *)
(* keys, rate, burst, cooldown and age of deletion.  The invariant is an account:   *)
(* what a bucket can give and what its user owes to the rate make up the burst, and *)
(* what is left of a mute and the time since make up the cooldown.  A bucket        *)
(* deleted in use upsets the account to the user's favour only.                     *)

\* The part of the invariant about one key.
Account(k) ==
    /\ debt[k] + Refilled(entry[k]) >= Capacity
    /\ entry[k].muted + quiet[k] <= CoolDown
    /\ k \notin slipped => /\ debt[k] + Refilled(entry[k]) <= Capacity
                           /\ entry[k].muted + quiet[k] >= CoolDown
    /\ k \notin stored => entry[k] = Full
    /\ k \in listed \ reused => Forgettable(entry[k])

Accounts == \A k \in Keys : Account(k)

---------------------------------------------------------------------------------
(* One entry                                                                       *)

\* A refill stays within the burst (TokenBucket.allow).
LEMMA RefilledIsBounded ==
    ASSUME NEW e \in Entry
    PROVE  Refilled(e) \in 0..Capacity
<1>1. Rate * e.idle \in Nat
  BY CallbacksAssumption DEF Entry
<1> QED
  BY <1>1, CallbacksAssumption DEF Entry, Refilled, AtMost

\* A full bucket gives the burst.
LEMMA FullIsFull == Full \in Entry /\ Refilled(Full) = Capacity /\ Full.muted = 0
  BY CallbacksAssumption DEF Full, Entry, Refilled, AtMost

\* A bucket idle for so long that it may be deleted is full (cleanup).
LEMMA ForgettableIsFull ==
    ASSUME NEW e \in Entry, Forgettable(e)
    PROVE  Refilled(e) = Capacity
<1>1. e.idle = MaxAge + 1
  BY CallbacksAssumption DEF Entry, Forgettable
<1>2. Rate * (MaxAge + 1) = Rate * MaxAge + Rate
  BY CallbacksAssumption
<1>3. Rate * e.idle >= Capacity
  BY <1>1, <1>2, CallbacksAssumption
<1> QED
  BY <1>3, CallbacksAssumption DEF Entry, Refilled, AtMost

\* What a tick does to an entry: it refills by the rate, up to the burst, and the mute
\* shrinks.
LEMMA TickAges ==
    ASSUME NEW e \in Entry
    PROVE  /\ Aged(e) \in Entry
           /\ Refilled(Aged(e)) = AtMost(Capacity, Refilled(e) + Rate)
           /\ Aged(e).muted = IF e.muted > 0 THEN e.muted - 1 ELSE 0
           /\ Forgettable(e) => Forgettable(Aged(e))
<1> DEFINE a == Aged(e)
<1>1. /\ a.tokens = e.tokens
      /\ a.idle = AtMost(MaxAge + 1, e.idle + 1)
      /\ a.muted = IF e.muted > 0 THEN e.muted - 1 ELSE 0
  BY DEF Aged, Entry
<1>2. a \in Entry
  <2>1. a.idle \in 0..(MaxAge + 1) /\ a.muted \in 0..CoolDown
    BY <1>1, CallbacksAssumption DEF Entry, AtMost
  <2>2. a = [e EXCEPT !.idle = a.idle, !.muted = a.muted]
    BY <1>1 DEF Aged, Entry
  <2> HIDE DEF a
  <2> QED
    BY <2>1, <2>2 DEF Entry
<1>3. Refilled(a) = AtMost(Capacity, Refilled(e) + Rate)
  <2>1. CASE e.idle = MaxAge + 1
    <3>1. a.idle = e.idle
      BY <1>1, <2>1, CallbacksAssumption DEF AtMost
    <3>2. Refilled(a) = Refilled(e)
      BY <3>1, <1>1 DEF Refilled
    <3>3. Rate * (MaxAge + 1) = Rate * MaxAge + Rate
      BY CallbacksAssumption
    <3>4. Refilled(e) = Capacity
      BY <3>3, <2>1, CallbacksAssumption DEF Entry, Refilled, AtMost
    <3> QED
      BY <3>2, <3>4, CallbacksAssumption DEF AtMost
  <2>2. CASE e.idle < MaxAge + 1
    <3>1. a.idle = e.idle + 1
      BY <1>1, <2>2, CallbacksAssumption DEF AtMost, Entry
    <3>2. Rate * a.idle = Rate * e.idle + Rate /\ Rate * e.idle \in Nat
      BY <3>1, CallbacksAssumption DEF Entry
    <3> QED
      BY <1>1, <3>2, CallbacksAssumption DEF Entry, Refilled, AtMost
  <2> QED
    BY <2>1, <2>2, CallbacksAssumption DEF Entry
<1>4. Forgettable(e) => Forgettable(a)
  BY <1>1, CallbacksAssumption DEF Entry, Forgettable, AtMost
<1> QED
  BY <1>1, <1>2, <1>3, <1>4

---------------------------------------------------------------------------------
(* The invariant                                                                   *)

LEMMA InitAccounts == BucketInit => BucketTypeOK /\ Accounts
<1> SUFFICES ASSUME BucketInit PROVE BucketTypeOK /\ Accounts
  OBVIOUS
<1>1. BucketTypeOK
  BY FullIsFull, CallbacksAssumption DEF BucketInit, BucketTypeOK
<1>2. ASSUME NEW k \in Keys PROVE Account(k)
  <2>1. /\ entry[k] = Full /\ debt[k] = 0 /\ quiet[k] = CoolDown
        /\ listed = {}
    BY DEF BucketInit
  <2> QED
    BY <2>1, FullIsFull, CallbacksAssumption DEF Account
<1> QED
  BY <1>1, <1>2 DEF Accounts

\* What a call of allow() leaves alone.
LEMMA CallIsLocal ==
    ASSUME BucketTypeOK, NEW k \in Keys, Call(k)
    PROVE  /\ pending' \in [Keys -> Nat]
           /\ stored' = stored \cup {k} /\ listed' = listed /\ slipped' = slipped
           /\ reused' \subseteq Keys
           /\ \A j \in Keys \ {k} : j \in listed' \ reused' => j \in listed \ reused
           /\ k \notin listed' \ reused'
  BY DEF BucketTypeOK, Call

LEMMA TakeStep ==
    ASSUME BucketTypeOK, Accounts, NEW k \in Keys, Take(k)
    PROVE  BucketTypeOK' /\ Accounts'
<1> DEFINE e == [tokens |-> Refilled(entry[k]) - 1, idle |-> 0, muted |-> 0]
<1>1. Call(k) /\ entry[k].muted = 0 /\ Refilled(entry[k]) >= 1
  BY DEF Take
<1>2. entry[k] \in Entry /\ Refilled(entry[k]) \in 0..Capacity
  BY RefilledIsBounded DEF BucketTypeOK
<1>3. e \in Entry /\ Refilled(e) = Refilled(entry[k]) - 1 /\ e.muted = 0
  <2>1. e \in Entry
    BY <1>1, <1>2, CallbacksAssumption DEF Entry
  <2>2. Rate * 0 = 0
    BY CallbacksAssumption
  <2> QED
    BY <1>1, <1>2, <2>1, <2>2, CallbacksAssumption DEF Refilled, AtMost
<1>4. /\ entry'[k] = e /\ \A j \in Keys \ {k} : entry'[j] = entry[j]
      /\ entry' \in [Keys -> Entry]
  BY <1>3 DEF Take, BucketTypeOK
<1>5. /\ debt'[k] = debt[k] + 1 /\ \A j \in Keys \ {k} : debt'[j] = debt[j]
      /\ debt' \in [Keys -> Nat] /\ quiet' = quiet
  BY DEF Take, BucketTypeOK
<1> HIDE DEF e
<1>6. BucketTypeOK'
  BY <1>1, <1>4, <1>5, CallIsLocal DEF BucketTypeOK
<1>7. Account(k)'
  BY <1>1, <1>2, <1>3, <1>4, <1>5, CallIsLocal, CallbacksAssumption DEF Accounts, Account, BucketTypeOK
<1>8. ASSUME NEW j \in Keys \ {k} PROVE Account(j)'
  BY <1>1, <1>4, <1>5, CallIsLocal DEF Accounts, Account, BucketTypeOK
<1> QED
  BY <1>6, <1>7, <1>8 DEF Accounts

LEMMA PenaliseStep ==
    ASSUME BucketTypeOK, Accounts, NEW k \in Keys, Penalise(k)
    PROVE  BucketTypeOK' /\ Accounts'
<1> DEFINE e == [tokens |-> Refilled(entry[k]), idle |-> 0, muted |-> CoolDown]
<1>1. Call(k) /\ entry[k].muted = 0
  BY DEF Penalise
<1>2. entry[k] \in Entry /\ Refilled(entry[k]) \in 0..Capacity
  BY RefilledIsBounded DEF BucketTypeOK
<1>3. e \in Entry /\ Refilled(e) = Refilled(entry[k]) /\ e.muted = CoolDown
  <2>1. e \in Entry
    BY <1>1, <1>2, CallbacksAssumption DEF Entry
  <2>2. Rate * 0 = 0
    BY CallbacksAssumption
  <2> QED
    BY <1>1, <1>2, <2>1, <2>2, CallbacksAssumption DEF Refilled, AtMost
<1>4. /\ entry'[k] = e /\ \A j \in Keys \ {k} : entry'[j] = entry[j]
      /\ entry' \in [Keys -> Entry]
  BY <1>3 DEF Penalise, BucketTypeOK
<1>5. /\ quiet'[k] = 0 /\ \A j \in Keys \ {k} : quiet'[j] = quiet[j]
      /\ quiet' \in [Keys -> 0..CoolDown] /\ debt' = debt
  BY CallbacksAssumption DEF Penalise, BucketTypeOK
<1> HIDE DEF e
<1>6. BucketTypeOK'
  BY <1>1, <1>4, <1>5, CallIsLocal DEF BucketTypeOK
<1>7. Account(k)'
  BY <1>1, <1>2, <1>3, <1>4, <1>5, CallIsLocal, CallbacksAssumption DEF Accounts, Account, BucketTypeOK
<1>8. ASSUME NEW j \in Keys \ {k} PROVE Account(j)'
  BY <1>1, <1>4, <1>5, CallIsLocal DEF Accounts, Account, BucketTypeOK
<1> QED
  BY <1>6, <1>7, <1>8 DEF Accounts

LEMMA RefuseStep ==
    ASSUME BucketTypeOK, Accounts, NEW k \in Keys, Refuse(k)
    PROVE  BucketTypeOK' /\ Accounts'
<1>1. Call(k) /\ entry' = entry /\ debt' = debt /\ quiet' = quiet
  BY DEF Refuse
<1>2. BucketTypeOK'
  BY <1>1, CallIsLocal DEF BucketTypeOK
<1>3. ASSUME NEW j \in Keys PROVE Account(j)'
  BY <1>1, CallIsLocal DEF Accounts, Account, BucketTypeOK
<1> QED
  BY <1>2, <1>3 DEF Accounts

LEMMA PressStep ==
    ASSUME BucketTypeOK, Accounts, NEW k \in Keys, Press(k)
    PROVE  BucketTypeOK' /\ Accounts'
  BY CallbacksAssumption DEF Press, history, BucketTypeOK, Accounts, Account

LEMMA ListStep ==
    ASSUME BucketTypeOK, Accounts, List
    PROVE  BucketTypeOK' /\ Accounts'
  BY DEF List, history, BucketTypeOK, Accounts, Account

LEMMA ForgetStep ==
    ASSUME BucketTypeOK, Accounts, NEW k \in Keys, Delete(k)
    PROVE  BucketTypeOK' /\ Accounts'
<1>1. /\ k \in listed /\ listed' = listed \ {k} /\ stored' = stored \ {k}
      /\ slipped' = slipped \cup ({k} \cap reused)
      /\ pending' = pending /\ reused' = reused /\ debt' = debt /\ quiet' = quiet
  BY DEF Delete
<1>2. /\ entry'[k] = Full /\ \A j \in Keys \ {k} : entry'[j] = entry[j]
      /\ entry' \in [Keys -> Entry]
  BY FullIsFull DEF Delete, BucketTypeOK
<1>3. BucketTypeOK'
  BY <1>1, <1>2 DEF BucketTypeOK
<1>4. Account(k)'
  <2>1. CASE k \in reused
    BY <1>1, <1>2, <2>1, FullIsFull, CallbacksAssumption DEF Accounts, Account, BucketTypeOK
  <2>2. CASE k \notin reused
    <3>1. Forgettable(entry[k])
      BY <1>1, <2>2 DEF Accounts, Account
    <3>2. Refilled(entry[k]) = Capacity /\ entry[k].muted = 0
      BY <3>1, ForgettableIsFull DEF BucketTypeOK, Forgettable
    <3> QED
      BY <1>1, <1>2, <2>2, <3>2, FullIsFull, CallbacksAssumption DEF Accounts, Account, BucketTypeOK
  <2> QED
    BY <2>1, <2>2
<1>5. ASSUME NEW j \in Keys \ {k} PROVE Account(j)'
  BY <1>1, <1>2 DEF Accounts, Account, BucketTypeOK
<1> QED
  BY <1>3, <1>4, <1>5 DEF Accounts

LEMMA BucketTickStep ==
    ASSUME BucketTypeOK, Accounts, BucketTick
    PROVE  BucketTypeOK' /\ Accounts'
<1>1. /\ \A k \in Keys : entry'[k] = IF k \in stored THEN Aged(entry[k]) ELSE entry[k]
      /\ \A k \in Keys : debt'[k] = IF debt[k] > Rate THEN debt[k] - Rate ELSE 0
      /\ \A k \in Keys : quiet'[k] = AtMost(CoolDown, quiet[k] + 1)
      /\ stored' = stored /\ pending' = pending /\ listed' = listed /\ reused' = reused
      /\ slipped' = {k \in slipped : debt'[k] > 0 \/ quiet'[k] < CoolDown}
  BY DEF BucketTick
<1>2. BucketTypeOK'
  <2>1. entry' \in [Keys -> Entry]
    BY TickAges DEF BucketTick, BucketTypeOK
  <2>2. debt' \in [Keys -> Nat]
    BY CallbacksAssumption DEF BucketTick, BucketTypeOK
  <2>3. quiet' \in [Keys -> 0..CoolDown]
    BY CallbacksAssumption DEF BucketTick, BucketTypeOK, AtMost
  <2> QED
    BY <1>1, <2>1, <2>2, <2>3 DEF BucketTypeOK
<1>3. ASSUME NEW k \in Keys PROVE Account(k)'
  <2>1. entry[k] \in Entry /\ Refilled(entry[k]) \in 0..Capacity
    BY RefilledIsBounded DEF BucketTypeOK
  <2>2. entry[k].muted \in 0..CoolDown /\ debt[k] \in Nat /\ quiet[k] \in 0..CoolDown
    BY <2>1 DEF BucketTypeOK, Entry
  <2>3. k \notin slipped' => k \notin slipped \/ (debt'[k] = 0 /\ quiet'[k] = CoolDown)
    <3>1. debt'[k] \in Nat /\ quiet'[k] \in 0..CoolDown
      BY <1>2 DEF BucketTypeOK
    <3>2. k \in slipped /\ k \notin slipped' => ~(debt'[k] > 0) /\ ~(quiet'[k] < CoolDown)
      BY <1>1
    <3> QED
      BY <3>1, <3>2, CallbacksAssumption
  <2>4. CASE k \in stored
    <3>1. /\ Refilled(entry'[k]) = AtMost(Capacity, Refilled(entry[k]) + Rate)
          /\ entry'[k].muted = IF entry[k].muted > 0 THEN entry[k].muted - 1 ELSE 0
          /\ Forgettable(entry[k]) => Forgettable(entry'[k])
      BY <1>1, <2>1, <2>4, TickAges
    <3>2. debt'[k] + Refilled(entry'[k]) >= Capacity
      BY <1>1, <2>1, <2>2, <3>1, CallbacksAssumption DEF Accounts, Account, AtMost
    <3>3. entry'[k].muted + quiet'[k] <= CoolDown
      BY <1>1, <2>2, <3>1, CallbacksAssumption DEF Accounts, Account, AtMost
    <3>4. k \notin slipped' => debt'[k] + Refilled(entry'[k]) <= Capacity
      BY <1>1, <2>1, <2>2, <2>3, <3>1, CallbacksAssumption DEF Accounts, Account, AtMost
    <3>5. k \notin slipped' => entry'[k].muted + quiet'[k] >= CoolDown
      BY <1>1, <2>2, <2>3, <3>1, CallbacksAssumption DEF Accounts, Account, AtMost
    <3> QED
      BY <1>1, <2>4, <3>1, <3>2, <3>3, <3>4, <3>5 DEF Accounts, Account
  <2>5. CASE k \notin stored
    <3>1. entry[k] = Full /\ entry'[k] = Full
      BY <1>1, <2>5 DEF Accounts, Account
    <3> QED
      BY <1>1, <2>2, <2>3, <2>5, <3>1, FullIsFull, CallbacksAssumption
         DEF Accounts, Account, AtMost
  <2> QED
    BY <2>4, <2>5
<1> QED
  BY <1>2, <1>3 DEF Accounts

LEMMA NextAccounts == BucketTypeOK /\ Accounts /\ [BucketNext]_bucketVars => BucketTypeOK' /\ Accounts'
<1> SUFFICES ASSUME BucketTypeOK, Accounts, [BucketNext]_bucketVars PROVE BucketTypeOK' /\ Accounts'
  OBVIOUS
<1>1. ASSUME NEW k \in Keys, Press(k) \/ Refuse(k) \/ Take(k) \/ Penalise(k) \/ Delete(k)
      PROVE  BucketTypeOK' /\ Accounts'
  BY <1>1, PressStep, RefuseStep, TakeStep, PenaliseStep, ForgetStep
<1>2. CASE List
  BY <1>2, ListStep
<1>3. CASE BucketTick
  BY <1>3, BucketTickStep
<1>4. CASE UNCHANGED bucketVars
  BY <1>4 DEF bucketVars, history, BucketTypeOK, Accounts, Account
<1> QED
  BY <1>1, <1>2, <1>3, <1>4 DEF BucketNext

LEMMA AlwaysAccounts == BucketSpec => [](BucketTypeOK /\ Accounts)
  BY InitAccounts, NextAccounts, PTL DEF BucketSpec

---------------------------------------------------------------------------------
(* The theorems                                                                    *)

\* The type invariant of the bucket and its cleanup, for any numbers.
THEOREM BucketTypeCorrect == BucketSpec => []BucketTypeOK
  BY AlwaysAccounts, PTL

\* No user gets more than the burst and the rate through (TokenBucket.allow), but for a
\* bucket deleted while it is used.
THEOREM RateIsBounded == BucketSpec => []RateBound
<1>1. BucketTypeOK /\ Accounts => RateBound
  <2> SUFFICES ASSUME BucketTypeOK, Accounts, NEW k \in Keys, k \notin slipped
               PROVE  debt[k] <= Capacity
    BY DEF RateBound
  <2>1. Refilled(entry[k]) \in 0..Capacity /\ debt[k] \in Nat
    BY RefilledIsBounded DEF BucketTypeOK
  <2>2. debt[k] + Refilled(entry[k]) <= Capacity
    BY DEF Accounts, Account
  <2> QED
    BY <2>1, <2>2, CallbacksAssumption
<1> QED
  BY <1>1, AlwaysAccounts, PTL

\* A mute lasts for its cooldown, with the same exception.
THEOREM MuteIsKept == BucketSpec => MuteHolds
<1>1. BucketTypeOK /\ Accounts /\ [BucketNext]_bucketVars =>
        [\A k \in Keys : Take(k) => quiet[k] = CoolDown \/ k \in slipped]_bucketVars
  <2> SUFFICES ASSUME BucketTypeOK, Accounts, NEW k \in Keys, Take(k), k \notin slipped
               PROVE  quiet[k] = CoolDown
    OBVIOUS
  <2>1. entry[k].muted = 0 /\ quiet[k] \in 0..CoolDown
    BY DEF Take, BucketTypeOK
  <2>2. entry[k].muted + quiet[k] >= CoolDown
    BY DEF Accounts, Account
  <2>3. CoolDown \in Nat
    BY CallbacksAssumption
  <2> QED
    BY <2>1, <2>2, <2>3
<1> QED
  BY <1>1, AlwaysAccounts, PTL DEF BucketSpec, MuteHolds

\* Whoever is refused is in a cooldown or over the rate, whatever the cleanup does.
THEOREM RefusalIsEarned == BucketSpec => OnlyExcessRefused
<1>1. BucketTypeOK /\ Accounts /\ [BucketNext]_bucketVars =>
        [\A k \in Keys : Refuse(k) \/ Penalise(k) => quiet[k] < CoolDown \/ debt[k] >= Capacity]_bucketVars
  <2> SUFFICES ASSUME BucketTypeOK, Accounts, NEW k \in Keys, Refuse(k) \/ Penalise(k)
               PROVE  quiet[k] < CoolDown \/ debt[k] >= Capacity
    OBVIOUS
  <2>1. /\ entry[k] \in Entry /\ Refilled(entry[k]) \in 0..Capacity
        /\ debt[k] \in Nat /\ quiet[k] \in 0..CoolDown
        /\ entry[k].muted \in 0..CoolDown
    BY RefilledIsBounded DEF BucketTypeOK, Entry
  <2>2. /\ entry[k].muted + quiet[k] <= CoolDown
        /\ debt[k] + Refilled(entry[k]) >= Capacity
    BY DEF Accounts, Account
  <2>3. CASE Refuse(k)
    BY <2>1, <2>2, <2>3, CallbacksAssumption DEF Refuse
  <2>4. CASE Penalise(k)
    BY <2>1, <2>2, <2>4, CallbacksAssumption DEF Penalise
  <2> QED
    BY <2>3, <2>4
<1> QED
  BY <1>1, AlwaysAccounts, PTL DEF BucketSpec, OnlyExcessRefused
=================================================================================
