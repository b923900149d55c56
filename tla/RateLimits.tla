------------------------------- MODULE RateLimits -------------------------------
(* The adaptive rate limits (app/services/rate_limits.py): the table rate_limits,  *)
(* and in every process a cache of its rows with a time to live and a token bucket *)
(* for each scope that was asked for.  They are driven by the /ratelimit commands, *)
(* the only handlers behind the middleware, all in the scope "admin".              *)
(*                                                                                 *)
(* A command never yields between the decorator and its reply (the lock of the     *)
(* cache is always free on one event loop), so it is one step.  Two processes      *)
(* share the table while a restart overlaps.                                       *)
EXTENDS Naturals, FiniteSets

CONSTANTS
    Processes,
    Scopes,         \* names of limits; "admin" is the one the middleware asks for
    Defaults,       \* the scopes of DEFAULT_CONFIGS
    Settings,       \* triples of rate, burst and cooldown
    DefaultOf,      \* the entry of DEFAULT_CONFIGS for a scope
    Absent,         \* no row, no cache entry, no bucket
    Undecided,      \* history: no administrator has touched the scope
    TTL             \* cache_ttl_seconds; a list is renewed after half of it

ASSUME RateLimitsAssumption ==
    /\ "admin" \in Scopes
    /\ Defaults \subseteq Scopes
    /\ DefaultOf \in [Scopes -> Settings]
    /\ Absent \notin Settings /\ Undecided \notin Settings \cup {Absent}
    /\ TTL \in Nat \ {0}

VARIABLES
    row,            \* the table: the setting of each scope
    service,        \* the service of each process, see Service
    phase,          \* "down", "starting" between SELECT and the last INSERT, or "up"
    missing,        \* the default scopes ensure_defaults has still to insert
    rowAge,         \* history: time since the row of a scope changed, up to TTL
    foreign,        \* history: the scopes others changed since a process started
    choice,         \* history: what an administrator last decided about a scope
    contested       \* history: the scopes decided on while a start was to insert their default

vars == <<row, service, phase, missing, rowAge, foreign, choice, contested>>

Half == (TTL + 1) \div 2

Optional == Settings \cup {Absent}

\* _config_cache with the ages of _cache_timestamps (TTL: expired), _token_buckets
\* by the setting each was built with, and the age of _last_full_refresh.
Service == [config : [Scopes -> Optional], age : [Scopes -> 0..TTL],
            bucket : [Scopes -> Optional], listAge : 0..Half]

NewService == [config  |-> [s \in Scopes |-> Absent], age |-> [s \in Scopes |-> TTL],
               bucket  |-> [s \in Scopes |-> Absent], listAge |-> Half]

TypeOK ==
    /\ row \in [Scopes -> Optional]
    /\ service \in [Processes -> Service]
    /\ phase \in [Processes -> {"down", "starting", "up"}]
    /\ missing \in [Processes -> SUBSET Defaults]
    /\ rowAge \in [Scopes -> 0..TTL]
    /\ foreign \in [Processes -> SUBSET Scopes]
    /\ choice \in [Scopes -> Optional \cup {Undecided}]
    /\ contested \subseteq Scopes

Init ==
    /\ row = [s \in Scopes |-> Absent]
    /\ service = [p \in Processes |-> NewService]
    /\ phase = [p \in Processes |-> "down"]
    /\ missing = [p \in Processes |-> {}]
    /\ rowAge = [s \in Scopes |-> TTL]
    /\ foreign = [p \in Processes |-> {}]
    /\ choice = [s \in Scopes |-> Undecided]
    /\ contested = {}

---------------------------------------------------------------------------------
(* The operations of the service on the state c of one process                     *)

\* Mutant: an entry never expires.
ValidForever(c, s) == c.config[s] # Absent

Valid(c, s) == c.config[s] # Absent /\ c.age[s] < TTL

\* _refresh_config: an entry whose row is gone stays as it was.
Refreshed(c, s) ==
    IF row[s] = Absent THEN c
    ELSE [c EXCEPT !.config[s] = row[s], !.age[s] = 0]

Configured(c, s) == IF Valid(c, s) THEN c ELSE Refreshed(c, s)

\* The bucket is built once and never looked at again: check_rate_limit calls
\* consume(), which TokenBucket does not have, and allows whatever raises.
Consulted(c, s) ==
    IF c.bucket[s] # Absent THEN c
    ELSE LET known == Configured(c, s)
         IN  [known EXCEPT !.bucket[s] = known.config[s]]

\* Mutant: the bucket survives a change of its configuration.
StoredBeside(c, s, v) == [c EXCEPT !.config[s] = v, !.age[s] = 0]

Stored(c, s, v) ==
    [c EXCEPT !.config[s] = v, !.age[s] = 0, !.bucket[s] = Absent]

Dropped(c, s) ==
    [c EXCEPT !.config[s] = Absent, !.age[s] = TTL, !.bucket[s] = Absent]

Listed(c) ==
    IF c.listAge < Half THEN c
    ELSE [c EXCEPT !.config = [s \in Scopes |-> IF row[s] = Absent THEN @[s] ELSE row[s]],
                   !.age = [s \in Scopes |-> IF row[s] = Absent THEN @[s] ELSE 0],
                   !.listAge = 0]

---------------------------------------------------------------------------------
(* A process starts and ends                                                       *)

\* Mutant: every default is written again at every start.
LacksAny(s) == TRUE

Lacks(s) == row[s] = Absent

StartReads(p) ==
    /\ phase[p] = "down"
    /\ phase' = [phase EXCEPT ![p] = "starting"]
    /\ missing' = [missing EXCEPT ![p] = {s \in Defaults : Lacks(s)}]
    /\ foreign' = [foreign EXCEPT ![p] = {}]
    /\ UNCHANGED <<row, service, rowAge, choice, contested>>

\* Process p puts a value into the row of a scope: set_rate_limit_config, delete_config.
Writes(p, s, v) ==
    /\ row' = [row EXCEPT ![s] = v]
    /\ rowAge' = [rowAge EXCEPT ![s] = 0]
    /\ foreign' = [q \in Processes |-> IF q = p THEN foreign[q] \ {s}
                                       ELSE foreign[q] \cup {s}]

StartInserts(p, s) ==
    /\ s \in missing[p]
    /\ Writes(p, s, DefaultOf[s])
    /\ service' = [service EXCEPT ![p] = Stored(@, s, DefaultOf[s])]
    /\ missing' = [missing EXCEPT ![p] = @ \ {s}]
    /\ UNCHANGED <<phase, choice, contested>>

Started(p) ==
    /\ phase[p] = "starting" /\ missing[p] = {}
    /\ phase' = [phase EXCEPT ![p] = "up"]
    /\ UNCHANGED <<row, service, missing, rowAge, foreign, choice, contested>>

Ends(p) ==
    /\ phase[p] # "down"
    /\ phase' = [phase EXCEPT ![p] = "down"]
    /\ service' = [service EXCEPT ![p] = NewService]
    /\ missing' = [missing EXCEPT ![p] = {}]
    /\ UNCHANGED <<row, rowAge, foreign, choice, contested>>

---------------------------------------------------------------------------------
(* The commands                                                                    *)

Up(p) == phase[p] = "up"

Decides(s, v) ==
    /\ choice' = [choice EXCEPT ![s] = v]
    /\ contested' = IF \E p \in Processes : s \in missing[p]
                    THEN contested \cup {s} ELSE contested \ {s}

SetCommand(p, s, v) ==
    /\ Up(p)
    /\ Writes(p, s, v)
    /\ Decides(s, v)
    /\ service' = [service EXCEPT ![p] = Stored(Consulted(@, "admin"), s, v)]
    /\ UNCHANGED <<phase, missing>>

DeleteCommand(p, s) ==
    /\ Up(p) /\ row[s] # Absent
    /\ Writes(p, s, Absent)
    /\ Decides(s, Absent)
    /\ service' = [service EXCEPT ![p] = Dropped(Consulted(@, "admin"), s)]
    /\ UNCHANGED <<phase, missing>>

ListCommand(p) ==
    /\ Up(p)
    /\ service' = [service EXCEPT ![p] = Listed(Consulted(@, "admin"))]
    /\ UNCHANGED <<row, phase, missing, rowAge, foreign, choice, contested>>

\* /ratelimit status, a command of a stranger, with bad arguments, for a scope
\* without a row, or whose statement fails: only the decorator leaves a trace.
OtherCommand(p) ==
    /\ Up(p)
    /\ service' = [service EXCEPT ![p] = Consulted(@, "admin")]
    /\ UNCHANGED <<row, phase, missing, rowAge, foreign, choice, contested>>

Older(n, limit) == IF n < limit THEN n + 1 ELSE n

Tick ==
    /\ rowAge' = [s \in Scopes |-> Older(rowAge[s], TTL)]
    /\ service' = [p \in Processes |->
         [service[p] EXCEPT !.age = [s \in Scopes |-> Older(@[s], TTL)],
                            !.listAge = Older(@, Half)]]
    /\ UNCHANGED <<row, phase, missing, foreign, choice, contested>>

Next ==
    \/ \E p \in Processes :
         \/ StartReads(p) \/ Started(p) \/ Ends(p) \/ ListCommand(p) \/ OtherCommand(p)
         \/ \E s \in Scopes :
              StartInserts(p, s) \/ DeleteCommand(p, s) \/ \E v \in Settings : SetCommand(p, s, v)
    \/ Tick

Spec == Init /\ [][Next]_vars

---------------------------------------------------------------------------------
(* Properties                                                                      *)

\* A bucket has the numbers of its row, unless another process changed the row since
\* this one started: buckets never expire, and a process only drops its own
\* (set_rate_limit_config, delete_config).
BucketIsRow ==
    \A p \in Processes, s \in Scopes :
        service[p].bucket[s] # Absent /\ s \notin foreign[p] => service[p].bucket[s] = row[s]

\* A new bucket is built from the row, or from one younger than the cache's time to
\* live, or from an entry whose row is gone (_refresh_config keeps those for good).
BuiltFromRecent ==
    [][\A p \in Processes, s \in Scopes :
         LET old == service[p].bucket[s]
             new == service'[p].bucket[s]
         IN  old = Absent /\ new # Absent =>
                 new = row[s] \/ row[s] = Absent \/ rowAge[s] < TTL]_vars

\* What an administrator set or deleted stays so, until another decision, except that
\* a start restores a deleted default, and overwrites what was decided after its
\* SELECT found the scope missing and before its INSERT (ensure_defaults).
DecisionStands ==
    \A s \in Scopes :
        choice[s] # Undecided /\ row[s] # choice[s] =>
            /\ s \in Defaults /\ row[s] = DefaultOf[s]
            /\ choice[s] = Absent \/ s \in contested
=================================================================================
