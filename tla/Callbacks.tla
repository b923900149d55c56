-------------------------------- MODULE Callbacks --------------------------------
(* The limit on button presses (app/services/rate_limit.py, TokenBucket): each user *)
(* has a bucket that refills at a rate up to a burst; a call that finds it empty    *)
(* mutes the user for a while.  A press reaches three handlers, settings.on_callback *)
(* and on_callback of two ModerationServices, and each of them takes a token; they  *)
(* wait in between, so that the handlers of several presses interleave.  What a     *)
(* handler does with the answer is not here: one that is refused may go on all the  *)
(* same, when telling the user raises, as settings.on_callback catches that.        *)
(*                                                                                  *)
(* Every minute a job in the scheduler's thread lists the buckets that have been    *)
(* idle for long and deletes them, without a lock: a bucket may be used in between. *)
(*                                                                                  *)
(* penalize() has no caller.  Tokens are real numbers in the code; here the rate is *)
(* a number of tokens per tick, so that they are whole.                             *)
EXTENDS Integers

CONSTANTS
    Keys,           \* (user, 0) or, with the scope user_chat, (user, chat)
    Rate,           \* tokens per tick
    Capacity,       \* burst
    CoolDown,       \* cool_down, in ticks
    MaxAge,         \* max_age of cleanup, in ticks
    Handlers,       \* handlers a press reaches
    MaxPresses      \* bound: presses of one user under way

\* main.py: rate=6, per=10.0, burst=6.0, cool_down=15.0; max_age = 5 * per.
ASSUME CallbacksAssumption ==
    /\ Rate \in Nat /\ Capacity \in Nat /\ CoolDown \in Nat /\ MaxAge \in Nat
    /\ Handlers \in Nat /\ MaxPresses \in Nat
    /\ Rate * MaxAge >= Capacity
    /\ CoolDown <= MaxAge

VARIABLES
    stored,         \* the keys of _store
    entry,          \* the entry of each key; Full for one that has none
    pending,        \* calls of allow() to come from presses under way
    listed,         \* what the cleanup is about to delete
    debt,           \* history: calls allowed, less what the rate has worked off
    quiet,          \* history: ticks since the last call that found the bucket empty
    reused,         \* history: listed keys that were used since
    slipped         \* history: keys deleted all the same, until they are even again

history == <<debt, quiet, slipped>>
bucketVars == <<stored, entry, pending, listed, reused, history>>

\* idle is the time since last_ts, muted what is left until muted_until.
Entry == [tokens : 0..Capacity, idle : 0..(MaxAge + 1), muted : 0..CoolDown]

\* What allow() makes of a key that has no entry.
Full == [tokens |-> Capacity, idle |-> 0, muted |-> 0]

BucketTypeOK ==
    /\ stored \subseteq Keys
    /\ entry \in [Keys -> Entry]
    /\ pending \in [Keys -> Nat]
    /\ listed \subseteq Keys /\ reused \subseteq Keys
    /\ debt \in [Keys -> Nat]
    /\ quiet \in [Keys -> 0..CoolDown]
    /\ slipped \subseteq Keys

BucketInit ==
    /\ stored = {}
    /\ entry = [k \in Keys |-> Full]
    /\ pending = [k \in Keys |-> 0]
    /\ listed = {} /\ reused = {}
    /\ debt = [k \in Keys |-> 0]
    /\ quiet = [k \in Keys |-> CoolDown]
    /\ slipped = {}

---------------------------------------------------------------------------------
(* allow()                                                                         *)

AtMost(limit, n) == IF n < limit THEN n ELSE limit

\* Mutants: the refill is not cut off at the burst; it leaves out the last tick.
RefilledOver(e) == e.tokens + Rate * e.idle
RefilledLate(e) == AtMost(Capacity, e.tokens + (IF e.idle = 0 THEN 0 ELSE Rate * (e.idle - 1)))

Refilled(e) == AtMost(Capacity, e.tokens + Rate * e.idle)

Press(k) ==
    /\ pending[k] <= Handlers * (MaxPresses - 1)
    /\ pending' = [pending EXCEPT ![k] = @ + Handlers]
    /\ UNCHANGED <<stored, entry, listed, reused, history>>

Call(k) ==
    /\ pending[k] > 0
    /\ pending' = [pending EXCEPT ![k] = @ - 1]
    /\ stored' = stored \cup {k}
    /\ reused' = reused \cup ({k} \cap listed)
    /\ UNCHANGED <<listed, slipped>>

Refuse(k) ==
    /\ Call(k)
    /\ entry[k].muted > 0
    /\ UNCHANGED <<entry, debt, quiet>>

Take(k) ==
    /\ Call(k)
    /\ entry[k].muted = 0 /\ Refilled(entry[k]) >= 1
    /\ entry' = [entry EXCEPT ![k] = [tokens |-> Refilled(@) - 1, idle |-> 0, muted |-> 0]]
    /\ debt' = [debt EXCEPT ![k] = @ + 1]
    /\ UNCHANGED quiet

\* The bucket is empty: the user is muted from this call on.
Penalise(k) ==
    /\ Call(k)
    /\ entry[k].muted = 0 /\ Refilled(entry[k]) < 1
    /\ entry' = [entry EXCEPT ![k] =
                    [tokens |-> Refilled(@), idle |-> 0, muted |-> CoolDown]]
    /\ quiet' = [quiet EXCEPT ![k] = 0]
    /\ UNCHANGED debt

---------------------------------------------------------------------------------
(* cleanup(), in the scheduler's thread                                            *)

\* Mutant: idle for any time at all.
ForgettableSoon(e) == e.idle > 0

Forgettable(e) == e.idle > MaxAge /\ e.muted = 0

\* A press that adds a key meanwhile makes the loop over _store fail, and no key is
\* listed.
List ==
    /\ listed = {}
    /\ listed' = {k \in stored : Forgettable(entry[k])}
    /\ reused' = {}
    /\ UNCHANGED <<stored, entry, pending, history>>

Delete(k) ==
    /\ k \in listed
    /\ listed' = listed \ {k}
    /\ stored' = stored \ {k}
    /\ entry' = [entry EXCEPT ![k] = Full]
    /\ slipped' = slipped \cup ({k} \cap reused)
    /\ UNCHANGED <<pending, reused, debt, quiet>>

---------------------------------------------------------------------------------
Aged(e) == [e EXCEPT !.idle = AtMost(MaxAge + 1, @ + 1), !.muted = IF @ > 0 THEN @ - 1 ELSE 0]

BucketTick ==
    /\ entry' = [k \in Keys |-> IF k \in stored THEN Aged(entry[k]) ELSE entry[k]]
    /\ debt' = [k \in Keys |-> IF debt[k] > Rate THEN debt[k] - Rate ELSE 0]
    /\ quiet' = [k \in Keys |-> AtMost(CoolDown, quiet[k] + 1)]
    /\ slipped' = {k \in slipped : debt'[k] > 0 \/ quiet'[k] < CoolDown}
    /\ UNCHANGED <<stored, pending, listed, reused>>

BucketNext ==
    \/ \E k \in Keys : Press(k) \/ Refuse(k) \/ Take(k) \/ Penalise(k) \/ Delete(k)
    \/ List \/ BucketTick

BucketSpec == BucketInit /\ [][BucketNext]_bucketVars

---------------------------------------------------------------------------------
(* Properties                                                                      *)

\* In no stretch of time does a user get more calls through than the burst and what the
\* rate allows in it, whatever the cleanup forgets, but for a bucket it deletes while
\* it is being used.
RateBound == \A k \in Keys : debt[k] <= Capacity \/ k \in slipped

\* A call that found the bucket empty keeps the user out for the whole cooldown, with
\* the same exception.
MuteHolds == [][\A k \in Keys : Take(k) => quiet[k] = CoolDown \/ k \in slipped]_bucketVars

\* No call is refused to a user who is within the rate and in no cooldown: the wait
\* refills the bucket, and deleting it takes no token away.
OnlyExcessRefused ==
    [][\A k \in Keys : Refuse(k) \/ Penalise(k) => quiet[k] < CoolDown \/ debt[k] >= Capacity]_bucketVars
=================================================================================
