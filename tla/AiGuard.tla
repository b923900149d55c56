--------------------------------- MODULE AiGuard ---------------------------------
(* AI moderation of a message (app/services/moderation.py, on_message) behind the  *)
(* circuit breaker and the retries of app/services/ai_moderation_guard.py.         *)
(*                                                                                 *)
(* A caller is a task that runs on_message for a PRO user's message in one chat:   *)
(* one in the background worker, several with WEBHOOK_INLINE_PROCESS.  Callers     *)
(* interleave where call_with_resilience awaits: the provider and the backoff.     *)
(* The handler's own timeout may cancel a caller at either place.                  *)
EXTENDS Integers, Sequences, FiniteSets

CONSTANTS
    Callers,
    Threshold,      \* failure_threshold
    Window,         \* window_sec
    OpenFor,        \* open_duration
    Probes,         \* half_open_probe
    MaxRetries,     \* max_retries of call_with_resilience
    Quota,          \* AI_MONTHLY_QUOTA
    CallTime,       \* how long a call may take: its timeouts, backoffs and retries
    MaxFaults,      \* bound: statements on ai_usage that fail
    MaxTime         \* bound: the clock stops there

\* The breaker of the code opens for 120 seconds on failures within 60.
ASSUME GuardAssumption ==
    /\ IsFiniteSet(Callers) /\ Callers # {}
    /\ {Threshold, Probes, CallTime} \subseteq Nat \ {0}
    /\ {Window, OpenFor, MaxRetries, Quota, MaxFaults, MaxTime} \subseteq Nat
    /\ Window < OpenFor

VARIABLES
    now,            \* time.monotonic()
    breaker,        \* _CB
    call,           \* where each caller is
    usage,          \* ai_usage of the chat in this month
    answered,       \* history: the calls the provider has answered
    faults,         \* history: the reads and writes of ai_usage that failed
    probed,         \* history: the calls admitted since the breaker went half-open
    failedAt        \* history: when the failures since the last success were recorded

quota == <<usage, answered, faults>>
guardVars == <<now, breaker, call, quota, probed, failedAt>>

Outside == [pc |-> "outside", attempt |-> 0, since |-> 0, over |-> FALSE]

GuardTypeOK ==
    /\ now \in 0..MaxTime
    /\ breaker \in [state : {"CLOSED", "OPEN", "HALF_OPEN"}, failures : Seq(0..MaxTime),
                    opened_at : 0..MaxTime, probes_left : 0..Probes]
    /\ call \in [Callers -> [pc : {"outside", "calling", "backoff"}, attempt : 0..MaxRetries,
                             since : 0..MaxTime, over : BOOLEAN]]
    /\ usage \in Nat /\ answered \in Nat
    /\ faults \in 0..MaxFaults
    /\ probed \in Nat
    /\ failedAt \in Seq(0..MaxTime)

GuardInit ==
    /\ now = 0
    /\ breaker = [state |-> "CLOSED", failures |-> << >>, opened_at |-> 0, probes_left |-> 0]
    /\ call = [c \in Callers |-> Outside]
    /\ usage = 0 /\ answered = 0 /\ faults = 0
    /\ probed = 0
    /\ failedAt = << >>

---------------------------------------------------------------------------------
(* CircuitBreaker                                                                  *)

\* Mutant: the window is not slid.
RecentAll(failures) == failures

\* Failures are noted in the order of time: those the window has left behind come first.
Recent(failures) ==
    LET gone == {i \in DOMAIN failures : now - failures[i] > Window}
    IN SubSeq(failures, Cardinality(gone) + 1, Len(failures))

\* Mutant: window_sec in the place of open_duration.
RefusesShort(b) ==
    \/ b.state = "OPEN" /\ now - b.opened_at < Window
    \/ b.state = "HALF_OPEN" /\ b.probes_left = 0

\* The half of allow() that says no: the breaker is open, or out of probes.
Refuses(b) ==
    \/ b.state = "OPEN" /\ now - b.opened_at < OpenFor
    \/ b.state = "HALF_OPEN" /\ b.probes_left = 0

\* Mutant: the call that turns the breaker half-open costs no probe.
AllowedFree(b) ==
    LET slid == [b EXCEPT !.failures = Recent(@)]
    IN CASE b.state = "OPEN"      -> [slid EXCEPT !.state = "HALF_OPEN", !.probes_left = Probes]
         [] b.state = "HALF_OPEN" -> [slid EXCEPT !.probes_left = @ - 1]
         [] OTHER                 -> slid

\* What allow() makes of the breaker when it says yes: the first call after
\* open_duration turns it half-open, and each call then costs a probe.
Allowed(b) ==
    LET slid == [b EXCEPT !.failures = Recent(@)]
    IN CASE b.state = "OPEN"      -> [slid EXCEPT !.state = "HALF_OPEN", !.probes_left = Probes - 1]
         [] b.state = "HALF_OPEN" -> [slid EXCEPT !.probes_left = @ - 1]
         [] OTHER                 -> slid

\* record_success()
Success(b) ==
    IF b.state = "CLOSED" THEN [b EXCEPT !.failures = << >>]
    ELSE [state |-> "CLOSED", failures |-> << >>, opened_at |-> 0, probes_left |-> 0]

\* record_failure()
Failure(b) ==
    LET kept == Recent(Append(b.failures, now))
    IN IF Len(kept) >= Threshold
       THEN [b EXCEPT !.failures = kept, !.state = "OPEN", !.opened_at = now]
       ELSE [b EXCEPT !.failures = kept]

---------------------------------------------------------------------------------
(* call_with_resilience                                                            *)

\* The attempt of c failed: record_failure(), then the backoff or the end.
FailedAttempt(c, b, this) ==
    /\ breaker' = Failure(b)
    /\ failedAt' = Append(failedAt, now)
    /\ call' = [call EXCEPT ![c] =
                  IF this.attempt < MaxRetries THEN [this EXCEPT !.pc = "backoff"] ELSE Outside]

Admit(c) ==
    /\ call[c] = Outside
    /\ ~Refuses(breaker)
    /\ probed' = CASE breaker.state = "CLOSED"    -> 0
                   [] breaker.state = "OPEN"      -> 1
                   [] breaker.state = "HALF_OPEN" -> probed + 1
    /\ UNCHANGED now

Fault == faults < MaxFaults /\ faults' = faults + 1

\* Mutant: used > quota
HasQuotaLate == usage <= Quota

\* not used >= quota
HasQuota == usage < Quota

\* The chat has quota left when the message comes, or that cannot be read: the except
\* clause lets the call through.  Usage is read now and written later.
Start(c) ==
    /\ \/ HasQuota /\ UNCHANGED faults
       \/ Fault
    /\ Admit(c)
    /\ breaker' = Allowed(breaker)
    /\ call' = [call EXCEPT ![c] = [pc |-> "calling", attempt |-> 0, since |-> now, over |-> FALSE]]
    /\ UNCHANGED <<usage, answered, failedAt>>

\* The quota is used up: ai_provider is None, and asyncio.to_thread(None.moderate, ...)
\* raises before anything is awaited.
StartOverQuota(c) ==
    /\ ~HasQuota
    /\ Admit(c)
    /\ FailedAttempt(c, Allowed(breaker),
                     [pc |-> "calling", attempt |-> 0, since |-> now, over |-> TRUE])
    /\ UNCHANGED quota

\* allow() says no: (False, None).
Skipped(c) ==
    /\ call[c] = Outside
    /\ Refuses(breaker)
    /\ breaker' = [breaker EXCEPT !.failures = Recent(@)]
    /\ UNCHANGED <<now, call, quota, probed, failedAt>>

\* The provider answers: record_success(), ai_increment(), whose failure is ignored,
\* record_ai_success().
Succeed(c) ==
    /\ call[c].pc = "calling"
    /\ breaker' = Success(breaker)
    /\ answered' = answered + 1
    /\ \/ usage' = usage + 1 /\ UNCHANGED faults
       \/ Fault /\ UNCHANGED usage
    /\ failedAt' = << >>
    /\ call' = [call EXCEPT ![c] = Outside]
    /\ UNCHANGED <<now, probed>>

\* timeout_s runs out, or the provider's thread raises.
Fail(c) ==
    /\ call[c].pc = "calling"
    /\ FailedAttempt(c, breaker, call[c])
    /\ UNCHANGED <<now, quota, probed>>

\* The backoff is over: the next attempt does not ask the breaker again.
Retry(c) ==
    /\ call[c].pc = "backoff"
    /\ LET this == [call[c] EXCEPT !.pc = "calling", !.attempt = @ + 1] IN
       IF this.over
       THEN FailedAttempt(c, breaker, this)
       ELSE call' = [call EXCEPT ![c] = this] /\ UNCHANGED <<breaker, failedAt>>
    /\ UNCHANGED <<now, quota, probed>>

\* The timeout of the handler: CancelledError is no Exception, nothing is recorded.
Cancel(c) ==
    /\ call[c] # Outside
    /\ call' = [call EXCEPT ![c] = Outside]
    /\ UNCHANGED <<now, breaker, quota, probed, failedAt>>

GuardTick ==
    /\ now < MaxTime
    /\ \A c \in Callers : call[c] # Outside => now < call[c].since + CallTime
    /\ now' = now + 1
    /\ UNCHANGED <<breaker, call, quota, probed, failedAt>>

GuardNext ==
    \/ \E c \in Callers :
        \/ Start(c) \/ StartOverQuota(c) \/ Skipped(c)
        \/ Succeed(c) \/ Fail(c) \/ Retry(c) \/ Cancel(c)
    \/ GuardTick

GuardSpec == GuardInit /\ [][GuardNext]_guardVars

---------------------------------------------------------------------------------
(* Properties                                                                      *)

\* The calls admitted since the breaker went half-open are the probes it has spent,
\* whatever successes, failures and reopenings came in between (allow, record_*).
ProbeBudget ==
    breaker.state = "HALF_OPEN" => probed + breaker.probes_left = Probes

\* A half-open breaker has fewer failures in its window than it takes to open it:
\* open_duration outlasts window_sec and every later burst opens it again.
HalfOpenQuiet ==
    breaker.state = "HALF_OPEN" => Len(Recent(breaker.failures)) < Threshold

\* The breaker opens only on failure_threshold failures within one window that no
\* success came between (record_failure, record_success).
OpenNeedsBurst ==
    [][breaker.state # "OPEN" /\ breaker'.state = "OPEN"
        => /\ Len(failedAt') >= Threshold
           /\ now - failedAt'[Len(failedAt') - Threshold + 1] <= Window]_guardVars

\* The quota is read before the call and written after it: concurrent messages exceed
\* it by one for each other message in flight, statements that fail by one for each, a
\* read because the call goes on, a write because it is not counted; by no more (on_message).
QuotaOvershoot == answered <= Quota + Cardinality(Callers) - 1 + faults
=================================================================================
