--------------------------------- MODULE Backoff ---------------------------------
(* _calculate_jittered_backoff (app/services/send_queue.py): the sets of sleeps it *)
(* draws from, in whole units of time.                                             *)
EXTENDS Integers

CONSTANTS
    BackoffBase,    \* BACKOFF_BASE
    BackoffMax      \* BACKOFF_MAX

ASSUME BackoffAssumption == {BackoffBase, BackoffMax} \subseteq Nat

\* random.uniform takes its bounds in either order.
Uniform(x, y) == IF x < y THEN x..y ELSE y..x

\* base * 2 ** (attempt - 1), at most max_delay.
Exponential(attempt) ==
    LET delay == BackoffBase * 2^(attempt - 1) IN
    IF delay < BackoffMax THEN delay ELSE BackoffMax

FullJitter(attempt) == Uniform(0, Exponential(attempt))

Decorrelated(attempt) ==
    Uniform(IF attempt = 1 THEN 0 ELSE BackoffBase,
            IF attempt = 1 THEN BackoffBase ELSE 3 * Exponential(attempt))

NoJitter(attempt) == {Exponential(attempt)}

\* The sleeps after an error: BACKOFF_JITTER selects, and whatever it does not know is none.
Delays(jitter, attempt) ==
    CASE jitter = "full" -> FullJitter(attempt)
      [] jitter = "decorrelated" -> Decorrelated(attempt)
      [] OTHER -> NoJitter(attempt)

\* The sleeps after a 429: 30 percent more or less than what Telegram asks for.
Jittered(retryAfter) == ((7 * retryAfter) \div 10)..((13 * retryAfter + 9) \div 10)
=================================================================================
