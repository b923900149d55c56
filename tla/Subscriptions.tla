------------------------------ MODULE Subscriptions ------------------------------
(* The PRO subscriptions: app/db/subscriptions.py, app/services/subscriptions.py   *)
(* and upgrade_user_to_pro (app/db/queries.py).  The end of a subscription is kept *)
(* twice, in subscriptions.until and in users.until; each of the scheduler's jobs  *)
(* reads one of them.                                                              *)
(*                                                                                 *)
(* expire_due and cleanup_old_data run in the scheduler's thread, on each table by *)
(* one statement.  run_reminders is a coroutine of the event loop: it reads what   *)
(* is due once and then awaits one message after the other; it is started every    *)
(* ten minutes, and is taken to be over by then.                                   *)
EXTENDS Integers

CONSTANTS
    Users,
    Period,         \* PRO_PERIOD_DAYS; the clock ticks once a day
    KeepReminders,  \* CLEANUP_REMINDERS_DAYS
    MaxTime,        \* bound: the clock stops there
    MaxMishaps      \* bound: failing statements and messages, and deaths of the process

ASSUME SubscriptionAssumption ==
    /\ {Period, KeepReminders} \subseteq Nat \ {0}
    /\ {MaxTime, MaxMishaps} \subseteq Nat

VARIABLES
    now,            \* datetime.utcnow()
    until,          \* subscriptions.until of each user
    account,        \* users.plan and users.until
    flags,          \* subscription_reminders: the reminders marked as sent
    due,            \* what the running run_reminders has still to send
    mishaps,        \* how many there have been
    credit,         \* history: when the subscription was last extended
    sent,           \* history: the reminders sent since then
    again,          \* history: the reminders sent more than once since then
    excused         \* history: the users whose flags were cleaned up, or a flag lost, since then

books == <<now, until, account, flags, due, credit, sent, again, excused>>
subVars == <<books, mishaps>>

Flags == {"t3", "t1", "t0"}
Never == -1  \* NULL, or no row
Dates == Nat \cup {Never}
Free  == [plan |-> "free", until |-> Never]

SubTypeOK ==
    /\ now \in 0..MaxTime
    /\ until \in [Users -> Dates]
    /\ account \in [Users -> [plan : {"free", "pro"}, until : Dates]]
    /\ flags \in [Users -> SUBSET Flags]
    /\ due \subseteq Users \X Flags
    /\ mishaps \in 0..MaxMishaps
    /\ credit \in [Users -> Dates]
    /\ again \subseteq sent /\ sent \subseteq Users \X Flags
    /\ excused \subseteq Users

SubInit ==
    /\ now = 0
    /\ until = [u \in Users |-> Never]
    /\ account = [u \in Users |-> Free]
    /\ flags = [u \in Users |-> {}]
    /\ due = {}
    /\ mishaps = 0
    /\ credit = [u \in Users |-> Never]
    /\ sent = {}
    /\ again = {}
    /\ excused = {}

\* Something fails.
Mishap == mishaps < MaxMishaps /\ mishaps' = mishaps + 1

---------------------------------------------------------------------------------
(* What a payment does                                                             *)

\* Mutant: the new period starts when it is paid.
ExtendedFromNow(t) == now + Period

\* A period from the end of the subscription, or from now if it has ended.
Extended(t) == (IF t < now THEN now ELSE t) + Period

\* upsert_subscription: the reminders of the row stay as they are.
Extend(u) ==
    /\ until' = [until EXCEPT ![u] = Extended(@)]
    /\ credit' = [credit EXCEPT ![u] = now]
    /\ sent' = sent \ ({u} \X Flags)
    /\ again' = again \ ({u} \X Flags)
    /\ excused' = excused \ {u}

\* upgrade_user_to_pro: a period from now, whatever was left of the last one.
Upgrade(u) == account' = [account EXCEPT ![u] = [plan |-> "pro", until |-> now + Period]]

---------------------------------------------------------------------------------
(* The jobs                                                                        *)

DaysLeft(u) == until[u] - now

\* Mutant: the flags are not looked at.
DueFlagAlways(u, f) ==
    /\ until[u] # Never
    /\ f = "t3" => DaysLeft(u) = 3
    /\ f = "t1" => DaysLeft(u) = 1
    /\ f = "t0" => DaysLeft(u) <= 0

DueFlag(u, f) ==
    /\ until[u] # Never
    /\ f \notin flags[u]
    /\ f = "t3" => DaysLeft(u) = 3
    /\ f = "t1" => DaysLeft(u) = 1
    /\ f = "t0" => DaysLeft(u) <= 0

\* run_reminders starts: find_due_reminders().
FindDue ==
    /\ due = {}
    /\ due' = {r \in Users \X Flags : DueFlag(r[1], r[2])}
    /\ UNCHANGED <<now, until, account, flags, mishaps, credit, sent, again, excused>>

\* The message arrives and mark_reminder_sent() follows.  That fails, or send_message()
\* raises although the message arrived, as when its answer timed out: no flag is written,
\* and the whole run ends.
Remind(u, f) ==
    /\ <<u, f>> \in due
    /\ sent' = sent \cup {<<u, f>>}
    /\ again' = again \cup ({<<u, f>>} \cap sent)
    /\ \/ /\ flags' = [flags EXCEPT ![u] = @ \cup {f}]
          /\ due' = due \ {<<u, f>>}
          /\ UNCHANGED <<mishaps, excused>>
       \/ /\ Mishap
          /\ due' = {}
          /\ excused' = excused \cup {u}
          /\ UNCHANGED flags
    /\ UNCHANGED <<now, until, account, credit>>

\* The message does not arrive, as with a user who blocked the bot: the run ends, and with
\* it the messages to everybody after that user.
RemindFails ==
    /\ due # {}
    /\ due' = {}
    /\ Mishap
    /\ UNCHANGED <<now, until, account, flags, credit, sent, again, excused>>

\* Mutant: users expire by the day they are paid up to.
ExpiresEarly(u) == account[u].until # Never /\ account[u].until <= now + 1

Expires(u) == account[u].until # Never /\ account[u].until <= now

\* expire_due(): the subscription itself is not touched.
ExpireDue ==
    /\ account' = [u \in Users |-> IF Expires(u) THEN Free ELSE account[u]]
    /\ UNCHANGED <<now, until, flags, due, mishaps, credit, sent, again, excused>>

\* The subscriptions that ended more than CLEANUP_REMINDERS_DAYS ago: the column has a
\* 'T' where datetime() has a space, so that a row of the last day compares as later.
Stale == {u \in Users : until[u] # Never /\ until[u] < now - KeepReminders}

\* cleanup_old_data(): their reminders are deleted, they are not.
Cleanup ==
    /\ flags' = [u \in Users |-> IF u \in Stale THEN {} ELSE flags[u]]
    /\ excused' = excused \cup Stale
    /\ UNCHANGED <<now, until, account, due, mishaps, credit, sent, again>>

Tick ==
    /\ now < MaxTime
    /\ now' = now + 1
    /\ UNCHANGED <<until, account, flags, due, mishaps, credit, sent, again, excused>>
=================================================================================
