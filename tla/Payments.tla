-------------------------------- MODULE Payments ---------------------------------
(* handle_successful_payment (app/services/payments.py), statement by statement,   *)
(* with the payments table, the idempotency row of the charge and the subscription *)
(* it pays for.  A charge may come again: the process may have died on it, or the  *)
(* update was let through blindly (UpdatePipeline).                                *)
(*                                                                                 *)
(* One process, whose worker hands over one update at a time.  The handler awaits  *)
(* nothing before upgrade_user_to_pro, so that until then only the scheduler's     *)
(* thread, the clock and the death of the process come between its statements.     *)
EXTENDS Subscriptions, FiniteSets

CONSTANTS
    Charges,        \* telegram_payment_charge_id
    OwnerOf,        \* the user who paid each charge
    NoCharge,       \* the handler is not running
    MaxDeliveries   \* bound: how many deliveries there are in all

ASSUME PaymentAssumption ==
    /\ NoCharge \notin Charges
    /\ OwnerOf \in [Charges -> Users]
    /\ MaxDeliveries \in Nat

VARIABLES
    recorded,       \* the charges in the payments table, with status 'ok'
    taken,          \* those with an idempotency row, 'processing' or 'done'
    handler,        \* the charge it works on, and the statement it is at
    deliveries,     \* how many there have been
    credited,       \* history: how often each charge has extended the subscription
    unrecorded,     \* history: the charges that did so without being in the table
    cut             \* history: the charges whose activation failed, or never ran

payVars == <<recorded, taken, handler, deliveries, credited, unrecorded, cut>>
vars == <<subVars, payVars>>

Idle == [pc |-> "idle", charge |-> NoCharge]

TypeOK ==
    /\ SubTypeOK
    /\ recorded \subseteq Charges
    /\ taken \subseteq Charges
    /\ handler \in [pc : {"begin", "record", "extend", "upgrade"}, charge : Charges]
                     \cup {Idle}
    /\ deliveries \in 0..MaxDeliveries
    /\ credited \in [Charges -> 0..MaxDeliveries]
    /\ unrecorded \subseteq Charges
    /\ cut \subseteq Charges

Init ==
    /\ SubInit
    /\ recorded = {}
    /\ taken = {}
    /\ handler = Idle
    /\ deliveries = 0
    /\ credited = [c \in Charges |-> 0]
    /\ unrecorded = {}
    /\ cut = {}

---------------------------------------------------------------------------------
(* handle_successful_payment                                                       *)

At(pc) == handler.pc = pc
Goto(pc) == handler' = [handler EXCEPT !.pc = pc]
Charge == handler.charge

\* Mutant: the charge is not looked up.
SeenNever(c) == FALSE

\* seen_charge_id()
Seen(c) == c \in recorded

\* A charge that was seen, or whose lookup raises, ends the handler here.
Receive(c) ==
    /\ handler = Idle
    /\ deliveries < MaxDeliveries
    /\ deliveries' = deliveries + 1
    /\ \/ Seen(c) /\ UNCHANGED <<handler, mishaps>>
       \/ Mishap /\ UNCHANGED handler
       \/ ~Seen(c) /\ handler' = [pc |-> "begin", charge |-> c] /\ UNCHANGED mishaps
    /\ UNCHANGED <<books, recorded, taken, credited, unrecorded, cut>>

\* begin() of with_idempotency (IdempotencyStore): a row that is there and has not
\* expired skips _process(), but not the activation that follows.  How old the row is
\* (IDMP_TTL_SEC) is left open.
Begin ==
    /\ At("begin")
    /\ \/ taken' = taken \cup {Charge} /\ Goto("record") /\ UNCHANGED mishaps
       \/ Charge \in taken /\ Goto("extend") /\ UNCHANGED <<taken, mishaps>>
       \/ Mishap /\ Goto("record") /\ UNCHANGED taken
    /\ UNCHANGED <<books, recorded, deliveries, credited, unrecorded, cut>>

\* record_payment(); what it or its row in payment_audit raises is logged and swallowed,
\* so that the commit() that follows marks the row as done in any case.
Record ==
    /\ At("record")
    /\ \/ recorded' = recorded \cup {Charge} /\ UNCHANGED mishaps
       \/ Mishap /\ UNCHANGED recorded
    /\ Goto("extend")
    /\ UNCHANGED <<books, taken, deliveries, credited, unrecorded, cut>>

\* Mutant: a subscription that still runs is not extended.
ActivateOnce ==
    /\ At("extend")
    /\ \/ /\ until[OwnerOf[Charge]] <= now
          /\ Extend(OwnerOf[Charge])
          /\ credited' = [credited EXCEPT ![Charge] = @ + 1]
       \/ /\ until[OwnerOf[Charge]] > now
          /\ UNCHANGED <<until, credit, sent, again, excused, credited>>
    /\ unrecorded' = unrecorded \cup ({Charge} \ recorded)
    /\ Goto("upgrade")
    /\ UNCHANGED <<now, account, flags, due, mishaps, recorded, taken, deliveries, cut>>

\* _activate(): upsert_subscription().
Activate ==
    /\ At("extend")
    /\ Extend(OwnerOf[Charge])
    /\ credited' = [credited EXCEPT ![Charge] = @ + 1]
    /\ unrecorded' = unrecorded \cup ({Charge} \ recorded)
    /\ Goto("upgrade")
    /\ UNCHANGED <<now, account, flags, due, mishaps, recorded, taken, deliveries, cut>>

\* upsert_subscription() raises: logged and swallowed.
ActivateFails ==
    /\ At("extend")
    /\ Mishap
    /\ handler' = Idle
    /\ cut' = cut \cup {Charge}
    /\ UNCHANGED <<books, recorded, taken, deliveries, credited, unrecorded>>

\* run_in_threadpool(upgrade_user_to_pro, ...) returns.
Upgraded ==
    /\ At("upgrade")
    /\ Upgrade(OwnerOf[Charge])
    /\ handler' = Idle
    /\ UNCHANGED <<now, until, flags, due, mishaps, credit, sent, again, excused,
                   recorded, taken, deliveries, credited, unrecorded, cut>>

\* It raises, or the handler's timeout cancels it: the subscription stays extended.
UpgradeFails ==
    /\ At("upgrade")
    /\ handler' = Idle
    /\ cut' = cut \cup {Charge}
    /\ UNCHANGED <<subVars, recorded, taken, deliveries, credited, unrecorded>>

\* The process dies in the middle of a handler or of a run of reminders.
Crash ==
    /\ handler # Idle \/ due # {}
    /\ Mishap
    /\ handler' = Idle
    /\ cut' = cut \cup ({Charge} \ {NoCharge})
    /\ due' = {}
    /\ UNCHANGED <<now, until, account, flags, credit, sent, again, excused,
                   recorded, taken, deliveries, credited, unrecorded>>

\* run_reminders moves on where the handler awaits; the other jobs and the clock always.
Jobs ==
    /\ \/ /\ handler = Idle \/ At("upgrade")
          /\ FindDue \/ RemindFails \/ \E u \in Users, f \in Flags : Remind(u, f)
       \/ ExpireDue \/ Cleanup \/ Tick
    /\ UNCHANGED payVars

Next ==
    \/ \E c \in Charges : Receive(c)
    \/ Begin \/ Record \/ Activate \/ ActivateFails \/ Upgraded \/ UpgradeFails
    \/ Crash
    \/ Jobs

Spec == Init /\ [][Next]_vars

---------------------------------------------------------------------------------
(* Properties                                                                      *)

\* However often a charge comes and wherever its handler dies, it extends the
\* subscription once, unless it did so without being recorded: record_payment()
\* failed, or the process died before it and left the row behind.
CreditedOnce == \A c \in Charges \ unrecorded : credited[c] <= 1

\* "100% duplicate prevention via charge_id" (docs/extended-payment-handling-scope.md:242).
\* It is not so: where the record of a charge failed, _activate() runs all the same, and
\* again when the charge is delivered again.
DuplicatesPrevented == \A c \in Charges : credited[c] <= 1

\* A recorded charge, which no later delivery will activate, has been activated,
\* unless its handler failed or died on the way.
RecordedIsCredited == \A c \in recorded \ cut : credited[c] > 0 \/ Charge = c

\* The subscription's end covers every charge that extended it: a renewal adds to what
\* is left, and a duplicate never takes back (upsert_subscription).
PaidTimeCovered ==
    \A u \in Users :
        LET paid == {c \in Charges : OwnerOf[c] = u /\ credited[c] > 0}
        IN paid # {} => until[u] >= Cardinality(paid) * Period

\* expire_due() leaves a user the plan for a period after each activation, however the
\* jobs fall between the two places its end is kept in; unless the upgrade of one of
\* the user's charges is still under way, failed, or never ran.
PaidPeriodHonoured ==
    [][\A u \in Users :
        account[u].plan = "pro" /\ account'[u].plan = "free" =>
            \/ now >= credit[u] + Period
            \/ \E c \in Charges : OwnerOf[c] = u /\ (c \in cut \/ Charge = c)]_vars

\* A reminder goes out once in a period, unless its flag was lost or cleaned up
\* (find_due_reminders, mark_reminder_sent, cleanup_old_data).
RepeatsNeedCleanup == \A i \in again : i[1] \in excused
=================================================================================
