----------------------------- MODULE PaymentsProofs ------------------------------
(* Proofs about Payments for any users and charges, any period, any clock and any  *)
(* number of deliveries, failures and deaths of the process.                       *)
EXTENDS Payments, FiniteSetTheorems, TLAPS

\* The handler is at a charge that it has not yet activated.
Pending(c) == Charge = c /\ handler.pc \in {"begin", "record", "extend"}

\* A charge is activated at most once in each of its deliveries.
Counted == \A c \in Charges :
    credited[c] <= deliveries /\ (Pending(c) => credited[c] < deliveries)

TypeInv == TypeOK /\ Counted

\* The inductive invariant behind CreditedOnce: what has been activated is in the table,
\* where seen_charge_id() finds it.
Once(c) ==
    /\ credited[c] <= 1
    /\ credited[c] > 0 => c \in recorded
    /\ Pending(c) => credited[c] = 0
OnceInv == \A c \in Charges \ unrecorded : Once(c)

\* The inductive invariant behind RecordedIsCredited.
ActivatedInv ==
    /\ RecordedIsCredited
    /\ At("upgrade") => credited[Charge] > 0

\* The inductive invariant behind PaidPeriodHonoured: unless a charge of the user is on
\* its way or was cut off, users.until covers a period from the last activation.
Unsettled(u) == \E c \in Charges : OwnerOf[c] = u /\ (c \in cut \/ Charge = c)
HonouredInv == \A u \in Users :
    /\ credit[u] <= now
    /\ account[u].plan = "pro" =>
         account[u].until # Never /\ (account[u].until >= credit[u] + Period \/ Unsettled(u))

\* The inductive invariant behind RepeatsNeedCleanup: a reminder that went out has its
\* flag, and what is still to be sent has none.
FlaggedInv ==
    /\ RepeatsNeedCleanup
    /\ \A u \in Users, f \in Flags :
         /\ <<u, f>> \in sent /\ u \notin excused => f \in flags[u]
         /\ <<u, f>> \in due => f \notin flags[u]

\* The inductive invariant behind PaidTimeCovered: a user without a subscription has no
\* charge that was activated.
Paid(u) == {c \in Charges : OwnerOf[c] = u /\ credited[c] > 0}
Covered(u) ==
    /\ IsFiniteSet(Paid(u))
    /\ until[u] = Never => Paid(u) = {}
    /\ until[u] # Never => until[u] >= Cardinality(Paid(u)) * Period
CoveredInv == \A u \in Users : Covered(u)

---------------------------------------------------------------------------------
(* Type correctness                                                                *)

LEMMA InitType == Init => TypeInv
BY SubscriptionAssumption, PaymentAssumption
   DEF Init, SubInit, TypeInv, TypeOK, SubTypeOK, Counted, Pending, Idle, Dates, Never, Free

(* The jobs keep the types, and leave the payments alone.                           *)
LEMMA JobsType == TypeInv /\ Jobs => TypeInv'
<1> SUFFICES ASSUME TypeInv, Jobs PROVE TypeInv'
  OBVIOUS
<1> USE SubscriptionAssumption DEF Flags
<1>1. UNCHANGED payVars
  BY DEF Jobs
<1>2. ASSUME SubTypeOK' PROVE TypeInv'
  BY <1>1, <1>2 DEF TypeInv, TypeOK, payVars, Counted, Pending, Charge
<1>3. SubTypeOK
  BY DEF TypeInv, TypeOK
<1>4. ASSUME FindDue \/ RemindFails PROVE SubTypeOK'
  BY <1>3, <1>4 DEF FindDue, RemindFails, Mishap, SubTypeOK
<1>5. ASSUME NEW u \in Users, NEW f \in Flags, Remind(u, f) PROVE SubTypeOK'
  BY <1>3, <1>5 DEF Remind, Mishap, SubTypeOK
<1>6. ASSUME ExpireDue PROVE SubTypeOK'
  BY <1>3, <1>6 DEF ExpireDue, SubTypeOK, Free, Dates, Never
<1>7. ASSUME Cleanup PROVE SubTypeOK'
  BY <1>3, <1>7 DEF Cleanup, Stale, SubTypeOK
<1>8. ASSUME Tick PROVE SubTypeOK'
  BY <1>3, <1>8 DEF Tick, SubTypeOK
<1> QED BY <1>2, <1>4, <1>5, <1>6, <1>7, <1>8 DEF Jobs

LEMMA TypeStep == TypeInv /\ [Next]_vars => TypeInv'
<1> SUFFICES ASSUME TypeInv, [Next]_vars PROVE TypeInv'
  OBVIOUS
<1> USE SubscriptionAssumption, PaymentAssumption DEF At, Charge, Idle
<1>0. TypeOK /\ SubTypeOK /\ Counted
  BY DEF TypeInv, TypeOK
<1>1. ASSUME NEW c \in Charges, Receive(c) PROVE TypeInv'
  BY <1>0, <1>1 DEF Receive, Mishap, books, TypeInv, TypeOK, SubTypeOK, Counted, Pending
<1>2. ASSUME Begin PROVE TypeInv'
  BY <1>0, <1>2 DEF Begin, Goto, Mishap, books, TypeInv, TypeOK, SubTypeOK, Counted, Pending
<1>3. ASSUME Record PROVE TypeInv'
  BY <1>0, <1>3 DEF Record, Goto, Mishap, books, TypeInv, TypeOK, SubTypeOK, Counted, Pending
<1>4. ASSUME Activate PROVE TypeInv'
  <2>1. Charge \in Charges /\ OwnerOf[Charge] \in Users
    BY <1>0, <1>4 DEF Activate, TypeOK
  <2>2. \A t \in Dates : Extended(t) \in Dates
    BY <1>0 DEF Extended, Dates, Never, SubTypeOK
  <2>3. SubTypeOK'
    <3> DEFINE u == OwnerOf[Charge]
    <3>1. u \in Users /\ Extend(u) /\ UNCHANGED <<now, account, flags, due, mishaps>>
      BY <1>4, <2>1 DEF Activate
    <3> HIDE DEF u
    <3>2. until' \in [Users -> Dates]
      BY <1>0, <2>2, <3>1 DEF Extend, SubTypeOK
    <3>3. credit' \in [Users -> Dates]
      BY <1>0, <3>1 DEF Extend, SubTypeOK, Dates
    <3> QED BY <1>0, <3>1, <3>2, <3>3 DEF Extend, SubTypeOK
  <2>4. credited[Charge] + 1 \in 0..MaxDeliveries /\ credited[Charge] + 1 <= deliveries
    BY <1>0, <1>4, <2>1 DEF Activate, TypeOK, Counted, Pending
  <2>5. TypeOK'
    BY <1>0, <1>4, <2>1, <2>3, <2>4 DEF Activate, Goto, TypeOK
  <2>6. Counted'
    BY <1>0, <1>4, <2>1, <2>4 DEF Activate, Goto, TypeOK, Counted, Pending
  <2> QED BY <2>5, <2>6 DEF TypeInv
<1>5. ASSUME ActivateFails PROVE TypeInv'
  BY <1>0, <1>5 DEF ActivateFails, Mishap, books, TypeInv, TypeOK, SubTypeOK, Counted, Pending
<1>6. ASSUME Upgraded PROVE TypeInv'
  <2>1. now + Period \in Dates /\ OwnerOf[Charge] \in Users
    BY <1>0, <1>6 DEF Upgraded, TypeOK, SubTypeOK, Dates
  <2>2. account' \in [Users -> [plan : {"free", "pro"}, until : Dates]]
    <3> DEFINE paid == [plan |-> "pro", until |-> now + Period]
    <3>1. paid \in [plan : {"free", "pro"}, until : Dates]
      BY <2>1
    <3>2. account' = [account EXCEPT ![OwnerOf[Charge]] = paid]
      BY <1>6 DEF Upgraded, Upgrade
    <3> HIDE DEF paid
    <3> QED BY <1>0, <2>1, <3>1, <3>2 DEF SubTypeOK
  <2>3. SubTypeOK'
    BY <1>0, <1>6, <2>2 DEF Upgraded, SubTypeOK
  <2> QED BY <1>0, <1>6, <2>3 DEF Upgraded, TypeInv, TypeOK, Counted, Pending
<1>7. ASSUME UpgradeFails PROVE TypeInv'
  BY <1>0, <1>7 DEF UpgradeFails, subVars, books, TypeInv, TypeOK, SubTypeOK, Counted, Pending
<1>8. ASSUME Crash PROVE TypeInv'
  BY <1>0, <1>8 DEF Crash, Mishap, TypeInv, TypeOK, SubTypeOK, Counted, Pending
<1>9. ASSUME UNCHANGED vars PROVE TypeInv'
  BY <1>0, <1>9 DEF vars, subVars, books, payVars, TypeInv, TypeOK, SubTypeOK, Counted, Pending
<1> QED BY <1>1, <1>2, <1>3, <1>4, <1>5, <1>6, <1>7, <1>8, <1>9, JobsType DEF Next

(* The type invariant of Payments and Subscriptions; the bound on the activations  *)
(* of a charge is that of its deliveries.                                          *)
THEOREM TypeCorrect == Spec => []TypeOK
<1>1. TypeInv => TypeOK
  BY DEF TypeInv
<1> QED BY <1>1, InitType, TypeStep, PTL DEF Spec

---------------------------------------------------------------------------------
(* CreditedOnce                                                                    *)

LEMMA OnceStep == TypeInv /\ OnceInv /\ [Next]_vars => OnceInv'
<1> SUFFICES ASSUME TypeOK, OnceInv, [Next]_vars, NEW c \in Charges \ unrecorded'
             PROVE  Once(c)'
  BY DEF OnceInv, TypeInv
<1> USE PaymentAssumption DEF At, Charge, Idle, Once, Pending, TypeOK
<1>0. c \notin unrecorded => Once(c)
  BY DEF OnceInv
<1>1. ASSUME NEW d \in Charges, Receive(d) PROVE Once(c)'
  BY <1>0, <1>1 DEF Receive, Seen
<1>2. ASSUME Begin \/ Record PROVE Once(c)'
  BY <1>0, <1>2 DEF Begin, Record, Goto
<1>3. ASSUME Activate PROVE Once(c)'
  <2>1. CASE c = Charge
    BY <1>0, <1>3, <2>1 DEF Activate, Goto
  <2>2. CASE c # Charge
    BY <1>0, <1>3, <2>2 DEF Activate, Goto
  <2> QED BY <2>1, <2>2
<1>4. ASSUME ActivateFails \/ Upgraded \/ UpgradeFails \/ Crash PROVE Once(c)'
  BY <1>0, <1>4 DEF ActivateFails, Upgraded, UpgradeFails, Crash
<1>5. ASSUME Jobs \/ UNCHANGED vars PROVE Once(c)'
  BY <1>0, <1>5 DEF Jobs, vars, payVars
<1> QED BY <1>1, <1>2, <1>3, <1>4, <1>5 DEF Next

(* A charge extends the subscription once, however often it comes and wherever its  *)
(* handler dies, unless it did so without being recorded.                           *)
THEOREM ChargedOnce == Spec => []CreditedOnce
<1>1. Init => OnceInv
  BY DEF Init, OnceInv, Once, Pending, Idle
<1>2. OnceInv => CreditedOnce
  BY DEF OnceInv, Once, CreditedOnce
<1> QED BY <1>1, <1>2, InitType, TypeStep, OnceStep, PTL DEF Spec

---------------------------------------------------------------------------------
(* RecordedIsCredited                                                              *)

LEMMA ActivatedStep == TypeInv /\ ActivatedInv /\ [Next]_vars => ActivatedInv'
<1> SUFFICES ASSUME TypeOK, ActivatedInv, [Next]_vars PROVE ActivatedInv'
  BY DEF TypeInv
<1> USE PaymentAssumption DEF At, Charge, Idle, TypeOK, ActivatedInv, RecordedIsCredited
<1>1. ASSUME NEW c \in Charges, Receive(c) PROVE ActivatedInv'
  BY <1>1 DEF Receive, Seen
<1>2. ASSUME Begin \/ Record PROVE ActivatedInv'
  BY <1>2 DEF Begin, Record, Goto
<1>3. ASSUME Activate PROVE ActivatedInv'
  BY <1>3 DEF Activate, Goto
<1>4. ASSUME ActivateFails \/ Upgraded \/ UpgradeFails \/ Crash PROVE ActivatedInv'
  BY <1>4 DEF ActivateFails, Upgraded, UpgradeFails, Crash
<1>5. ASSUME Jobs \/ UNCHANGED vars PROVE ActivatedInv'
  BY <1>5 DEF Jobs, vars, payVars
<1> QED BY <1>1, <1>2, <1>3, <1>4, <1>5 DEF Next

(* What is in the payments table has been activated, unless its handler was cut off *)
(* before that: seen_charge_id() hides no other charge.                             *)
THEOREM RecordedActivated == Spec => []RecordedIsCredited
<1>1. Init => ActivatedInv
  BY DEF Init, ActivatedInv, RecordedIsCredited, At, Idle
<1>2. ActivatedInv => RecordedIsCredited
  BY DEF ActivatedInv
<1> QED BY <1>1, <1>2, InitType, TypeStep, ActivatedStep, PTL DEF Spec
---------------------------------------------------------------------------------
(* PaidPeriodHonoured                                                              *)

LEMMA HonouredStep == TypeInv /\ HonouredInv /\ [Next]_vars => HonouredInv'
<1> DEFINE Kept(u) == /\ credit[u] <= now
                      /\ account[u].plan = "pro" =>
                           /\ account[u].until # Never
                           /\ account[u].until >= credit[u] + Period \/ Unsettled(u)
<1> SUFFICES ASSUME TypeOK, SubTypeOK, HonouredInv, [Next]_vars, NEW u \in Users
             PROVE  Kept(u)'
  BY DEF TypeInv, TypeOK, HonouredInv
<1> USE SubscriptionAssumption, PaymentAssumption DEF At, Charge, Idle
<1>0. Kept(u) /\ now \in Nat /\ credit[u] \in Dates /\ account[u].until \in Dates
  BY DEF HonouredInv, SubTypeOK
<1>1. ASSUME now' >= now, now' \in Nat, credit'[u] = credit[u], account'[u] = account[u],
             Unsettled(u) => Unsettled(u)'
      PROVE  Kept(u)'
  BY <1>0, <1>1 DEF Dates, Never
<1>2. ASSUME NEW c \in Charges, Receive(c) PROVE Kept(u)'
  <2>1. Unsettled(u) => Unsettled(u)'
    BY <1>2 DEF Receive, Unsettled
  <2> QED BY <1>0, <1>1, <1>2, <2>1 DEF Receive, books
<1>3. ASSUME Begin \/ Record PROVE Kept(u)'
  <2>1. Unsettled(u) => Unsettled(u)'
    BY <1>3 DEF Begin, Record, Goto, Unsettled, TypeOK
  <2> QED BY <1>0, <1>1, <1>3, <2>1 DEF Begin, Record, books
<1>4. ASSUME Activate PROVE Kept(u)'
  <2>1. Charge \in Charges /\ handler'.charge = Charge /\ cut' = cut
    BY <1>4 DEF Activate, Goto, TypeOK
  <2>2. UNCHANGED <<now, account>>
    BY <1>4 DEF Activate
  <2>3. CASE OwnerOf[Charge] = u
    <3>1. Unsettled(u)'
      BY <2>1, <2>3 DEF Unsettled
    <3>2. credit'[u] = now
      BY <1>4, <2>3 DEF Activate, Extend, SubTypeOK
    <3> QED BY <1>0, <2>2, <3>1, <3>2
  <2>4. CASE OwnerOf[Charge] # u
    <3>1. credit'[u] = credit[u]
      BY <1>4, <2>4 DEF Activate, Extend, SubTypeOK
    <3>2. Unsettled(u) => Unsettled(u)'
      BY <2>1 DEF Unsettled
    <3> QED BY <1>0, <1>1, <2>2, <3>1, <3>2
  <2> QED BY <2>3, <2>4
<1>5. ASSUME Upgraded PROVE Kept(u)'
  <2>1. CASE OwnerOf[Charge] = u
    <3>1. account'[u].until = now + Period /\ UNCHANGED <<now, credit>>
      BY <1>5, <2>1 DEF Upgraded, Upgrade, SubTypeOK
    <3> QED BY <1>0, <3>1 DEF Dates, Never
  <2>2. CASE OwnerOf[Charge] # u
    <3>1. account'[u] = account[u] /\ UNCHANGED <<now, credit, cut>>
      BY <1>5, <2>2 DEF Upgraded, Upgrade, SubTypeOK
    <3>2. Unsettled(u) => Unsettled(u)'
      BY <2>2, <3>1 DEF Unsettled
    <3> QED BY <1>0, <1>1, <3>1, <3>2
  <2> QED BY <2>1, <2>2
<1>6. ASSUME ActivateFails \/ UpgradeFails \/ Crash PROVE Kept(u)'
  <2>1. Unsettled(u) => Unsettled(u)'
    BY <1>6 DEF ActivateFails, UpgradeFails, Crash, Unsettled
  <2> QED BY <1>0, <1>1, <1>6, <2>1 DEF ActivateFails, UpgradeFails, Crash, subVars, books
<1>7. ASSUME Jobs \/ UNCHANGED vars PROVE Kept(u)'
  <2>1. Unsettled(u) => Unsettled(u)'
    BY <1>7 DEF Jobs, vars, payVars, Unsettled
  <2>2. credit' = credit /\ (now' = now \/ now' = now + 1)
    <3>1. CASE Tick
      BY <3>1 DEF Tick
    <3>2. CASE FindDue \/ RemindFails \/ \E v \in Users, f \in Flags : Remind(v, f)
      BY <3>2 DEF FindDue, RemindFails, Remind
    <3>3. CASE ExpireDue \/ Cleanup \/ UNCHANGED vars
      BY <3>3 DEF ExpireDue, Cleanup, vars, subVars, books
    <3> QED BY <1>7, <3>1, <3>2, <3>3 DEF Jobs
  <2>3. account' = account \/ ExpireDue
    BY <1>7 DEF Jobs, vars, subVars, books, FindDue, RemindFails, Remind, Cleanup, Tick
  <2>4. account'[u] = account[u] \/ account'[u].plan = "free"
    BY <2>3 DEF ExpireDue, Free
  <2>5. CASE account'[u] = account[u]
    BY <1>0, <1>1, <2>1, <2>2, <2>5
  <2>6. CASE account'[u].plan = "free"
    BY <1>0, <2>2, <2>6 DEF Dates, Never
  <2> QED BY <2>4, <2>5, <2>6
<1> QED BY <1>2, <1>3, <1>4, <1>5, <1>6, <1>7 DEF Next

(* Only expire_due() ends a plan, and not within a period of its last activation    *)
(* that went through.                                                               *)
THEOREM PeriodHonoured == Spec => PaidPeriodHonoured
<1> DEFINE Ends(u) == account[u].plan = "pro" /\ account'[u].plan = "free"
           Honoured == \A u \in Users : Ends(u) => now >= credit[u] + Period \/ Unsettled(u)
<1> USE SubscriptionAssumption, PaymentAssumption
<1>1. Init => HonouredInv
  <2> SUFFICES ASSUME Init, NEW u \in Users
               PROVE  credit[u] <= now /\ account[u].plan # "pro"
    BY DEF HonouredInv
  <2>1. now = 0 /\ credit[u] = -1 /\ account[u] = Free
    BY DEF Init, SubInit, Never
  <2> QED BY <2>1 DEF Free
<1>2. TypeInv /\ HonouredInv /\ [Next]_vars => [Honoured]_vars
  <2> SUFFICES ASSUME TypeOK, SubTypeOK, HonouredInv, Next, NEW u \in Users, Ends(u)
               PROVE  now >= credit[u] + Period \/ Unsettled(u)
    BY DEF TypeInv, TypeOK
  <2>1. \/ account' = account \/ ExpireDue
        \/ Upgraded
    BY DEF Next, Receive, Begin, Record, Activate, ActivateFails, UpgradeFails, Crash, Jobs,
           FindDue, RemindFails, Remind, Cleanup, Tick, subVars, books
  <2>2. ~Upgraded \/ account'[u] = account[u]
    BY DEF Upgraded, Upgrade, SubTypeOK
  <2>3. account'[u] # account[u]
    OBVIOUS
  <2>4. Expires(u)
    BY <2>1, <2>2, <2>3 DEF ExpireDue
  <2> QED BY <2>4 DEF Expires, HonouredInv, SubTypeOK, Dates, Never
<1>3. [Honoured]_vars => [\A u \in Users : Ends(u) =>
          \/ now >= credit[u] + Period
          \/ \E c \in Charges : OwnerOf[c] = u /\ (c \in cut \/ Charge = c)]_vars
  BY DEF Unsettled
<1> QED BY <1>1, <1>2, <1>3, InitType, TypeStep, HonouredStep, PTL DEF Spec, PaidPeriodHonoured
---------------------------------------------------------------------------------
(* PaidTimeCovered                                                                 *)

(* A period more covers a charge more.                                              *)
LEMMA OneMore ==
    ASSUME NEW S, IsFiniteSet(S), NEW c, NEW t \in Int, t >= Cardinality(S) * Period
    PROVE  /\ IsFiniteSet(S \cup {c})
           /\ t + Period >= Cardinality(S \cup {c}) * Period
<1>1. IsFiniteSet(S \cup {c}) /\ Cardinality(S \cup {c}) \in Nat /\ Cardinality(S) \in Nat
  BY FS_AddElement, FS_CardinalityType
<1>2. Cardinality(S \cup {c}) = Cardinality(S) \/ Cardinality(S \cup {c}) = Cardinality(S) + 1
  BY FS_AddElement
<1>3. ASSUME NEW n \in Nat PROVE (n + 1) * Period = n * Period + Period /\ n * Period \in Nat
  BY SubscriptionAssumption
<1>4. Period \in Nat
  BY SubscriptionAssumption
<1>5. CASE Cardinality(S \cup {c}) = Cardinality(S)
  BY <1>1, <1>3, <1>4, <1>5
<1>6. CASE Cardinality(S \cup {c}) = Cardinality(S) + 1
  <2>1. Cardinality(S \cup {c}) * Period = Cardinality(S) * Period + Period
    BY <1>1, <1>3, <1>6
  <2> QED BY <1>1, <1>3, <1>4, <2>1
<1> QED BY <1>1, <1>2, <1>5, <1>6

LEMMA CoveredStep == TypeInv /\ CoveredInv /\ [Next]_vars => CoveredInv'
<1> SUFFICES ASSUME TypeOK, SubTypeOK, CoveredInv, [Next]_vars, NEW u \in Users
             PROVE  Covered(u)'
  BY DEF TypeInv, TypeOK, CoveredInv
<1> USE SubscriptionAssumption, PaymentAssumption
<1>0. Covered(u) /\ until[u] \in Dates /\ now \in Nat
  BY DEF CoveredInv, SubTypeOK
<1>1. ASSUME until'[u] = until[u], Paid(u)' = Paid(u) PROVE Covered(u)'
  BY <1>0, <1>1 DEF Covered
<1>2. CASE Activate
  <2> DEFINE c == Charge
  <2>1. c \in Charges
    BY <1>2 DEF Activate, At, Idle, TypeOK, Charge
  <2>2. credited' = [credited EXCEPT ![c] = @ + 1] /\ credited[c] \in Nat
    BY <1>2, <2>1 DEF Activate, TypeOK
  <2>3. until' = [until EXCEPT ![OwnerOf[c]] = Extended(@)]
    BY <1>2 DEF Activate, Extend
  <2> HIDE DEF c
  <2>4. CASE OwnerOf[c] # u
    <3>1. \A d \in Charges : OwnerOf[d] = u => credited'[d] = credited[d]
      BY <2>2, <2>4 DEF TypeOK
    <3>2. Paid(u)' = Paid(u)
      BY <3>1 DEF Paid
    <3> QED BY <1>1, <2>3, <2>4, <3>2 DEF SubTypeOK
  <2>5. CASE OwnerOf[c] = u
    <3>1. Paid(u)' = Paid(u) \cup {c}
      BY <2>1, <2>2, <2>5 DEF Paid, TypeOK
    <3>2. until'[u] = Extended(until[u])
      BY <2>3, <2>5 DEF SubTypeOK
    <3> DEFINE t == IF until[u] < now THEN now ELSE until[u]
    <3>3. t \in Nat /\ until'[u] = t + Period
      BY <1>0, <3>2 DEF Extended, Dates, Never
    <3>4. t >= Cardinality(Paid(u)) * Period
      <4>1. CASE until[u] = Never
        BY <1>0, <3>3, <4>1, FS_EmptySet DEF Covered
      <4>2. CASE until[u] # Never
        <5>1. until[u] >= Cardinality(Paid(u)) * Period /\ Cardinality(Paid(u)) * Period \in Int
          BY <1>0, <4>2, FS_CardinalityType DEF Covered
        <5> QED BY <1>0, <5>1 DEF Dates, Never
      <4> QED BY <4>1, <4>2
    <3> HIDE DEF t
    <3>5. /\ IsFiniteSet(Paid(u) \cup {c})
          /\ t + Period >= Cardinality(Paid(u) \cup {c}) * Period
      <4>1. IsFiniteSet(Paid(u)) /\ t \in Int
        BY <1>0, <3>3 DEF Covered
      <4> QED BY <3>4, <4>1, OneMore
    <3>6. until'[u] # Never
      BY <3>3 DEF Never
    <3> QED BY <3>1, <3>3, <3>5, <3>6 DEF Covered
  <2> QED BY <2>4, <2>5
<1>3. CASE ~Activate
  <2>1. UNCHANGED <<until, credited>>
    BY <1>3 DEF Next, Receive, Begin, Record, ActivateFails, Upgraded, UpgradeFails, Crash,
                Jobs, FindDue, RemindFails, Remind, ExpireDue, Cleanup, Tick, payVars,
                subVars, books, vars
  <2> QED BY <1>1, <2>1 DEF Paid
<1> QED BY <1>2, <1>3

(* A renewal adds to what is left and a repeated delivery never takes back: the end *)
(* of a subscription covers a period for every charge activated.                    *)
THEOREM TimeCovered == Spec => []PaidTimeCovered
<1>1. Init => CoveredInv
  <2> SUFFICES ASSUME Init, NEW u \in Users PROVE until[u] = Never /\ Paid(u) = {}
    BY FS_EmptySet DEF CoveredInv, Covered
  <2> QED BY DEF Init, SubInit, Paid
<1>2. CoveredInv => PaidTimeCovered
  <2> SUFFICES ASSUME CoveredInv, NEW u \in Users, Paid(u) # {}
               PROVE  until[u] >= Cardinality(Paid(u)) * Period
    BY DEF PaidTimeCovered, Paid
  <2> QED BY DEF CoveredInv, Covered
<1> QED BY <1>1, <1>2, InitType, TypeStep, CoveredStep, PTL DEF Spec

---------------------------------------------------------------------------------
(* RepeatsNeedCleanup                                                              *)

LEMMA FlaggedStep == TypeInv /\ FlaggedInv /\ [Next]_vars => FlaggedInv'
<1> SUFFICES ASSUME TypeOK, SubTypeOK, FlaggedInv, [Next]_vars PROVE FlaggedInv'
  BY DEF TypeInv, TypeOK
<1> USE DEF FlaggedInv, RepeatsNeedCleanup, SubTypeOK
<1>1. CASE UNCHANGED <<flags, due, sent, again, excused>>
  BY <1>1
<1>2. ASSUME NEW u \in Users, Extend(u), UNCHANGED <<flags, due>> PROVE FlaggedInv'
  BY <1>2 DEF Extend
<1>3. ASSUME due' = {}, UNCHANGED <<flags, sent, again, excused>> PROVE FlaggedInv'
  BY <1>3
<1>4. CASE FindDue
  BY <1>4 DEF FindDue, DueFlag
<1>5. ASSUME NEW u \in Users, NEW f \in Flags, Remind(u, f) PROVE FlaggedInv'
  <2>1. <<u, f>> \in sent => u \in excused
    BY <1>5 DEF Remind
  <2> QED BY <1>5, <2>1 DEF Remind
<1>6. CASE Cleanup
  BY <1>6 DEF Cleanup, Stale
<1>7. CASE Activate
  <2>1. Charge \in Charges
    BY <1>7 DEF Activate, At, Idle, TypeOK, Charge
  <2>2. OwnerOf[Charge] \in Users
    BY <2>1, PaymentAssumption
  <2> QED BY <1>2, <1>7, <2>2 DEF Activate
<1> QED BY <1>1, <1>2, <1>3, <1>4, <1>5, <1>6, <1>7
        DEF Next, Receive, Begin, Record, ActivateFails, Upgraded, UpgradeFails, Crash, Jobs,
            RemindFails, ExpireDue, Tick, subVars, books, vars

(* A reminder goes out a second time in a period only for a user whose flags were   *)
(* cleaned up or could not be written.                                              *)
THEOREM RepeatsExplained == Spec => []RepeatsNeedCleanup
<1>1. Init => FlaggedInv
  BY DEF Init, SubInit, FlaggedInv, RepeatsNeedCleanup
<1>2. FlaggedInv => RepeatsNeedCleanup
  BY DEF FlaggedInv
<1> QED BY <1>1, <1>2, InitType, TypeStep, FlaggedStep, PTL DEF Spec
=================================================================================
