----------------------------- MODULE SendQueueProofs -----------------------------
(* Proofs about SendQueue for any messages and chats, any gaps with the global one *)
(* no longer than that of a chat, any backoff and any number of attempts.          *)
EXTENDS SendQueue, SequenceTheorems, TLAPS

Busy == worker.pc \in {"spacing", "capping", "calling", "backoff"}

\* The inductive invariant behind SentSpaced: the sleeps that are left make up for what
\* the ages lack, and no chat is quiet for less than the last message is ago.
SpacedInv ==
    /\ quiet = chatAge
    /\ \A c \in Chats : quiet[c] >= globalAge
    /\ At("spacing") => /\ worker.sleep >= ChatGap - chatAge[Chat]
                        /\ worker.cap >= GlobalGap - globalAge
    /\ At("capping") => /\ chatAge[Chat] = ChatGap
                        /\ worker.sleep >= GlobalGap - globalAge
    /\ At("calling") \/ At("backoff") => chatAge[Chat] = ChatGap /\ globalAge = GlobalGap

\* The inductive invariant behind AttemptsSpent: every attempt but the present one ended
\* in a network error or was throttled.
Spent(m) == failures[m] + throttles[m]
SpentInv ==
    /\ AttemptsSpent
    /\ At("spacing") \/ At("capping") => worker.attempt = 0
    /\ At("calling") => worker.attempt \in 1..(Spent(Message) + 1)
    /\ At("backoff") => worker.attempt <= Spent(Message)

---------------------------------------------------------------------------------
(* Type correctness                                                                *)

LEMMA Numbers ==
    /\ ChatGap \in Nat /\ GlobalGap \in Nat /\ 0 < GlobalGap /\ GlobalGap <= ChatGap
    /\ MaxAttempts \in Nat /\ MaxThrottles \in Nat /\ QueueSize \in Nat
BY SendQueueAssumption

LEMMA BusyWorker ==
    ASSUME TypeOK, Busy
    PROVE  worker \in Sending /\ Message \in Messages /\ Chat \in Chats
<1>1. worker \in Sending
  BY DEF TypeOK, Busy, Resting, Stopped
<1>2. Message \in Messages
  BY <1>1 DEF Sending, Message
<1> QED BY <1>1, <1>2, SendQueueAssumption DEF Chat

(* The parts of the type invariant, which the actions change one or two at a time.  *)
LEMMA Typed ==
    ASSUME fate' \in [Messages -> Fates], queue' \in Seq(Messages), Len(queue') <= QueueSize,
           worker' \in Sending \cup {Resting, Stopped}, chatAge' \in [Chats -> 0..ChatGap],
           globalAge' \in 0..GlobalGap, failures' \in [Messages -> 0..(MaxAttempts + 1)],
           throttles' \in [Messages -> 0..MaxThrottles], quiet' \in [Chats -> 0..ChatGap]
    PROVE  TypeOK'
BY DEF TypeOK, Sending, Resting, Stopped

LEMMA TypeStep == TypeOK /\ SpentInv /\ [Next]_vars => TypeOK'
<1> SUFFICES ASSUME TypeOK, SpentInv, [Next]_vars PROVE TypeOK'
  OBVIOUS
<1> USE SendQueueAssumption, Numbers
<1>0. /\ fate \in [Messages -> Fates] /\ queue \in Seq(Messages) /\ Len(queue) <= QueueSize
      /\ worker \in Sending \cup {Resting, Stopped} /\ chatAge \in [Chats -> 0..ChatGap]
      /\ globalAge \in 0..GlobalGap /\ failures \in [Messages -> 0..(MaxAttempts + 1)]
      /\ throttles \in [Messages -> 0..MaxThrottles] /\ quiet \in [Chats -> 0..ChatGap]
  BY DEF TypeOK
<1>a. {"queued", "putting", "cancelled", "sending", "sent", "gave_up", "rejected", "stopped"}
        \subseteq Fates
  BY DEF Fates, Final
<1>1. ASSUME NEW m \in Messages, Put(m) \/ PutCancelled(m) PROVE TypeOK'
  <2>1. fate' \in [Messages -> Fates]
    BY <1>0, <1>a, <1>1 DEF Put, PutCancelled
  <2>2. queue' \in Seq(Messages) /\ Len(queue') <= QueueSize
    <3>1. CASE queue' = Append(queue, m) /\ Room
      <4>1. Len(queue) \in Nat /\ Len(queue') = Len(queue) + 1 /\ Len(queue) < QueueSize
        BY <1>0, <3>1 DEF Room
      <4> QED BY <1>0, <3>1, <4>1
    <3>2. CASE queue' = queue
      BY <1>0, <3>2
    <3> QED BY <1>1, <3>1, <3>2 DEF Put, PutCancelled
  <2>3. UNCHANGED <<worker, chatAge, globalAge, failures, throttles, quiet>>
    BY <1>1 DEF Put, PutCancelled
  <2> QED BY <1>0, <2>1, <2>2, <2>3, Typed
<1>2. CASE Get
  <2> DEFINE m == Head(queue)
  <2>1. m \in Messages /\ queue' \in Seq(Messages) /\ Len(queue') <= QueueSize
    <3>1. queue # <<>> /\ queue' = Tail(queue)
      BY <1>2 DEF Get
    <3>2. Len(queue') = Len(queue) - 1 /\ Len(queue) \in Nat
      BY <1>0, <3>1
    <3> QED BY <1>0, <3>1, <3>2
  <2>2. ChatOf[m] \in Chats
    BY <2>1
  <2>3. /\ Pause(ChatGap, chatAge[ChatOf[m]]) \in Nat
        /\ Pause(GlobalGap, globalAge) \in 0..GlobalGap
    BY <1>0, <2>2 DEF Pause
  <2>4. worker' = [pc |-> "spacing", message |-> m, sleep |-> Pause(ChatGap, chatAge[ChatOf[m]]),
                   attempt |-> 0, cap |-> Pause(GlobalGap, globalAge)]
    BY <1>2 DEF Get
  <2>5. fate' = [fate EXCEPT ![m] = "sending"]
    BY <1>2 DEF Get
  <2>6. UNCHANGED <<chatAge, globalAge, failures, throttles, quiet>>
    BY <1>2 DEF Get
  <2> HIDE DEF m
  <2>7. worker' \in Sending
    BY <2>1, <2>3, <2>4 DEF Sending
  <2>8. fate' \in [Messages -> Fates]
    BY <1>0, <1>a, <2>1, <2>5
  <2> QED BY <1>0, <2>1, <2>6, <2>7, <2>8, Typed
<1>3. CASE Spaced \/ Call
  <2>1. worker \in Sending
    BY <1>3, BusyWorker DEF Spaced, Call, At, Busy
  <2>2. worker' \in Sending
    <3>1. CASE Spaced
      <4>1. worker.cap \in Nat
        BY <2>1 DEF Sending
      <4>2. worker' = [worker EXCEPT !.pc = "capping", !.sleep = worker.cap]
        BY <3>1 DEF Spaced
      <4> QED BY <2>1, <4>1, <4>2 DEF Sending
    <3>2. CASE Call
      <4>1. Least(worker.attempt + 1, MaxAttempts + 1) \in 0..(MaxAttempts + 1)
        BY <2>1 DEF Sending, Least
      <4> QED BY <2>1, <3>2, <4>1 DEF Call, Sending
    <3> QED BY <1>3, <3>1, <3>2
  <2>3. UNCHANGED <<fate, queue, chatAge, globalAge, failures, throttles, quiet>>
    BY <1>3 DEF Spaced, Call
  <2> QED BY <1>0, <2>2, <2>3, Typed
<1>4. CASE Succeed \/ Reject
  <2>1. Message \in Messages /\ Chat \in Chats
    BY <1>4, BusyWorker DEF Succeed, Reject, At, Busy
  <2>2. fate' \in [Messages -> Fates] /\ worker' = Resting
    <3>1. CASE Succeed
      BY <1>0, <1>a, <2>1, <3>1 DEF Succeed, Done
    <3>2. CASE Reject
      BY <1>0, <1>a, <2>1, <3>2 DEF Reject, Done
    <3> QED BY <1>4, <3>1, <3>2
  <2>3. /\ chatAge' \in [Chats -> 0..ChatGap] /\ globalAge' \in 0..GlobalGap
        /\ quiet' \in [Chats -> 0..ChatGap]
    <3>1. CASE Succeed
      BY <1>0, <2>1, <3>1 DEF Succeed
    <3>2. CASE Reject
      BY <1>0, <3>2 DEF Reject
    <3> QED BY <1>4, <3>1, <3>2
  <2>4. UNCHANGED <<queue, failures, throttles>>
    BY <1>4 DEF Succeed, Reject
  <2> QED BY <1>0, <2>2, <2>3, <2>4, Typed
<1>5. CASE Throttled \/ Fail
  <2>1. worker \in Sending /\ Message \in Messages
    BY <1>5, BusyWorker DEF Throttled, Fail, At, Busy
  <2>2. ASSUME NEW sleeps, BackOff(sleeps), sleeps \subseteq Nat PROVE worker' \in Sending
    BY <2>1, <2>2 DEF BackOff, Sending
  <2>3. CASE Throttled
    <3>1. worker' \in Sending
      BY <2>2, <2>3 DEF Throttled
    <3>2. throttles' \in [Messages -> 0..MaxThrottles]
      BY <1>0, <2>1, <2>3 DEF Throttled
    <3>3. UNCHANGED <<fate, queue, chatAge, globalAge, failures, quiet>>
      BY <2>3 DEF Throttled
    <3> QED BY <1>0, <3>1, <3>2, <3>3, Typed
  <2>4. CASE Fail
    <3>1. failures' \in [Messages -> 0..(MaxAttempts + 1)]
      BY <1>0, <2>1, <2>4 DEF Fail, Least
    <3>2. UNCHANGED <<queue, chatAge, globalAge, throttles, quiet>>
      BY <2>4 DEF Fail
    <3>3. CASE Done(Message, "gave_up")
      <4>1. fate' \in [Messages -> Fates] /\ worker' = Resting
        BY <1>0, <1>a, <2>1, <3>3 DEF Done
      <4> QED BY <1>0, <3>1, <3>2, <4>1, Typed
    <3>4. CASE ~Exhausted /\ BackOff(Backoffs[worker.attempt]) /\ UNCHANGED fate
      <4>1. worker.attempt \in 1..MaxAttempts
        BY <2>1, <2>4, <3>4 DEF Fail, Exhausted, Sending, SpentInv
      <4>2. worker' \in Sending
        BY <2>2, <3>4, <4>1
      <4> QED BY <1>0, <3>1, <3>2, <3>4, <4>2, Typed
    <3> QED BY <2>4, <3>3, <3>4 DEF Fail
  <2> QED BY <1>5, <2>3, <2>4
<1>6. CASE Stop
  <2>1. fate' \in [Messages -> Fates] /\ worker' = Stopped
    BY <1>0, <1>a, <1>6 DEF Stop
  <2>2. UNCHANGED <<queue, chatAge, globalAge, failures, throttles, quiet>>
    BY <1>6 DEF Stop
  <2> QED BY <1>0, <2>1, <2>2, Typed
<1>7. CASE Tick
  <2>1. worker' \in Sending \cup {Resting, Stopped}
    <3>1. CASE worker \in {Resting, Stopped}
      <4>1. Awake
        BY <3>1 DEF Awake, Resting, Stopped
      <4> QED BY <1>0, <1>7, <4>1 DEF Tick
    <3>2. CASE worker \in Sending
      <4>1. CASE Awake
        BY <1>7, <3>2, <4>1 DEF Tick
      <4>2. CASE ~Awake
        <5>1. worker.sleep - 1 \in Nat
          BY <3>2, <4>2 DEF Awake, Sending
        <5>2. worker' = [worker EXCEPT !.sleep = worker.sleep - 1]
          BY <1>7, <4>2 DEF Tick
        <5> QED BY <3>2, <5>1, <5>2 DEF Sending
      <4> QED BY <4>1, <4>2
    <3> QED BY <1>0, <3>1, <3>2
  <2>2. /\ chatAge' \in [Chats -> 0..ChatGap] /\ globalAge' \in 0..GlobalGap
        /\ quiet' \in [Chats -> 0..ChatGap]
    BY <1>0, <1>7 DEF Tick, Least
  <2>3. UNCHANGED <<fate, queue, failures, throttles>>
    BY <1>7 DEF Tick
  <2> QED BY <1>0, <2>1, <2>2, <2>3, Typed
<1>8. CASE UNCHANGED vars
  BY <1>0, <1>8, Typed DEF vars
<1> QED BY <1>1, <1>2, <1>3, <1>4, <1>5, <1>6, <1>7, <1>8 DEF Next, Send
---------------------------------------------------------------------------------
(* AttemptsSpent                                                                   *)

LEMMA SpentStep == TypeOK /\ SpentInv /\ [Next]_vars => SpentInv'
<1> SUFFICES ASSUME TypeOK, SpentInv, [Next]_vars PROVE SpentInv'
  OBVIOUS
<1> USE Numbers
<1>0. failures \in [Messages -> 0..(MaxAttempts + 1)] /\ throttles \in [Messages -> 0..MaxThrottles]
      /\ fate \in [Messages -> Fates]
  BY DEF TypeOK
\* What leaves the worker and the counters alone and gives nothing up.
<1>1. ASSUME UNCHANGED <<failures, throttles>>,
             \A m \in Messages : fate'[m] = "gave_up" => fate[m] = "gave_up",
             \/ worker'.pc = worker.pc /\ worker'.message = worker.message
                  /\ worker'.attempt = worker.attempt
             \/ worker'.pc \in {"idle", "stopped"}
             \/ worker'.pc = "spacing" /\ worker'.attempt = 0
      PROVE  SpentInv'
  BY <1>1 DEF SpentInv, AttemptsSpent, Spent, At, Message
<1>2. ASSUME NEW m \in Messages, Put(m) \/ PutCancelled(m) PROVE SpentInv'
  <2>1. \A n \in Messages : fate'[n] = "gave_up" => fate[n] = "gave_up"
    BY <1>0, <1>2 DEF Put, PutCancelled
  <2> QED BY <1>1, <1>2, <2>1 DEF Put, PutCancelled
<1>3. CASE Get
  <2>1. \A n \in Messages : fate'[n] = "gave_up" => fate[n] = "gave_up"
    BY <1>0, <1>3 DEF Get
  <2>2. worker'.pc = "spacing" /\ worker'.attempt = 0
    BY <1>3 DEF Get
  <2> QED BY <1>1, <1>3, <2>1, <2>2 DEF Get
<1>4. CASE Spaced \/ Call
  <2>1. worker \in Sending /\ Message \in Messages
    BY <1>4, BusyWorker DEF Spaced, Call, At, Busy
  <2>2. UNCHANGED <<fate, failures, throttles>>
    BY <1>4 DEF Spaced, Call
  <2>3. worker'.message = worker.message
    BY <1>4, <2>1 DEF Spaced, Call, Sending
  <2>4. Spent(Message) \in Nat
    BY <1>0, <2>1 DEF Spent
  <2>5. CASE Spaced
    <3>1. worker'.pc = "capping" /\ worker'.attempt = worker.attempt
      BY <2>1, <2>5 DEF Spaced, Sending
    <3> QED BY <2>2, <2>3, <2>5, <3>1 DEF Spaced, SpentInv, AttemptsSpent, Spent, At, Message
  <2>6. CASE Call
    <3>1. worker'.pc = "calling" /\ worker'.attempt = Least(worker.attempt + 1, MaxAttempts + 1)
      BY <2>1, <2>6 DEF Call, Sending
    <3>2. worker.attempt <= Spent(Message) /\ worker.attempt \in Nat
      BY <2>1, <2>4, <2>6 DEF Call, SpentInv, Sending
    <3>3. worker'.attempt \in 1..(Spent(Message) + 1)
      BY <2>4, <3>1, <3>2 DEF Least
    <3> QED BY <2>2, <2>3, <3>1, <3>3 DEF SpentInv, AttemptsSpent, Spent, At, Message
  <2> QED BY <1>4, <2>5, <2>6
<1>5. CASE Succeed \/ Reject
  <2>1. worker' = Resting /\ UNCHANGED <<failures, throttles>>
    BY <1>5 DEF Succeed, Reject, Done
  <2>2. \A n \in Messages : fate'[n] = "gave_up" => fate[n] = "gave_up"
    BY <1>0, <1>5 DEF Succeed, Reject, Done
  <2> QED BY <1>1, <2>1, <2>2 DEF Resting
<1>6. CASE Throttled
  <2>1. worker \in Sending /\ Message \in Messages
    BY <1>6, BusyWorker DEF Throttled, At, Busy
  <2>2. worker'.pc = "backoff" /\ worker'.message = worker.message /\ worker'.attempt = worker.attempt
    BY <1>6, <2>1 DEF Throttled, BackOff, Sending
  <2>3. UNCHANGED <<fate, failures>> /\ throttles' = [throttles EXCEPT ![Message] = @ + 1]
    BY <1>6 DEF Throttled
  <2>4. \A n \in Messages : throttles'[n] >= throttles[n]
    BY <1>0, <2>3
  <2>5. Spent(Message) \in Nat /\ failures[Message] + throttles'[Message] = Spent(Message) + 1
    BY <1>0, <2>1, <2>3 DEF Spent
  <2>6. worker.attempt <= Spent(Message) + 1 /\ worker.attempt \in Nat
    BY <1>6, <2>1, <2>5 DEF Throttled, SpentInv, Sending
  <2>7. AttemptsSpent'
    BY <1>0, <2>3, <2>4 DEF SpentInv, AttemptsSpent
  <2> QED BY <2>2, <2>3, <2>5, <2>6, <2>7 DEF SpentInv, Spent, At, Message
<1>7. CASE Fail
  <2>1. worker \in Sending /\ Message \in Messages
    BY <1>7, BusyWorker DEF Fail, At, Busy
  <2>2. UNCHANGED throttles
        /\ failures' = [failures EXCEPT ![Message] = Least(@ + 1, MaxAttempts + 1)]
    BY <1>7 DEF Fail
  <2>3. /\ \A n \in Messages : failures'[n] >= failures[n]
        /\ failures'[Message] \in 1..(MaxAttempts + 1)
        /\ \/ failures'[Message] = failures[Message] + 1
           \/ failures'[Message] = MaxAttempts + 1
    BY <1>0, <2>1, <2>2 DEF Least
  <2>4. /\ worker.attempt \in 0..(MaxAttempts + 1)
        /\ worker.attempt <= failures[Message] + throttles[Message] + 1
        /\ throttles[Message] \in Nat /\ failures[Message] \in Nat
    BY <1>0, <1>7, <2>1 DEF Fail, SpentInv, Spent, Sending
  <2>5. failures'[Message] + throttles[Message] >= worker.attempt
    BY <2>3, <2>4
  <2>6. CASE Exhausted /\ Done(Message, "gave_up")
    <3>1. AttemptsSpent'
      <4> SUFFICES ASSUME NEW n \in Messages, fate'[n] = "gave_up"
                   PROVE  failures'[n] > 0 /\ failures'[n] + throttles[n] > MaxAttempts
        BY <2>2 DEF AttemptsSpent
      <4>1. CASE n = Message
        BY <2>3, <2>4, <2>5, <2>6, <4>1 DEF Exhausted
      <4>2. CASE n # Message
        <5>1. fate[n] = "gave_up"
          BY <1>0, <2>6, <4>2 DEF Done
        <5> QED BY <1>0, <2>2, <4>2, <5>1 DEF SpentInv, AttemptsSpent
      <4> QED BY <4>1, <4>2
    <3> QED BY <2>6, <3>1 DEF Done, Resting, SpentInv, At
  <2>7. CASE BackOff(Backoffs[worker.attempt]) /\ UNCHANGED fate
    <3>1. worker'.pc = "backoff" /\ worker'.message = worker.message
          /\ worker'.attempt = worker.attempt
      BY <2>1, <2>7 DEF BackOff, Sending
    <3>2. AttemptsSpent'
      <4> SUFFICES ASSUME NEW n \in Messages, fate[n] = "gave_up"
                   PROVE  failures'[n] > 0 /\ failures'[n] + throttles[n] > MaxAttempts
        BY <2>2, <2>7 DEF AttemptsSpent
      <4>1. failures[n] > 0 /\ failures[n] + throttles[n] > MaxAttempts
        BY DEF SpentInv, AttemptsSpent
      <4>2. failures'[n] >= failures[n] /\ failures[n] \in Nat /\ throttles[n] \in Nat
            /\ failures'[n] \in Nat
        BY <1>0, <2>2, <2>3
      <4> QED BY <4>1, <4>2
    <3> QED BY <2>2, <2>5, <3>1, <3>2 DEF SpentInv, Spent, At, Message
  <2> QED BY <1>7, <2>6, <2>7 DEF Fail
<1>8. CASE Stop
  <2>1. worker'.pc = "stopped" /\ UNCHANGED <<failures, throttles>>
    BY <1>8 DEF Stop, Stopped, Resting
  <2>2. \A n \in Messages : fate'[n] = "gave_up" => fate[n] = "gave_up"
    BY <1>0, <1>8 DEF Stop
  <2> QED BY <1>1, <2>1, <2>2
<1>9. CASE Tick
  <2>1. worker'.pc = worker.pc /\ worker'.message = worker.message /\ worker'.attempt = worker.attempt
    <3>1. CASE worker \in Sending
      BY <1>9, <3>1 DEF Tick, Sending
    <3>2. CASE worker \in {Resting, Stopped}
      BY <1>9, <3>2 DEF Tick, Awake, Resting, Stopped
    <3> QED BY <3>1, <3>2 DEF TypeOK
  <2> QED BY <1>1, <1>9, <2>1 DEF Tick
<1>10. CASE UNCHANGED vars
  BY <1>1, <1>10 DEF vars
<1> QED BY <1>2, <1>3, <1>4, <1>5, <1>6, <1>7, <1>8, <1>9, <1>10 DEF Next, Send

LEMMA InitSound == Init => TypeOK /\ SpentInv
<1> SUFFICES ASSUME Init PROVE TypeOK /\ SpentInv
  OBVIOUS
<1>1. TypeOK
  BY Numbers DEF Init, TypeOK, Fates
<1>2. SpentInv
  BY DEF Init, SpentInv, AttemptsSpent, At, Resting
<1> QED BY <1>1, <1>2

(* The type invariant; it needs the attempts to be counted from one for the backoff  *)
(* to be defined.                                                                   *)
THEOREM TypeCorrect == Spec => []TypeOK
BY InitSound, TypeStep, SpentStep, PTL DEF Spec

(* A message is given up only after max_attempts + 1 calls that failed.             *)
THEOREM GivenUpLate == Spec => []AttemptsSpent
<1>1. SpentInv => AttemptsSpent
  BY DEF SpentInv
<1> QED BY <1>1, InitSound, TypeStep, SpentStep, PTL DEF Spec
---------------------------------------------------------------------------------
(* SentSpaced                                                                      *)

LEMMA SpacedStep == TypeOK /\ SpacedInv /\ [Next]_vars => SpacedInv'
<1> SUFFICES ASSUME TypeOK, SpacedInv, [Next]_vars PROVE SpacedInv'
  OBVIOUS
<1> USE Numbers
<1>0. /\ chatAge \in [Chats -> 0..ChatGap] /\ quiet \in [Chats -> 0..ChatGap]
      /\ globalAge \in 0..GlobalGap /\ worker \in Sending \cup {Resting, Stopped}
  BY DEF TypeOK
<1>1. ASSUME UNCHANGED <<chatAge, globalAge, quiet>>,
             worker' = worker \/ worker'.pc \in {"idle", "stopped"}
      PROVE  SpacedInv'
  BY <1>1 DEF SpacedInv, At, Chat, Message
<1>2. ASSUME NEW m \in Messages, Put(m) \/ PutCancelled(m) PROVE SpacedInv'
  BY <1>1, <1>2 DEF Put, PutCancelled
<1>3. CASE Get
  <2> DEFINE m == Head(queue)
  <2>1. UNCHANGED <<chatAge, globalAge, quiet>>
    BY <1>3 DEF Get
  <2>2. worker' = [pc |-> "spacing", message |-> m, sleep |-> ChatGap - chatAge[ChatOf[m]],
                   attempt |-> 0, cap |-> GlobalGap - globalAge]
    BY <1>3 DEF Get, Pause
  <2> HIDE DEF m
  <2>3. m \in Messages
    BY <1>3 DEF Get, TypeOK, m
  <2>4. ChatOf[m] \in Chats
    BY <2>3, SendQueueAssumption
  <2> QED BY <1>0, <2>1, <2>2, <2>4 DEF SpacedInv, At, Chat, Message
<1>4. CASE Spaced \/ Call
  <2>1. worker \in Sending /\ Chat \in Chats
    BY <1>4, BusyWorker DEF Spaced, Call, At, Busy
  <2>2. UNCHANGED <<chatAge, globalAge, quiet>>
    BY <1>4 DEF Spaced, Call
  <2>3. CASE Spaced
    <3>1. worker'.pc = "capping" /\ worker'.message = worker.message /\ worker'.sleep = worker.cap
      BY <2>1, <2>3 DEF Spaced, Sending
    <3>2. chatAge[Chat] = ChatGap /\ worker.cap >= GlobalGap - globalAge
      BY <1>0, <2>1, <2>3 DEF Spaced, Awake, SpacedInv
    <3> QED BY <2>2, <3>1, <3>2 DEF SpacedInv, At, Chat, Message
  <2>4. CASE Call
    <3>1. worker'.pc = "calling" /\ worker'.message = worker.message
      BY <2>1, <2>4 DEF Call, Sending
    <3>2. chatAge[Chat] = ChatGap /\ globalAge = GlobalGap
      BY <1>0, <2>1, <2>4 DEF Call, Awake, SpacedInv, At
    <3> QED BY <2>2, <3>1, <3>2 DEF SpacedInv, At, Chat, Message
  <2> QED BY <1>4, <2>3, <2>4
<1>5. CASE Succeed
  <2>1. Chat \in Chats
    BY <1>5, BusyWorker DEF Succeed, At, Busy
  <2>2. globalAge' = 0 /\ worker' = Resting
        /\ chatAge' = [chatAge EXCEPT ![Chat] = 0] /\ quiet' = [quiet EXCEPT ![Chat] = 0]
    BY <1>5 DEF Succeed, Done
  <2>3. quiet' = chatAge' /\ \A c \in Chats : quiet'[c] >= 0
    BY <1>0, <2>1, <2>2 DEF SpacedInv
  <2> QED BY <2>2, <2>3 DEF SpacedInv, At, Resting
<1>6. CASE Throttled \/ Fail \/ Reject
  <2>1. worker \in Sending
    BY <1>6, BusyWorker DEF Throttled, Fail, Reject, At, Busy
  <2>2. UNCHANGED <<chatAge, globalAge, quiet>>
    BY <1>6 DEF Throttled, Fail, Reject
  <2>3. \/ worker' = Resting
        \/ worker'.pc = "backoff" /\ worker'.message = worker.message
    BY <1>6, <2>1 DEF Throttled, Fail, Reject, Done, BackOff, Sending
  <2>4. At("calling")
    BY <1>6 DEF Throttled, Fail, Reject
  <2> QED BY <1>1, <2>2, <2>3, <2>4 DEF SpacedInv, At, Chat, Message, Resting
<1>7. CASE Stop
  BY <1>1, <1>7 DEF Stop, Stopped, Resting
<1>8. CASE Tick
  <2>1. /\ \A c \in Chats : chatAge'[c] = Least(chatAge[c] + 1, ChatGap)
        /\ \A c \in Chats : quiet'[c] = Least(quiet[c] + 1, ChatGap)
        /\ globalAge' = Least(globalAge + 1, GlobalGap)
    BY <1>8 DEF Tick
  <2>2. quiet' = chatAge' /\ \A c \in Chats : quiet'[c] >= globalAge'
    <3>1. quiet' = chatAge'
      BY <1>8 DEF Tick, SpacedInv
    <3> QED BY <1>0, <2>1, <3>1 DEF SpacedInv, Least
  <2>3. CASE Busy
    <3>1. worker \in Sending /\ Chat \in Chats
      BY <2>3, BusyWorker
    <3>2. /\ worker'.pc = worker.pc /\ worker'.message = worker.message
          /\ worker'.cap = worker.cap
          /\ worker'.sleep = IF worker.sleep = 0 THEN 0 ELSE worker.sleep - 1
      BY <1>8, <3>1 DEF Tick, Awake, Sending
    <3>3. worker.sleep \in Nat /\ worker.cap \in Nat
      BY <3>1 DEF Sending
    <3>4. /\ chatAge'[Chat] = Least(chatAge[Chat] + 1, ChatGap)
          /\ chatAge[Chat] \in 0..ChatGap
      BY <1>0, <2>1, <3>1
    <3>5. CASE At("spacing")
      <4>1. worker'.sleep >= ChatGap - chatAge'[Chat] /\ worker.cap >= GlobalGap - globalAge'
        BY <1>0, <2>1, <3>2, <3>3, <3>4, <3>5 DEF SpacedInv, Least
      <4> QED BY <2>2, <3>2, <3>5, <4>1 DEF SpacedInv, At, Chat, Message
    <3>6. CASE At("capping")
      <4>1. chatAge'[Chat] = ChatGap /\ worker'.sleep >= GlobalGap - globalAge'
        BY <1>0, <2>1, <3>2, <3>3, <3>4, <3>6 DEF SpacedInv, Least
      <4> QED BY <2>2, <3>2, <3>6, <4>1 DEF SpacedInv, At, Chat, Message
    <3>7. CASE At("calling") \/ At("backoff")
      <4>1. chatAge'[Chat] = ChatGap /\ globalAge' = GlobalGap
        BY <1>0, <2>1, <3>4, <3>7 DEF SpacedInv, Least
      <4> QED BY <2>2, <3>2, <3>7, <4>1 DEF SpacedInv, At, Chat, Message
    <3> QED BY <2>3, <3>5, <3>6, <3>7 DEF Busy, At
  <2>4. CASE ~Busy
    <3>1. worker \in {Resting, Stopped}
      BY <1>0, <2>4 DEF Busy, Sending
    <3>2. worker' = worker
      BY <1>8, <3>1 DEF Tick, Awake, Resting, Stopped
    <3> QED BY <2>2, <2>4, <3>2 DEF SpacedInv, Busy, At
  <2> QED BY <2>3, <2>4
<1>9. CASE UNCHANGED vars
  BY <1>1, <1>9 DEF vars
<1> QED BY <1>2, <1>3, <1>4, <1>5, <1>6, <1>7, <1>8, <1>9 DEF Next, Send

(* The caps of the sender hold for the messages that are sent: a second to a chat,   *)
(* a thirtieth of one to any.                                                       *)
THEOREM SpacingHolds == Spec => SentSpaced
<1> DEFINE SpacedOut == \A m \in Messages : fate[m] = "sending" /\ fate'[m] = "sent" =>
                          quiet[ChatOf[m]] >= ChatGap /\ \A c \in Chats : quiet[c] >= GlobalGap
<1>1. Init => SpacedInv
  BY Numbers DEF Init, SpacedInv, At, Resting
<1>2. TypeOK /\ SpacedInv /\ [Next]_vars => [SpacedOut]_vars
  <2> SUFFICES ASSUME TypeOK, SpacedInv, Next, NEW m \in Messages,
                      fate[m] = "sending", fate'[m] = "sent"
               PROVE  quiet[ChatOf[m]] >= ChatGap /\ \A c \in Chats : quiet[c] >= GlobalGap
    OBVIOUS
  <2>1. fate \in [Messages -> Fates]
    BY DEF TypeOK
  <2>2. Succeed /\ Message = m
    BY <2>1 DEF Next, Send, Put, PutCancelled, Get, Spaced, Call, Succeed, Throttled, Fail,
                Reject, Stop, Tick, Done
  <2>3. Chat = ChatOf[m] /\ ChatOf[m] \in Chats
    BY <2>2, SendQueueAssumption DEF Chat
  <2>4. chatAge[Chat] = ChatGap /\ globalAge = GlobalGap
    BY <2>2 DEF Succeed, SpacedInv
  <2> QED BY <2>3, <2>4, Numbers DEF SpacedInv, TypeOK
<1> QED BY <1>1, <1>2, InitSound, TypeStep, SpentStep, SpacedStep, PTL DEF Spec, SentSpaced
---------------------------------------------------------------------------------
(* The worker and the queue are one line                                           *)

\* A message is in the queue as often as its fate says, which is once or never, and the
\* one at the worker is being sent.
Lined ==
    /\ \A i \in 1..Len(queue) : fate[queue[i]] = "queued"
    /\ \A i, j \in 1..Len(queue) : queue[i] = queue[j] => i = j
    /\ Message \in Messages => fate[Message] = "sending"

Outcome(f) == IF f = "sent" THEN "sent" ELSE IF f \in Final THEN "dropped" ELSE "none"

\* A line with one more in front: who is first, and who is left.
LEMMA InFront ==
    ASSUME NEW S, NEW s \in Seq(S), NEW x \in S
    PROVE  /\ <<x>> \o s \in Seq(S) /\ <<x>> \o s # << >>
           /\ Head(<<x>> \o s) = x /\ Tail(<<x>> \o s) = s
           /\ \A i \in 1..Len(<<x>> \o s) : (<<x>> \o s)[i] = IF i = 1 THEN x ELSE s[i - 1]
           /\ Len(<<x>> \o s) = Len(s) + 1
<1> DEFINE e == <<x>>  t == e \o s
<1>1. e \in Seq(S) /\ Len(e) = 1 /\ e[1] = x  OBVIOUS
<1> HIDE DEF e
<1>2. /\ t \in Seq(S) /\ Len(t) = Len(e) + Len(s)
      /\ \A i \in 1..Len(e) + Len(s) : t[i] = IF i <= Len(e) THEN e[i] ELSE s[i - Len(e)]
  BY <1>1, ConcatProperties
<1> HIDE DEF t
<1>3. Len(s) \in Nat  OBVIOUS
<1>4. Len(t) = Len(s) + 1 /\ \A i \in 1..Len(t) : t[i] = IF i = 1 THEN x ELSE s[i - 1]
  BY <1>1, <1>2, <1>3
<1>5. t # << >> /\ Head(t) = x
  BY <1>2, <1>3, <1>4
<1>6. Tail(t) = s
  <2> DEFINE r == Tail(t)
  <2>1. r \in Seq(S) /\ Len(r) = Len(t) - 1 /\ \A i \in 1..Len(r) : r[i] = t[i + 1]
    BY <1>2, <1>5, HeadTailProperties
  <2> HIDE DEF r
  <2>2. Len(r) = Len(s) /\ \A i \in 1..Len(r) : r[i] = s[i]
    BY <1>3, <1>4, <2>1
  <2>3. r = s  BY <2>1, <2>2, SeqEqual
  <2> QED BY <2>3 DEF r
<1>7. t \in Seq(S)  BY <1>2
<1> QED BY <1>4, <1>5, <1>6, <1>7 DEF t, e

\* Taking the head of a queue to the front changes nothing.
LEMMA HeadInFront ==
    ASSUME NEW S, NEW s \in Seq(S), s # << >>
    PROVE  <<Head(s)>> \o Tail(s) = s
<1> DEFINE x == Head(s)  r == Tail(s)  t == <<x>> \o r
<1>1. /\ x \in S /\ r \in Seq(S) /\ Len(r) = Len(s) - 1 /\ x = s[1]
      /\ \A i \in 1..Len(r) : r[i] = s[i + 1]
  BY HeadTailProperties
<1>2. Len(s) \in Nat /\ Len(s) # 0  OBVIOUS
<1> HIDE DEF x, r
<1>3. /\ t \in Seq(S) /\ Len(t) = Len(r) + 1
      /\ \A i \in 1..Len(t) : t[i] = IF i = 1 THEN x ELSE r[i - 1]
  BY <1>1, InFront
<1> HIDE DEF t
<1>4. Len(t) = Len(s) /\ \A i \in 1..Len(t) : t[i] = s[i]  BY <1>1, <1>2, <1>3
<1>5. t = s  BY <1>3, <1>4, SeqEqual
<1> QED BY <1>5 DEF t, r, x

\* Who joins the queue is behind whoever is before it.
LEMMA JoinsBehind ==
    ASSUME NEW S, NEW s \in Seq(S), NEW t \in Seq(S), NEW x \in S
    PROVE  s \o Append(t, x) = Append(s \o t, x)
<1> DEFINE p == Append(t, x)  a == s \o t  b == s \o p  c == Append(a, x)
<1>1. p \in Seq(S) /\ Len(p) = Len(t) + 1 /\ p[Len(t) + 1] = x
      /\ \A i \in 1..Len(t) : p[i] = t[i]
  BY AppendProperties
<1>2. /\ a \in Seq(S) /\ Len(a) = Len(s) + Len(t)
      /\ \A i \in 1..Len(s) + Len(t) : a[i] = IF i <= Len(s) THEN s[i] ELSE t[i - Len(s)]
  BY ConcatProperties
<1>3. Len(s) \in Nat /\ Len(t) \in Nat  OBVIOUS
<1> HIDE DEF p, a
<1>4. /\ b \in Seq(S) /\ Len(b) = Len(s) + Len(p)
      /\ \A i \in 1..Len(s) + Len(p) : b[i] = IF i <= Len(s) THEN s[i] ELSE p[i - Len(s)]
  BY <1>1, ConcatProperties
<1>5. /\ c \in Seq(S) /\ Len(c) = Len(a) + 1 /\ c[Len(a) + 1] = x
      /\ \A i \in 1..Len(a) : c[i] = a[i]
  BY <1>2, AppendProperties
<1> HIDE DEF b, c
<1>6. ASSUME NEW i \in 1..Len(b) PROVE b[i] = c[i]
  <2>1. CASE i <= Len(s)
    <3>1. i \in 1..Len(s) + Len(t) /\ i \in 1..Len(a) /\ i \in 1..Len(s) + Len(p)
      BY <1>1, <1>2, <1>3, <2>1
    <3> QED BY <1>2, <1>4, <1>5, <2>1, <3>1
  <2>2. CASE i > Len(s) /\ i <= Len(s) + Len(t)
    <3>1. i - Len(s) \in 1..Len(t) /\ i \in 1..Len(a) /\ i \in 1..Len(s) + Len(p) /\ ~(i <= Len(s))
      BY <1>1, <1>2, <1>3, <2>2
    <3> QED BY <1>1, <1>2, <1>4, <1>5, <3>1
  <2>3. CASE i = Len(s) + Len(t) + 1
    <3>1. i - Len(s) = Len(t) + 1 /\ i \in 1..Len(s) + Len(p) /\ ~(i <= Len(s)) /\ i = Len(a) + 1
      BY <1>1, <1>2, <1>3, <2>3
    <3> QED BY <1>1, <1>4, <1>5, <3>1
  <2> QED BY <1>1, <1>3, <1>4, <2>1, <2>2, <2>3
<1>7. Len(b) = Len(c)  BY <1>1, <1>2, <1>3, <1>4, <1>5
<1>8. b = c  BY <1>4, <1>5, <1>6, <1>7, SeqEqual
<1> QED BY <1>8 DEF b, c, p, a

\* The line as the model has it.
LEMMA LineIs ==
    ASSUME TypeOK
    PROVE  /\ LineMap \in Seq(Messages) /\ LineMap = AtHand \o queue
           /\ AtHand \in Seq(Messages)
           /\ Message \notin Messages => LineMap = queue
           /\ Message \in Messages =>
                /\ LineMap = <<Message>> \o queue /\ LineMap # << >>
                /\ Head(LineMap) = Message /\ Tail(LineMap) = queue
<1>1. queue \in Seq(Messages)  BY DEF TypeOK
<1>2. CASE Message \in Messages
  <2>1. AtHand = <<Message>>  BY <1>2 DEF AtHand
  <2>2. AtHand \in Seq(Messages)  BY <1>2, <2>1
  <2> QED BY <1>1, <1>2, <2>1, <2>2, InFront DEF LineMap
<1>3. CASE Message \notin Messages
  <2>1. AtHand = << >> /\ << >> \o queue = queue  BY <1>1, <1>3, ConcatEmptySeq DEF AtHand
  <2> QED BY <1>1, <1>3, <2>1 DEF LineMap
<1> QED BY <1>2, <1>3

\* Who has not been put, or waits for room, is not in the line.
LEMMA NotInLine ==
    ASSUME TypeOK, Lined, NEW m \in Messages, fate[m] \in {"new", "putting"}
    PROVE  ~Line!InLine(m)
<1>1. \A i \in 1..Len(queue) : queue[i] # m  BY DEF Lined
<1>2. Len(queue) \in Nat /\ queue \in Seq(Messages)  BY DEF TypeOK
<1>3. Message \in Messages => Message # m  BY DEF Lined
<1>4. DOMAIN LineMap = 1..Len(LineMap)  BY LineIs
<1>5. CASE Message \in Messages
  <2> DEFINE t == <<Message>> \o queue
  <2>1. LineMap = t  BY <1>5, LineIs
  <2>2. Len(t) = Len(queue) + 1 /\ \A i \in 1..Len(t) : t[i] = IF i = 1 THEN Message ELSE queue[i - 1]
    BY <1>2, <1>5, InFront
  <2> HIDE DEF t
  <2>3. \A i \in 1..Len(t) : t[i] # m  BY <1>1, <1>2, <1>3, <1>5, <2>2
  <2> QED BY <1>4, <2>1, <2>3 DEF Line!InLine
<1>6. CASE Message \notin Messages
  <2>1. LineMap = queue  BY <1>6, LineIs
  <2> QED BY <1>1, <1>4, <2>1 DEF Line!InLine
<1> QED BY <1>5, <1>6

\* What neither moves a message nor settles one is no step of the line.
LEMMA LineStands ==
    ASSUME UNCHANGED <<fate, queue>>, worker'.message = worker.message
    PROVE  /\ Lined => Lined'
           /\ UNCHANGED <<LineMap, OutcomeMap>>
<1>1. Message' = Message  BY DEF Message
<1>2. AtHand' = AtHand  BY <1>1 DEF AtHand
<1> QED BY <1>1, <1>2 DEF Lined, LineMap, OutcomeMap

\* A fate that changes settles its message, or no message.
LEMMA OutcomeIs ==
    ASSUME TypeOK, NEW m \in Messages, NEW f \in Fates, fate' = [fate EXCEPT ![m] = f]
    PROVE  /\ OutcomeMap' = [OutcomeMap EXCEPT ![m] = Outcome(f)]
           /\ OutcomeMap[m] = Outcome(fate[m])
           /\ Outcome(f) = Outcome(fate[m]) => OutcomeMap' = OutcomeMap
<1>1. fate \in [Messages -> Fates]  BY DEF TypeOK
<1>2. \A n \in Messages : fate'[n] = IF n = m THEN f ELSE fate[n]  BY <1>1
<1>3. OutcomeMap = [n \in Messages |-> Outcome(fate[n])]
      /\ OutcomeMap' = [n \in Messages |-> Outcome(fate'[n])]
  BY DEF OutcomeMap, Outcome
<1> QED BY <1>2, <1>3

\* The first of the line leaves it.
LEMMA FirstLeaves ==
    ASSUME TypeOK, Lined, Message \in Messages, NEW f \in Final, NEW w \in {Resting, Stopped},
           fate' = [fate EXCEPT ![Message] = f], worker' = w, UNCHANGED queue
    PROVE  Lined' /\ Line!Leave(Outcome(f))
<1>1. Message' \notin Messages
  BY SendQueueAssumption DEF Message, Resting, Stopped
<1>2. f \in Fates /\ f # "queued"  BY DEF Fates, Final
<1>3. fate[Message] = "sending" /\ fate \in [Messages -> Fates]  BY DEF Lined, TypeOK
<1>4. \A i \in 1..Len(queue) : queue[i] # Message  BY <1>3 DEF Lined
<1>5. \A i \in 1..Len(queue) : fate'[queue[i]] = "queued"  BY <1>3, <1>4 DEF Lined, TypeOK
<1>6. Lined'  BY <1>1, <1>5 DEF Lined
<1>7. LineMap # << >> /\ Head(LineMap) = Message /\ Tail(LineMap) = queue  BY LineIs
<1>8. LineMap' = queue
  <2>1. AtHand' = << >>  BY <1>1 DEF AtHand
  <2>2. << >> \o queue = queue  BY ConcatEmptySeq DEF TypeOK
  <2> QED BY <2>1, <2>2 DEF LineMap
<1>9. OutcomeMap' = [OutcomeMap EXCEPT ![Message] = Outcome(f)]  BY <1>2, OutcomeIs
<1> QED BY <1>6, <1>7, <1>8, <1>9 DEF Line!Leave

LEMMA LineStep ==
    ASSUME TypeOK, Lined, [Next]_vars
    PROVE  Lined' /\ [Line!Next]_<<LineMap, OutcomeMap>>
<1> DEFINE Goal == Lined' /\ [Line!Next]_<<LineMap, OutcomeMap>>
<1> USE SendQueueAssumption
<1>0. fate \in [Messages -> Fates] /\ queue \in Seq(Messages) /\ Len(queue) \in Nat
      /\ worker \in Sending \cup {Resting, Stopped}
  BY DEF TypeOK
<1>a. /\ {"queued", "putting", "cancelled", "sending", "sent", "gave_up", "rejected", "stopped"}
            \subseteq Fates
      /\ {"sent", "gave_up", "rejected", "stopped", "cancelled"} \subseteq Final
      /\ "new" \notin Final /\ "putting" \notin Final /\ "queued" \notin Final
      /\ "sending" \notin Final
  BY DEF Fates, Final
<1>b. /\ Outcome("sent") = "sent" /\ Outcome("cancelled") = "dropped"
      /\ \A f \in {"gave_up", "rejected", "stopped"} : Outcome(f) = "dropped"
      /\ \A f \in {"new", "putting", "queued", "sending"} : Outcome(f) = "none"
  BY <1>a DEF Outcome
<1>1. ASSUME NEW m \in Messages, Put(m) PROVE Goal
  <2>1. fate[m] \in {"new", "putting"} /\ UNCHANGED worker  BY <1>1 DEF Put
  <2>2. ~Line!InLine(m)  BY <2>1, NotInLine
  <2>3. AtHand' = AtHand /\ Message' = Message  BY <2>1 DEF AtHand, Message
  <2>4. Message # m /\ \A i \in 1..Len(queue) : queue[i] # m  BY <2>1 DEF Lined
  <2>5. CASE Room /\ queue' = Append(queue, m) /\ fate' = [fate EXCEPT ![m] = "queued"]
    <3> DEFINE q == Append(queue, m)
    <3>1. /\ Len(q) = Len(queue) + 1 /\ q[Len(queue) + 1] = m
          /\ \A i \in 1..Len(queue) : q[i] = queue[i]
      BY <1>0, AppendProperties
    <3> HIDE DEF q
    <3>2. \A i \in 1..Len(q) : i \in 1..Len(queue) \/ i = Len(queue) + 1  BY <1>0, <3>1
    <3>3. \A i \in 1..Len(q) : fate'[q[i]] = "queued"
      <4>1. ASSUME NEW i \in 1..Len(queue) PROVE fate'[q[i]] = "queued"
        <5>1. q[i] = queue[i] /\ queue[i] # m /\ queue[i] \in Messages
          BY <1>0, <2>4, <3>1, ElementOfSeq
        <5>2. fate'[queue[i]] = fate[queue[i]]  BY <1>0, <2>5, <5>1
        <5>3. fate[queue[i]] = "queued"  BY DEF Lined
        <5> QED BY <5>1, <5>2, <5>3
      <4>2. fate'[q[Len(queue) + 1]] = "queued"  BY <1>0, <2>5, <3>1
      <4> QED BY <3>2, <4>1, <4>2
    <3>4. \A i, j \in 1..Len(q) : q[i] = q[j] => i = j
      BY <2>4, <3>1, <3>2 DEF Lined
    <3>5. Message \in Messages => fate'[Message] = "sending"
      BY <1>0, <2>4, <2>5 DEF Lined
    <3>6. Lined'  BY <2>3, <2>5, <3>3, <3>4, <3>5 DEF Lined, q
    <3>7. LineMap' = Append(LineMap, m)
      <4>1. AtHand \in Seq(Messages)  BY LineIs
      <4>2. AtHand \o Append(queue, m) = Append(AtHand \o queue, m)
        BY <1>0, <4>1, JoinsBehind
      <4> QED BY <2>3, <2>5, <4>2 DEF LineMap
    <3>8. OutcomeMap' = OutcomeMap /\ OutcomeMap[m] = "none"
      BY <1>a, <1>b, <2>1, <2>5, OutcomeIs
    <3>9. Line!Join(m)  BY <2>2, <3>7, <3>8 DEF Line!Join
    <3> QED BY <3>6, <3>9 DEF Line!Next
  <2>6. CASE fate' = [fate EXCEPT ![m] = "putting"] /\ UNCHANGED queue
    <3>1. Lined'  BY <1>0, <2>3, <2>4, <2>6 DEF Lined
    <3>2. OutcomeMap' = OutcomeMap  BY <1>a, <1>b, <2>1, <2>6, OutcomeIs
    <3>3. LineMap' = LineMap  BY <2>3, <2>6 DEF LineMap
    <3> QED BY <3>1, <3>2, <3>3
  <2> QED BY <1>1, <2>5, <2>6 DEF Put
<1>2. ASSUME NEW m \in Messages, PutCancelled(m) PROVE Goal
  <2>1. fate[m] = "putting" /\ fate' = [fate EXCEPT ![m] = "cancelled"]
        /\ UNCHANGED <<queue, worker>>
    BY <1>2 DEF PutCancelled
  <2>2. ~Line!InLine(m)  BY <2>1, NotInLine
  <2>3. AtHand' = AtHand /\ Message' = Message  BY <2>1 DEF AtHand, Message
  <2>4. Message # m /\ \A i \in 1..Len(queue) : queue[i] # m  BY <2>1 DEF Lined
  <2>5. Lined'  BY <1>0, <2>1, <2>3, <2>4 DEF Lined
  <2>6. OutcomeMap' = [OutcomeMap EXCEPT ![m] = "dropped"] /\ OutcomeMap[m] = "none"
    BY <1>a, <1>b, <2>1, OutcomeIs
  <2>7. LineMap' = LineMap  BY <2>1, <2>3 DEF LineMap
  <2>8. Line!Withdraw(m)  BY <2>2, <2>6, <2>7 DEF Line!Withdraw
  <2> QED BY <2>5, <2>8 DEF Line!Next
<1>3. CASE Get
  <2> DEFINE h == Head(queue)  r == Tail(queue)
  <2>1. /\ queue # << >> /\ queue' = r /\ worker'.message = h /\ At("idle")
        /\ fate' = [fate EXCEPT ![h] = "sending"]
    BY <1>3 DEF Get
  <2>2. /\ h \in Messages /\ r \in Seq(Messages) /\ Len(r) = Len(queue) - 1
        /\ \A i \in 1..Len(r) : r[i] = queue[i + 1]
    BY <1>0, <2>1, HeadTailProperties
  <2>3. h = queue[1] /\ 1 \in 1..Len(queue)  BY <1>0, <2>1
  <2>4. <<h>> \o r = queue  BY <1>0, <2>1, HeadInFront
  <2> HIDE DEF h, r
  <2>5. Message \notin Messages
    BY <1>0, <2>1 DEF At, Sending, Message, Resting, Stopped
  <2>6. LineMap = queue  BY <2>5, LineIs
  <2>7. Message' = h  BY <2>1 DEF Message
  <2>8. LineMap' = queue  BY <2>1, <2>2, <2>4, <2>7 DEF LineMap, AtHand
  <2>9. fate[h] = "queued"  BY <2>3 DEF Lined
  <2>10. OutcomeMap' = OutcomeMap  
    <3>1. "sending" \in Fates /\ Outcome("sending") = Outcome(fate[h])  BY <1>a, <1>b, <2>9
    <3>2. h \in Messages /\ fate' = [fate EXCEPT ![h] = "sending"]  BY <2>1, <2>2
    <3> QED BY <3>1, <3>2, OutcomeIs
  <2>11. \A i \in 1..Len(r) : i + 1 \in 1..Len(queue) /\ r[i] # h /\ fate[r[i]] = "queued"
    <3> SUFFICES ASSUME NEW i \in 1..Len(r)
                 PROVE  i + 1 \in 1..Len(queue) /\ r[i] # h /\ fate[r[i]] = "queued"
      OBVIOUS
    <3>1. i + 1 \in 1..Len(queue) /\ i + 1 # 1  BY <1>0, <2>2
    <3>2. r[i] = queue[i + 1]  BY <2>2
    <3>3. queue[i + 1] # queue[1]  BY <2>3, <3>1 DEF Lined
    <3>4. fate[queue[i + 1]] = "queued"  BY <3>1 DEF Lined
    <3> QED BY <2>3, <3>1, <3>2, <3>3, <3>4
  <2>12. \A i \in 1..Len(r) : fate'[r[i]] = "queued"
    BY <1>0, <2>1, <2>2, <2>11
  <2>13. \A i, j \in 1..Len(r) : r[i] = r[j] => i = j
    <3> SUFFICES ASSUME NEW i \in 1..Len(r), NEW j \in 1..Len(r), r[i] = r[j] PROVE i = j
      OBVIOUS
    <3>1. i + 1 \in 1..Len(queue) /\ j + 1 \in 1..Len(queue) /\ queue[i + 1] = queue[j + 1]
      BY <2>2, <2>11
    <3>2. i + 1 = j + 1  BY <3>1 DEF Lined
    <3> QED BY <3>2
  <2>14. fate'[h] = "sending"  BY <1>0, <2>1, <2>2
  <2>15. Lined'  BY <2>1, <2>7, <2>12, <2>13, <2>14 DEF Lined
  <2> QED BY <2>6, <2>8, <2>10, <2>15
<1>4. CASE Succeed \/ Reject \/ (Fail /\ Exhausted)
  <2>1. Message \in Messages
    BY <1>4, BusyWorker DEF Succeed, Reject, Fail, At, Busy
  <2>2. /\ UNCHANGED queue /\ worker' = Resting
        /\ \E f \in {"sent", "rejected", "gave_up"} : fate' = [fate EXCEPT ![Message] = f]
    BY <1>4 DEF Succeed, Reject, Fail, Done
  <2>3. PICK f \in {"sent", "rejected", "gave_up"} : fate' = [fate EXCEPT ![Message] = f]
    BY <2>2
  <2>4. f \in Final  BY <2>3 DEF Final
  <2>5. Lined' /\ Line!Leave(Outcome(f))
    BY <2>1, <2>2, <2>3, <2>4, FirstLeaves
  <2>6. Outcome(f) \in {"sent", "dropped"}  BY <1>b, <2>3
  <2> QED BY <2>5, <2>6 DEF Line!Next
<1>5. CASE Spaced \/ Call \/ Throttled \/ (Fail /\ ~Exhausted)
  <2>1. worker \in Sending
    BY <1>5, BusyWorker DEF Spaced, Call, Throttled, Fail, At, Busy
  <2>2. UNCHANGED <<fate, queue>>  BY <1>5 DEF Spaced, Call, Throttled, Fail
  <2>3. worker'.message = worker.message
    BY <1>5, <2>1 DEF Spaced, Call, Throttled, Fail, BackOff, Sending
  <2> QED BY <2>2, <2>3, LineStands
<1>6. CASE Stop
  <2>1. /\ UNCHANGED queue /\ worker' = Stopped
        /\ fate' = [m \in Messages |-> IF m = Message THEN "stopped" ELSE fate[m]]
    BY <1>6 DEF Stop
  <2>2. CASE Message \in Messages
    <3>1. fate' = [fate EXCEPT ![Message] = "stopped"]  BY <1>0, <2>1
    <3>2. "stopped" \in Final /\ Stopped \in {Resting, Stopped}  BY <1>a
    <3>3. Lined' /\ Line!Leave(Outcome("stopped"))
      BY <2>1, <2>2, <3>1, <3>2, FirstLeaves
    <3> QED BY <1>b, <3>3 DEF Line!Next
  <2>3. CASE Message \notin Messages
    <3>1. fate' = fate  BY <1>0, <2>1, <2>3
    <3>2. Message' \notin Messages  BY <2>1 DEF Message, Resting, Stopped
    <3>3. AtHand' = AtHand  BY <2>3, <3>2 DEF AtHand
    <3>4. Lined'  BY <2>1, <3>1, <3>2 DEF Lined
    <3>5. LineMap' = LineMap  BY <2>1, <3>3 DEF LineMap
    <3>6. OutcomeMap' = OutcomeMap  BY <3>1 DEF OutcomeMap
    <3> QED BY <3>4, <3>5, <3>6
  <2> QED BY <2>2, <2>3
<1>7. CASE Tick
  <2>1. worker'.message = worker.message
    <3>1. CASE worker \in Sending
      BY <1>7, <3>1 DEF Tick, Sending
    <3>2. CASE worker \in {Resting, Stopped}
      BY <1>7, <3>2 DEF Tick, Awake, Resting, Stopped
    <3> QED BY <1>0, <3>1, <3>2
  <2>2. UNCHANGED <<fate, queue>>  BY <1>7 DEF Tick
  <2> QED BY <2>1, <2>2, LineStands
<1>8. CASE UNCHANGED vars
  <2>1. UNCHANGED <<fate, queue>> /\ worker'.message = worker.message  BY <1>8 DEF vars
  <2> QED BY <2>1, LineStands
<1> QED BY <1>1, <1>2, <1>3, <1>4, <1>5, <1>6, <1>7, <1>8 DEF Next, Send

\* The queue keeps the order in which messages were put, through retries, a full queue and
\* a stop: it implements MessageLine.
THEOREM OrderIsKept == Spec => LineSpec
<1>1. Init => Lined /\ Line!Init
  <2> SUFFICES ASSUME Init PROVE Lined /\ Line!Init  OBVIOUS
  <2>1. queue = << >> /\ Len(queue) = 0 /\ Message \notin Messages
    BY SendQueueAssumption DEF Init, Message, Resting
  <2>2. AtHand = << >> /\ << >> \o << >> = << >>  BY <2>1, ConcatEmptySeq DEF AtHand
  <2>3. LineMap = << >>  BY <2>1, <2>2 DEF LineMap
  <2>4. OutcomeMap = [m \in Messages |-> "none"]  BY DEF Init, OutcomeMap, Final
  <2> QED BY <2>1, <2>3, <2>4 DEF Lined, Line!Init
<1>2. TypeOK /\ Lined /\ [Next]_vars => Lined' /\ [Line!Next]_<<LineMap, OutcomeMap>>
  BY LineStep
<1> QED BY <1>1, <1>2, TypeCorrect, PTL DEF Spec, LineSpec, Line!Spec
=================================================================================
