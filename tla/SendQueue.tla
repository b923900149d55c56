-------------------------------- MODULE SendQueue --------------------------------
(* The outgoing messages (app/services/send_queue.py): handlers put them on a      *)
(* bounded queue, one worker spaces them, calls the Bot API and retries.           *)
(*                                                                                 *)
(* Time is kept as ages that grow up to the gap they are compared with, and as the *)
(* rest of the worker's sleep, so that the clock itself needs no bound.            *)
EXTENDS Integers, Sequences

CONSTANTS
    Messages,
    Chats,
    ChatOf,         \* the chat of each message
    NoMessage,      \* the worker has none
    QueueSize,      \* maxsize of the queue
    ChatGap,        \* 1 s
    GlobalGap,      \* 1/30 s
    MaxAttempts,    \* max_attempts
    Backoffs,       \* the sleeps after a network error at each attempt (Backoff)
    ThrottleSleeps, \* those after a 429 (Backoff)
    MaxThrottles    \* bound: 429 answers to one message

ASSUME SendQueueAssumption ==
    /\ NoMessage \notin Messages
    /\ ChatOf \in [Messages -> Chats]
    /\ {QueueSize, ChatGap, GlobalGap} \subseteq Nat \ {0}
    /\ GlobalGap <= ChatGap
    /\ {MaxAttempts, MaxThrottles} \subseteq Nat
    /\ Backoffs \in [1..(MaxAttempts + 1) -> SUBSET Nat]
    /\ ThrottleSleeps \subseteq Nat

VARIABLES
    fate,           \* what has become of each message
    queue,          \* _q
    worker,         \* the message in _send(), where it is, how long it still sleeps, its
                    \* attempt, and the pause for the global cap as computed at its start
    chatAge,        \* how long _last_by_chat is ago, up to ChatGap
    globalAge,      \* how long _last_global is ago, up to GlobalGap
    failures,       \* history: TimedOut and NetworkError answers to each message
    throttles,      \* history: RetryAfter answers to each message
    quiet           \* history: how long ago a message of each chat was last sent

vars == <<fate, queue, worker, chatAge, globalAge, failures, throttles, quiet>>

Resting == [pc |-> "idle", message |-> NoMessage, sleep |-> 0, attempt |-> 0, cap |-> 0]
Stopped == [Resting EXCEPT !.pc = "stopped"]

Sending == [pc : {"spacing", "capping", "calling", "backoff"}, message : Messages,
            sleep : Nat, attempt : 0..(MaxAttempts + 1), cap : 0..GlobalGap]

Final == {"sent", "gave_up", "rejected", "cancelled", "stopped"}
Fates == {"new", "putting", "queued", "sending"} \cup Final

TypeOK ==
    /\ fate \in [Messages -> Fates]
    /\ queue \in Seq(Messages) /\ Len(queue) <= QueueSize
    /\ worker \in Sending \cup {Resting, Stopped}
    /\ chatAge \in [Chats -> 0..ChatGap]
    /\ globalAge \in 0..GlobalGap
    /\ failures \in [Messages -> 0..(MaxAttempts + 1)]
    /\ throttles \in [Messages -> 0..MaxThrottles]
    /\ quiet \in [Chats -> 0..ChatGap]

Init ==
    /\ fate = [m \in Messages |-> "new"]
    /\ queue = <<>>
    /\ worker = Resting
    /\ chatAge = [c \in Chats |-> ChatGap]
    /\ globalAge = GlobalGap
    /\ failures = [m \in Messages |-> 0]
    /\ throttles = [m \in Messages |-> 0]
    /\ quiet = [c \in Chats |-> ChatGap]

---------------------------------------------------------------------------------
(* send_text, edit_text                                                            *)

Room == Len(queue) < QueueSize

Put(m) ==
    /\ fate[m] \in {"new", "putting"}
    /\ \/ /\ Room
          /\ queue' = Append(queue, m)
          /\ fate' = [fate EXCEPT ![m] = "queued"]
       \/ /\ ~Room /\ fate[m] = "new"
          /\ fate' = [fate EXCEPT ![m] = "putting"]
          /\ UNCHANGED queue
    /\ UNCHANGED <<worker, chatAge, globalAge, failures, throttles, quiet>>

\* The handler that waits for room is cancelled by its timeout.
PutCancelled(m) ==
    /\ fate[m] = "putting"
    /\ fate' = [fate EXCEPT ![m] = "cancelled"]
    /\ UNCHANGED <<queue, worker, chatAge, globalAge, failures, throttles, quiet>>

---------------------------------------------------------------------------------
(* _worker, _send                                                                  *)

Least(a, b) == IF a < b THEN a ELSE b

Message == worker.message
At(pc) == worker.pc = pc
Awake == worker.sleep = 0
Chat == ChatOf[Message]

Pause(gap, age) == gap - age

\* Both pauses are computed from the time at which _send() starts.
Get ==
    /\ At("idle")
    /\ queue # <<>>
    /\ worker' = [pc |-> "spacing", message |-> Head(queue),
                  sleep |-> Pause(ChatGap, chatAge[ChatOf[Head(queue)]]), attempt |-> 0,
                  cap |-> Pause(GlobalGap, globalAge)]
    /\ queue' = Tail(queue)
    /\ fate' = [fate EXCEPT ![Head(queue)] = "sending"]
    /\ UNCHANGED <<chatAge, globalAge, failures, throttles, quiet>>

\* Mutant: the cap is not slept for.
SpacedOnly ==
    /\ At("spacing") /\ Awake
    /\ worker' = [worker EXCEPT !.pc = "capping"]
    /\ UNCHANGED <<fate, queue, chatAge, globalAge, failures, throttles, quiet>>

Spaced ==
    /\ At("spacing") /\ Awake
    /\ worker' = [worker EXCEPT !.pc = "capping", !.sleep = worker.cap]
    /\ UNCHANGED <<fate, queue, chatAge, globalAge, failures, throttles, quiet>>

\* The first call, or the next one.  Attempts are told apart up to the one that gives up.
Call ==
    /\ At("capping") \/ At("backoff")
    /\ Awake
    /\ worker' = [worker EXCEPT !.pc = "calling", !.attempt = Least(@ + 1, MaxAttempts + 1)]
    /\ UNCHANGED <<fate, queue, chatAge, globalAge, failures, throttles, quiet>>

Done(m, as) == fate' = [fate EXCEPT ![m] = as] /\ worker' = Resting

\* The trackers move now, and not when the call was made.
Succeed ==
    /\ At("calling")
    /\ chatAge' = [chatAge EXCEPT ![Chat] = 0]
    /\ globalAge' = 0
    /\ quiet' = [quiet EXCEPT ![Chat] = 0]
    /\ Done(Message, "sent")
    /\ UNCHANGED <<queue, failures, throttles>>

BackOff(sleeps) ==
    \E d \in sleeps : worker' = [worker EXCEPT !.pc = "backoff", !.sleep = d]

\* RetryAfter: there is no limit to these.
Throttled ==
    /\ At("calling")
    /\ throttles[Message] < MaxThrottles
    /\ throttles' = [throttles EXCEPT ![Message] = @ + 1]
    /\ BackOff(ThrottleSleeps)
    /\ UNCHANGED <<fate, queue, chatAge, globalAge, failures, quiet>>

\* Mutant: no limit to the attempts.
ExhaustedNever == FALSE

Exhausted == worker.attempt > MaxAttempts

\* Mutant: the message goes back to the queue instead of keeping the worker.
FailRequeued ==
    /\ At("calling")
    /\ failures' = [failures EXCEPT ![Message] = Least(@ + 1, MaxAttempts + 1)]
    /\ \/ Exhausted /\ Done(Message, "gave_up") /\ UNCHANGED queue
       \/ ~Exhausted /\ Done(Message, "queued") /\ queue' = Append(queue, Message)
    /\ UNCHANGED <<chatAge, globalAge, throttles, quiet>>

\* TimedOut, NetworkError and its subclass BadRequest.
Fail ==
    /\ At("calling")
    /\ failures' = [failures EXCEPT ![Message] = Least(@ + 1, MaxAttempts + 1)]
    /\ \/ Exhausted /\ Done(Message, "gave_up")
       \/ ~Exhausted /\ BackOff(Backoffs[worker.attempt]) /\ UNCHANGED fate
    /\ UNCHANGED <<queue, chatAge, globalAge, throttles, quiet>>

\* Any other error of the call leaves _send() at once.
Reject ==
    /\ At("calling")
    /\ Done(Message, "rejected")
    /\ UNCHANGED <<queue, chatAge, globalAge, failures, throttles, quiet>>

\* stop(): the worker is cancelled wherever it awaits, and its message with it.
Stop ==
    /\ ~At("stopped")
    /\ worker' = Stopped
    /\ fate' = [m \in Messages |-> IF m = Message THEN "stopped" ELSE fate[m]]
    /\ UNCHANGED <<queue, chatAge, globalAge, failures, throttles, quiet>>

Tick ==
    /\ worker' = IF Awake THEN worker ELSE [worker EXCEPT !.sleep = @ - 1]
    /\ chatAge' = [c \in Chats |-> Least(chatAge[c] + 1, ChatGap)]
    /\ globalAge' = Least(globalAge + 1, GlobalGap)
    /\ quiet' = [c \in Chats |-> Least(quiet[c] + 1, ChatGap)]
    /\ UNCHANGED <<fate, queue, failures, throttles>>

Send == Get \/ Spaced \/ Call \/ Succeed \/ Throttled \/ Fail \/ Reject

Next ==
    \/ \E m \in Messages : Put(m) \/ PutCancelled(m)
    \/ Send \/ Stop \/ Tick

Spec == Init /\ [][Next]_vars

\* The loop runs the worker and wakes who waits for room; time goes on; each call
\* returns or raises, as the client's own timeouts see to.
FairSpec ==
    /\ Spec
    /\ WF_vars(Send)
    /\ WF_vars(Tick)
    /\ \A m \in Messages : SF_vars(fate[m] = "putting" /\ Put(m))

---------------------------------------------------------------------------------
(* Properties                                                                      *)

\* "~1 msg/s per chat_id cap (spacing)": two messages of a chat are sent a gap apart,
\* and any two messages the global gap, though both pauses are computed before the
\* first is slept and the trackers move only on success.
SentSpaced ==
    [][\A m \in Messages : fate[m] = "sending" /\ fate'[m] = "sent" =>
          quiet[ChatOf[m]] >= ChatGap /\ \A c \in Chats : quiet[c] >= GlobalGap]_vars

\* A message is given up for network errors only after a call more than max_attempts,
\* the throttled ones among them.
AttemptsSpent ==
    \A m \in Messages : fate[m] = "gave_up" =>
        failures[m] > 0 /\ failures[m] + throttles[m] > MaxAttempts

\* The worker and the queue are one line: messages are sent in the order in which they
\* were put, each once, although the first of them may fail, back off and be retried
\* while more are put, wait for room or are cancelled.
AtHand == IF Message \in Messages THEN <<Message>> ELSE << >>

LineMap == AtHand \o queue

OutcomeMap == [m \in Messages |->
    IF fate[m] = "sent" THEN "sent" ELSE IF fate[m] \in Final THEN "dropped" ELSE "none"]

Line == INSTANCE MessageLine WITH line <- LineMap, outcome <- OutcomeMap

LineSpec == Line!Spec

\* Every message that is put leaves the queue, whatever the errors, as long as Telegram
\* throttles it finitely often and nobody stops the queue.
EachLeaves == \A m \in Messages :
    fate[m] \in {"putting", "queued", "sending"} ~> fate[m] \in Final \/ At("stopped")
=================================================================================
