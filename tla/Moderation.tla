------------------------------- MODULE Moderation -------------------------------
(* The moderation of one member of one chat (app/services/moderation.py): the row  *)
(* user_state with the warnings, the time of the last one, the time of joining and *)
(* whether a captcha was solved; and everybody who rewrites that whole row.        *)
(*                                                                                 *)
(* A warning is counted in a thread, in which it is read, incremented and written; *)
(* a join and a solved captcha are written by the event loop meanwhile, which the  *)
(* thread does not wait for.  The background worker handles one update after the   *)
(* other and cancels a handler after WEBHOOK_HANDLE_TIMEOUT_S, 8 seconds, which    *)
(* leaves its thread behind; inline processing cancels nothing and overlaps.  A    *)
(* statement on the row may fail, and then nothing is written.                     *)
(*                                                                                 *)
(* The clock only tells hours: it does not tick while a statement is under way.    *)
(* The flood window and the captcha timer, 10 and 60 seconds, end at any time.     *)
EXTENDS Naturals

CONSTANTS
    Threads,        \* the threads of the pool
    WarnsLimit,     \* WARNS_LIMIT_24H
    FloodN,         \* flood_n
    Day,            \* 24 hours, in ticks
    MaxWarns,       \* bound: warnings in a row
    MaxTimers       \* bound: captcha timers that run at once

ASSUME ModerationAssumption ==
    /\ WarnsLimit \in Nat \ {0}
    /\ FloodN \in Nat
    /\ Day \in Nat \ {0}
    /\ {MaxWarns, MaxTimers} \subseteq Nat \ {0}

VARIABLES
    inline,         \* WEBHOOK_INLINE_PROCESS, or the background worker
    row,            \* the row of user_state, Blank if there is none
    thread,         \* the row each thread is about to write
    awaited,        \* the threads whose handler is still waiting
    loop,           \* what the event loop is writing, and how far it is
    armed,          \* the captcha timers running, each in the handler of a join
    burst,          \* the messages in the flood window
    banned, muted,  \* what Telegram was asked to do with the member
    sinceJoin,      \* history: time since the last join was written
    sinceWarn,      \* history: time since the last warning was written
    streak,         \* history: warnings with no more than a day between them
    solved,         \* history: did the member ever solve a captcha
    raced,          \* history: did a write fall between a read and a write of another
    cut             \* history: did the process die, the row or Telegram fail a timer since
                    \* the last one was armed

actors == <<thread, awaited, loop>>
facts == <<sinceJoin, sinceWarn, streak>>
vars == <<inline, row, actors, armed, burst, banned, muted, facts, solved, raced, cut>>

Old == Day + 1        \* more than 24 hours ago
Missing == Day + 2    \* no such entry in the JSON of last_msgs
Ages == 0..Missing

Row == [warns : 0..MaxWarns, updated : Ages, joined : Ages, captcha : BOOLEAN]
Blank == [warns |-> 0, updated |-> Missing, joined |-> Missing, captcha |-> FALSE]

Idle == [op |-> "none", step |-> "meta", row |-> Blank]

Resting(t) == thread[t] = Blank  \* every row a thread writes has a warning

TypeOK ==
    /\ inline \in BOOLEAN
    /\ row \in Row
    /\ thread \in [Threads -> Row]
    /\ awaited \subseteq Threads
    /\ loop \in [op : {"none", "join", "press"}, step : {"meta", "merged"}, row : Row]
    /\ armed \in 0..MaxTimers
    /\ burst \in 0..(FloodN + 1)
    /\ banned \in BOOLEAN /\ muted \in BOOLEAN
    /\ sinceJoin \in Ages /\ sinceWarn \in Ages
    /\ streak \in 0..MaxWarns
    /\ solved \in BOOLEAN /\ raced \in BOOLEAN /\ cut \in BOOLEAN

Init ==
    /\ inline \in BOOLEAN
    /\ row = Blank
    /\ thread = [t \in Threads |-> Blank]
    /\ awaited = {}
    /\ loop = Idle
    /\ armed = 0
    /\ burst = 0
    /\ banned = FALSE /\ muted = FALSE
    /\ sinceJoin = Missing /\ sinceWarn = Missing
    /\ streak = 0
    /\ solved = FALSE /\ raced = FALSE /\ cut = FALSE

---------------------------------------------------------------------------------
(* A warning: add_warn_and_maybe_ban in a thread                                   *)

Warned(r) ==
    [r EXCEPT !.warns = IF r.updated = Old THEN 1 ELSE @ + 1, !.updated = 0]

\* The handler calls to_thread and waits; the thread reads the row.
Warn(t) ==
    /\ Resting(t)
    /\ row.warns < MaxWarns
    /\ thread' = [thread EXCEPT ![t] = Warned(row)]
    /\ awaited' = awaited \cup {t}

\* Others that have read the row and not yet written it.
OthersAt(t) == loop # Idle \/ \E u \in Threads \ {t} : ~Resting(u)

\* upsert_user_state replaces the whole row by what the thread has computed.  The ban
\* is left to the handler, if it still waits, and may fail.
WarnWrites(t) ==
    /\ ~Resting(t)
    /\ row' = thread[t]
    /\ thread' = [thread EXCEPT ![t] = Blank]
    /\ awaited' = awaited \ {t}
    /\ streak' = IF sinceWarn = Old THEN 1 ELSE IF streak < MaxWarns THEN streak + 1 ELSE streak
    /\ sinceWarn' = 0
    /\ raced' = (raced \/ OthersAt(t))
    /\ \/ banned' = (banned \/ (t \in awaited /\ row'.warns >= WarnsLimit))
       \/ UNCHANGED banned
    /\ UNCHANGED <<inline, loop, armed, burst, muted, sinceJoin, solved, cut>>

\* The row cannot be read or written, which the handler only logs.
WarnFails(t) ==
    /\ ~Resting(t)
    /\ thread' = [thread EXCEPT ![t] = Blank]
    /\ awaited' = awaited \ {t}
    /\ UNCHANGED <<inline, row, loop, armed, burst, banned, muted, facts, solved, raced, cut>>

\* The worker's timeout: the handler is gone, its thread goes on.
HandlerTimesOut(t) ==
    /\ ~inline /\ t \in awaited
    /\ awaited' = awaited \ {t}
    /\ UNCHANGED <<inline, row, thread, loop, armed, burst, banned, muted, facts,
                   solved, raced, cut>>

---------------------------------------------------------------------------------
(* Messages: on_message                                                            *)

\* The loop is free for an update: the worker waits for the handler, which may wait for
\* its thread or for its captcha timer; inline does not.
LoopFree == loop = Idle /\ (inline \/ (awaited = {} /\ armed = 0))

MayWrite == ~banned /\ ~muted

\* Profanity, or a file that is too large.
BadMessage(t) ==
    /\ LoopFree /\ MayWrite
    /\ Warn(t)
    /\ UNCHANGED <<inline, row, loop, armed, burst, banned, muted, facts, solved, raced, cut>>

\* Mutant: who has no time of joining is no newcomer.
NewcomerKnown == row.joined < Day

Newcomer == row.joined < Day \/ row.joined = Missing

\* By the domains of a link: one that the chat allows, one of the deny list, or another.
Links == {"allowed", "denied", "other"}

\* _should_block_link: an allowed link passes, whoever sends it, a denied one never, and
\* any other a day after the join, if that is on record.
ShouldBlock(link) == link = "denied" \/ (link = "other" /\ Newcomer)

Linked(t, link) ==
    /\ LoopFree /\ MayWrite /\ ShouldBlock(link)
    /\ Warn(t)
    /\ UNCHANGED <<inline, row, loop, armed, burst, banned, muted, facts, solved, raced, cut>>

\* Only a message that got so far counts for the flood window; one over flood_n warns,
\* and so may another that says the same as those of the last minute.
Counted == burst' = IF burst <= FloodN THEN burst + 1 ELSE burst

Message(t) ==
    /\ LoopFree /\ MayWrite
    /\ Counted
    /\ \/ Warn(t)
       \/ burst' <= FloodN /\ UNCHANGED <<thread, awaited>>
    /\ UNCHANGED <<inline, row, loop, armed, banned, muted, facts, solved, raced, cut>>

LinkPasses(link) ==
    /\ LoopFree /\ MayWrite /\ ~ShouldBlock(link)
    /\ burst < FloodN
    /\ Counted
    /\ UNCHANGED <<inline, row, actors, armed, banned, muted, facts, solved, raced, cut>>

---------------------------------------------------------------------------------
(* Joins and captchas: on_chat_member_update, on_callback                          *)

\* Mutant: the row is replaced by one that only has what the loop writes.
MetaOfNew(op) ==
    IF op = "join" THEN [Blank EXCEPT !.joined = 0] ELSE [Blank EXCEPT !.captcha = TRUE]

\* The loop reads last_msgs and adds its entry.
Meta(op) ==
    IF op = "join" THEN [row EXCEPT !.joined = 0] ELSE [row EXCEPT !.captcha = TRUE]

\* Any change of the membership counts as a join, be it a ban, and any member may press
\* the button of another's captcha; a press that is refused (TokenBucket, verify) changes
\* nothing.
Begin(op) ==
    /\ LoopFree
    /\ op = "join" => armed < MaxTimers
    /\ loop' = [op |-> op, step |-> "meta", row |-> Meta(op)]
    /\ UNCHANGED <<inline, row, thread, awaited, armed, burst, banned, muted, facts,
                   solved, raced, cut>>

\* upsert_user_state reads the row again and keeps the warnings of that.
Merge ==
    /\ loop.op # "none" /\ loop.step = "meta"
    /\ loop' = [loop EXCEPT !.step = "merged", !.row.warns = row.warns]
    /\ UNCHANGED <<inline, row, thread, awaited, armed, burst, banned, muted, facts,
                   solved, raced, cut>>

\* The row cannot be read or written: the handler ends.
LoopFails ==
    /\ loop.op # "none" /\ loop' = Idle
    /\ UNCHANGED <<inline, row, thread, awaited, armed, burst, banned, muted, facts,
                   solved, raced, cut>>

\* After a join the handler sleeps until the captcha is due.
LoopWrites ==
    /\ loop.op # "none" /\ loop.step = "merged"
    /\ row' = loop.row
    /\ loop' = Idle
    /\ raced' = (raced \/ \E t \in Threads : ~Resting(t))
    /\ solved' = (solved \/ loop.op = "press")
    /\ IF loop.op = "join"
       THEN sinceJoin' = 0 /\ armed' = armed + 1 /\ cut' = FALSE
       ELSE UNCHANGED <<sinceJoin, armed, cut>>
    /\ UNCHANGED <<inline, thread, awaited, burst, banned, muted, sinceWarn, streak>>

\* The worker's timeout ends the sleep, and the timer with it.
SleeperTimesOut ==
    /\ ~inline /\ armed > 0
    /\ armed' = 0
    /\ UNCHANGED <<inline, row, actors, burst, banned, muted, facts, solved, raced, cut>>

\* Mutants: the captcha timer does not look whether it was solved; it wants the entry
\* of a join within the day, which a ban of a day outlives.
UnsolvedAny == TRUE
UnsolvedToday == ~row.captcha /\ row.joined = 0

Unsolved == ~row.captcha

\* _schedule_captcha_timeout: the flag may be of an earlier join.  That the row cannot be
\* read, or Telegram refuses to mute, is no more than logged.  In the worker it comes to
\* this only if an administrator has set captcha_ttl_s below the timeout.
CaptchaDue ==
    /\ armed > 0 /\ loop = Idle
    /\ armed' = armed - 1
    /\ \/ muted' = (muted \/ Unsolved) /\ UNCHANGED cut
       \/ cut' = TRUE /\ UNCHANGED muted
    /\ UNCHANGED <<inline, row, actors, burst, banned, facts, solved, raced>>

---------------------------------------------------------------------------------
(* The rest of the world                                                           *)

\* The ban or the mute is over, or an administrator lifts it.
Pardon ==
    /\ banned \/ muted
    /\ banned' = FALSE /\ muted' = FALSE
    /\ UNCHANGED <<inline, row, actors, armed, burst, facts, solved, raced, cut>>

Older(age) == IF age < Old THEN age + 1 ELSE age

Tick ==
    /\ loop = Idle /\ \A t \in Threads : Resting(t)
    /\ row' = [row EXCEPT !.updated = Older(@), !.joined = Older(@)]
    /\ sinceJoin' = Older(sinceJoin)
    /\ sinceWarn' = Older(sinceWarn)
    /\ UNCHANGED <<inline, actors, armed, burst, banned, muted, streak, solved, raced, cut>>

WindowEnds ==
    /\ burst > 0 /\ burst' = 0
    /\ UNCHANGED <<inline, row, actors, armed, banned, muted, facts, solved, raced, cut>>

Restart ==
    /\ thread' = [t \in Threads |-> Blank]
    /\ awaited' = {}
    /\ loop' = Idle
    /\ armed' = 0
    /\ burst' = 0
    /\ cut' = (cut \/ armed > 0)
    /\ UNCHANGED <<inline, row, banned, muted, facts, solved, raced>>

Next ==
    \/ \E t \in Threads :
        \/ WarnWrites(t) \/ WarnFails(t) \/ HandlerTimesOut(t)
        \/ BadMessage(t) \/ Message(t) \/ \E link \in Links : Linked(t, link)
    \/ \E link \in Links : LinkPasses(link)
    \/ \E op \in {"join", "press"} : Begin(op)
    \/ Merge \/ LoopWrites \/ LoopFails \/ SleeperTimesOut \/ CaptchaDue
    \/ Pardon \/ Tick \/ WindowEnds \/ Restart

Spec == Init /\ [][Next]_vars

\* The loop finishes what it writes, and runs a timer that is due among its tasks; in the
\* worker only the timer of the timeout is sure to be.
FairSpec ==
    /\ Spec
    /\ WF_vars(Merge) /\ WF_vars(LoopWrites) /\ WF_vars(SleeperTimesOut)
    /\ SF_vars(inline /\ CaptchaDue)

---------------------------------------------------------------------------------
(* Properties                                                                      *)

\* As long as no two writers overlapped, the row counts the warnings given with no
\* more than a day between them: none is lost to a join, a captcha or a restart, and
\* none outlives its day (add_warn_and_maybe_ban, upsert_user_state).
WarnsAreStreak == ~raced => row.warns = streak

\* A member is banned for so many warnings in a streak, and links that the chat does not
\* allow by name wait for a day after the last join that was written; only overlapping
\* writers can change either.
Earned ==
    [][/\ banned' /\ ~banned => streak' >= WarnsLimit \/ raced'
       /\ LinkPasses("other") => sinceJoin \in Day..Old \/ raced]_vars

\* Whoever solved a captcha is not muted for not solving one, now or after joining
\* again, unless a thread wrote an older row back.
SolvedIsSpared == [][CaptchaDue /\ solved /\ ~raced => muted' = muted]_vars

\* Processed inline, a member who joins and does not solve the captcha is muted, if the
\* process lives so long and neither the row nor Telegram fails.
UnsolvedIsMuted == inline /\ armed > 0 ~> muted \/ row.captcha \/ cut

\* "# schedule timeout -> mute 24h" (app/services/moderation.py:337), whatever processes
\* the updates.  It is not so: the worker cancels the handler, which sleeps 60 seconds and
\* may take 8, and the timer with it.
JoinerIsMuted == armed > 0 ~> muted \/ row.captcha \/ cut
=================================================================================
