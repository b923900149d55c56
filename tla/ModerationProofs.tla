---------------------------- MODULE ModerationProofs ----------------------------
(* Proofs about Moderation.  Its invariants hold as long as no two writers of the  *)
(* row overlapped, so the inductive invariant says what every writer under way has *)
(* read: the row as it still is.                                                   *)
(*                                                                                 *)
(* And, in the second half, about the guard of the AI branch.                      *)
EXTENDS Moderation, AiGuard, FiniteSetTheorems, SequenceTheorems, TLAPS

\* The row tells what the history does.
Agrees ==
    /\ row.warns = streak
    /\ row.updated = sinceWarn
    /\ row.joined = sinceJoin
    /\ solved => row.captcha

\* A thread is about to write the row with one warning more.
Fresh == \A t \in Threads : ~Resting(t) => thread[t] = Warned(row) /\ row.warns < MaxWarns

\* The loop is about to write the row with one entry more.
LoopFresh == loop.op # "none" => loop.row = Meta(loop.op)

Clean == ~raced => Agrees /\ Fresh /\ LoopFresh

\* A join under way will find a timer to arm.
TimerLeft == loop.op = "join" => armed < MaxTimers

IInv == TypeOK /\ TimerLeft /\ Clean

---------------------------------------------------------------------------------
(* The rows that are written                                                       *)

LEMMA AgesOf ==
    /\ 0 \in Ages /\ Old \in Ages /\ Missing \in Ages
    /\ Old \in Nat /\ Missing = Old + 1 /\ Day \in Nat /\ Day >= 1
    /\ \A a \in Ages : Older(a) \in Ages
<1>1. Day \in Nat /\ Day >= 1
  BY ModerationAssumption
<1> QED
  BY <1>1 DEF Ages, Old, Missing, Older

LEMMA BlankIsRow == Blank \in Row /\ Blank.captcha = FALSE
<1>1. 0 \in 0..MaxWarns
  BY ModerationAssumption
<1>2. Missing \in Ages
  BY AgesOf
<1> QED
  BY <1>1, <1>2 DEF Blank, Row

LEMMA WarnedRow ==
    ASSUME NEW r \in Row, r.warns < MaxWarns
    PROVE  /\ Warned(r) \in Row
           /\ Warned(r).warns = IF r.updated = Old THEN 1 ELSE r.warns + 1
           /\ Warned(r).updated = 0
           /\ Warned(r).joined = r.joined
           /\ Warned(r).captcha = r.captcha
<1>1. r.warns \in 0..MaxWarns /\ MaxWarns \in Nat
  BY ModerationAssumption DEF Row
<1>2. r.warns + 1 \in 0..MaxWarns /\ 1 \in 0..MaxWarns
  BY <1>1
<1>3. 0 \in Ages
  BY AgesOf
<1> DEFINE n == IF r.updated = Old THEN 1 ELSE r.warns + 1
<1>4. n \in 0..MaxWarns
  BY <1>2
<1>5. Warned(r) = [r EXCEPT !.warns = n, !.updated = 0]
  BY DEF Warned
<1> HIDE DEF n
<1>6. /\ [r EXCEPT !.warns = n, !.updated = 0] \in Row
      /\ [r EXCEPT !.warns = n, !.updated = 0].warns = n
      /\ [r EXCEPT !.warns = n, !.updated = 0].updated = 0
      /\ [r EXCEPT !.warns = n, !.updated = 0].joined = r.joined
      /\ [r EXCEPT !.warns = n, !.updated = 0].captcha = r.captcha
  BY <1>3, <1>4 DEF Row
<1> QED
  BY <1>5, <1>6 DEF n

LEMMA MetaRow ==
    ASSUME row \in Row, NEW op \in {"join", "press"}
    PROVE  /\ Meta(op) \in Row
           /\ Meta(op).warns = row.warns
           /\ Meta(op).updated = row.updated
           /\ Meta(op).joined = IF op = "join" THEN 0 ELSE row.joined
           /\ Meta(op).captcha = (row.captcha \/ op = "press")
<1>1. 0 \in Ages
  BY AgesOf
<1>2. CASE op = "join"
  BY <1>1, <1>2 DEF Meta, Row
<1>3. CASE op = "press"
  BY <1>3 DEF Meta, Row
<1> QED
  BY <1>2, <1>3

LEMMA IdleLoop ==
    /\ Idle.op = "none"
    /\ Idle \in [op : {"none", "join", "press"}, step : {"meta", "merged"}, row : Row]
BY BlankIsRow DEF Idle

---------------------------------------------------------------------------------
(* The steps                                                                       *)

LEMMA InitIInv == Init => IInv
<1> SUFFICES ASSUME Init PROVE IInv
  OBVIOUS
<1>1. TypeOK
  <2>1. row \in Row /\ thread \in [Threads -> Row]
    BY BlankIsRow DEF Init
  <2>2. loop \in [op : {"none", "join", "press"}, step : {"meta", "merged"}, row : Row]
    BY IdleLoop DEF Init
  <2>3. burst \in 0..(FloodN + 1) /\ streak \in 0..MaxWarns
    BY ModerationAssumption DEF Init
  <2>4. sinceJoin \in Ages /\ sinceWarn \in Ages
    BY AgesOf DEF Init
  <2>5. /\ inline \in BOOLEAN /\ awaited \subseteq Threads
        /\ banned \in BOOLEAN /\ muted \in BOOLEAN
        /\ solved \in BOOLEAN /\ raced \in BOOLEAN /\ cut \in BOOLEAN
    BY DEF Init
  <2>6. armed \in 0..MaxTimers
    BY ModerationAssumption DEF Init
  <2> QED
    BY <2>1, <2>2, <2>3, <2>4, <2>5, <2>6 DEF TypeOK
<1>2. Agrees
  BY DEF Init, Agrees, Blank
<1>3. Fresh
  BY DEF Init, Fresh, Resting
<1>4. LoopFresh /\ TimerLeft
  BY IdleLoop DEF Init, LoopFresh, TimerLeft
<1> QED
  BY <1>1, <1>2, <1>3, <1>4 DEF IInv, Clean

\* What the row and its writers are, and nothing else, decides whether IInv is kept.
LEMMA CleanFrame ==
    ASSUME Clean, UNCHANGED <<row, actors, sinceJoin, sinceWarn, streak, solved, raced>>
    PROVE  Clean'
<1>1. Agrees => Agrees'
  BY DEF Agrees
<1>2. Fresh => Fresh'
  BY DEF Fresh, Resting, actors, Warned
<1>3. LoopFresh => LoopFresh'
  BY DEF LoopFresh, actors, Meta
<1> QED
  BY <1>1, <1>2, <1>3 DEF Clean

\* A message that is warned for, whatever else it changes.
LEMMA WarnStep ==
    ASSUME IInv, NEW t \in Threads, Warn(t), burst' \in 0..(FloodN + 1),
           UNCHANGED <<inline, row, loop, armed, banned, muted, facts, solved, raced, cut>>
    PROVE  IInv'
<1>1. row \in Row /\ thread \in [Threads -> Row] /\ row.warns < MaxWarns
  BY DEF IInv, TypeOK, Warn
<1>2. Warned(row) \in Row
  BY <1>1, WarnedRow
<1>3. thread' \in [Threads -> Row] /\ awaited' \subseteq Threads
  BY <1>1, <1>2 DEF Warn, IInv, TypeOK
<1>4. TypeOK'
  BY <1>3 DEF IInv, TypeOK, facts
<1>5. Agrees => Agrees'
  BY DEF Agrees, facts
<1>6. Fresh => Fresh'
  <2> SUFFICES ASSUME Fresh, NEW u \in Threads, ~Resting(u)'
               PROVE  thread'[u] = Warned(row') /\ row'.warns < MaxWarns
    BY DEF Fresh, Warned
  <2>1. CASE u = t
    BY <1>1, <2>1 DEF Warn
  <2>2. CASE u # t
    <3>1. thread'[u] = thread[u]
      BY <1>1, <2>2 DEF Warn
    <3> QED
      BY <3>1 DEF Fresh, Resting
  <2> QED
    BY <2>1, <2>2
<1>7. LoopFresh => LoopFresh'
  BY DEF LoopFresh, Meta
<1> QED
  BY <1>4, <1>5, <1>6, <1>7 DEF IInv, Clean, TimerLeft

\* A thread writes what it has computed.
LEMMA WarnWritesStep ==
    ASSUME IInv, NEW t \in Threads, WarnWrites(t)
    PROVE  /\ IInv'
           /\ banned' /\ ~banned => streak' >= WarnsLimit \/ raced'
<1>1. /\ row \in Row /\ thread \in [Threads -> Row] /\ thread[t] \in Row
      /\ streak \in 0..MaxWarns /\ banned \in BOOLEAN
  BY DEF IInv, TypeOK
<1>2. streak' \in 0..MaxWarns
  BY <1>1, ModerationAssumption DEF WarnWrites
<1>3. TypeOK'
  <2>1. row' \in Row /\ thread' \in [Threads -> Row] /\ awaited' \subseteq Threads
    BY <1>1, BlankIsRow DEF WarnWrites, IInv, TypeOK
  <2>2. sinceWarn' \in Ages /\ sinceJoin' \in Ages
    BY AgesOf DEF WarnWrites, IInv, TypeOK
  <2>3. banned' \in BOOLEAN
    BY <1>1 DEF WarnWrites
  <2>4. raced' \in BOOLEAN
    BY DEF WarnWrites, IInv, TypeOK
  <2> QED
    BY <1>2, <2>1, <2>2, <2>3, <2>4 DEF WarnWrites, IInv, TypeOK
\* Nobody else has read the row, so the row is the one the thread has read.
<1>4. ASSUME ~raced'
      PROVE  /\ Agrees' /\ Fresh' /\ LoopFresh'
             /\ row'.warns = streak'
  <2>1. ~raced /\ loop = Idle /\ \A u \in Threads \ {t} : Resting(u)
    BY <1>4 DEF WarnWrites, OthersAt
  <2>2. Agrees /\ thread[t] = Warned(row) /\ row.warns < MaxWarns
    BY <2>1 DEF IInv, Clean, Fresh, WarnWrites
  <2>3. /\ row'.warns = IF row.updated = Old THEN 1 ELSE row.warns + 1
        /\ row'.updated = 0 /\ row'.joined = row.joined /\ row'.captcha = row.captcha
    BY <1>1, <2>2, WarnedRow DEF WarnWrites
  <2>4. streak' = IF row.updated = Old THEN 1 ELSE row.warns + 1
    BY <2>2 DEF Agrees, WarnWrites
  <2>5. Agrees'
    BY <2>2, <2>3, <2>4 DEF Agrees, WarnWrites
  <2>6. Fresh'
    <3>1. \A u \in Threads : thread'[u] = Blank
      BY <1>1, <2>1 DEF WarnWrites, Resting
    <3> QED
      BY <3>1 DEF Fresh, Resting
  <2>7. LoopFresh'
    BY <2>1, IdleLoop DEF LoopFresh, WarnWrites
  <2> QED
    BY <2>3, <2>4, <2>5, <2>6, <2>7
<1>5. ASSUME banned', ~banned, ~raced' PROVE streak' >= WarnsLimit
  <2>1. row'.warns >= WarnsLimit
    BY <1>5 DEF WarnWrites
  <2> QED
    BY <1>4, <1>5, <2>1
<1>6. Clean'
  BY <1>4 DEF Clean
<1>7. TimerLeft'
  BY DEF WarnWrites, IInv, TimerLeft
<1> QED
  BY <1>3, <1>5, <1>6, <1>7 DEF IInv

\* A thread that fails writes nothing.
LEMMA WarnFailsStep ==
    ASSUME IInv, NEW t \in Threads, WarnFails(t)
    PROVE  IInv'
<1>1. TypeOK'
  BY BlankIsRow DEF WarnFails, IInv, TypeOK, facts
<1>2. Agrees => Agrees'
  BY DEF WarnFails, Agrees, facts
<1>3. Fresh => Fresh'
  <2> SUFFICES ASSUME Fresh, NEW u \in Threads, ~Resting(u)'
               PROVE  thread'[u] = Warned(row') /\ row'.warns < MaxWarns
    BY DEF Fresh, Warned
  <2>1. thread'[u] = thread[u] /\ thread[u] # Blank
    BY DEF WarnFails, Resting, IInv, TypeOK
  <2> QED
    BY <2>1 DEF WarnFails, Fresh, Resting
<1>4. LoopFresh => LoopFresh'
  BY DEF WarnFails, LoopFresh, Meta
<1> QED
  BY <1>1, <1>2, <1>3, <1>4 DEF IInv, Clean, TimerLeft, WarnFails

LEMMA BeginStep ==
    ASSUME IInv, NEW op \in {"join", "press"}, Begin(op)
    PROVE  IInv'
<1>1. row \in Row
  BY DEF IInv, TypeOK
<1>2. loop' \in [op : {"none", "join", "press"}, step : {"meta", "merged"}, row : Row]
  <2>1. Meta(op) \in Row
    BY <1>1, MetaRow
  <2> QED
    BY <2>1 DEF Begin
<1>3. TypeOK'
  BY <1>2 DEF Begin, IInv, TypeOK, facts
<1>4. Agrees => Agrees'
  BY DEF Begin, Agrees, facts
<1>5. Fresh => Fresh'
  BY DEF Begin, Fresh, Resting, Warned
<1>6. LoopFresh'
  BY DEF Begin, LoopFresh, Meta
<1> QED
  BY <1>3, <1>4, <1>5, <1>6 DEF IInv, Clean, TimerLeft, Begin

\* The second read of the row changes nothing, as long as no thread wrote meanwhile.
LEMMA MergeStep ==
    ASSUME IInv, Merge
    PROVE  IInv'
<1>1. /\ row \in Row
      /\ loop \in [op : {"none", "join", "press"}, step : {"meta", "merged"}, row : Row]
  BY DEF IInv, TypeOK
<1>2. /\ loop' = [loop EXCEPT !.step = "merged", !.row.warns = row.warns]
      /\ loop.op \in {"join", "press"}
  BY <1>1 DEF Merge
<1>3. /\ loop' \in [op : {"none", "join", "press"}, step : {"meta", "merged"}, row : Row]
      /\ loop'.op = loop.op
      /\ loop'.row = [loop.row EXCEPT !.warns = row.warns]
  BY <1>1, <1>2 DEF Row
<1>4. TypeOK'
  BY <1>3 DEF Merge, IInv, TypeOK, facts
<1>5. Agrees => Agrees'
  BY DEF Merge, Agrees, facts
<1>6. Fresh => Fresh'
  BY DEF Merge, Fresh, Resting, Warned
<1>7. LoopFresh => LoopFresh'
  <2> SUFFICES ASSUME LoopFresh PROVE loop'.row = Meta(loop.op)
    BY <1>3 DEF LoopFresh, Meta, Merge
  <2>1. loop.row = Meta(loop.op) /\ Meta(loop.op).warns = row.warns /\ loop.row \in Row
    BY <1>1, <1>2, MetaRow DEF LoopFresh
  <2>2. [loop.row EXCEPT !.warns = row.warns] = loop.row
    BY <2>1 DEF Row
  <2> QED
    BY <1>3, <2>1, <2>2
<1>8. TimerLeft'
  BY <1>3 DEF IInv, TimerLeft, Merge
<1> QED
  BY <1>4, <1>5, <1>6, <1>7, <1>8 DEF IInv, Clean, Merge

LEMMA LoopWritesStep ==
    ASSUME IInv, LoopWrites
    PROVE  IInv'
<1>1. /\ row \in Row
      /\ loop \in [op : {"none", "join", "press"}, step : {"meta", "merged"}, row : Row]
      /\ loop.op \in {"join", "press"} /\ loop.row \in Row
  BY DEF IInv, TypeOK, LoopWrites
<1>2. TypeOK'
  <2>1. row' \in Row
    BY <1>1 DEF LoopWrites
  <2>2. loop' \in [op : {"none", "join", "press"}, step : {"meta", "merged"}, row : Row]
    BY IdleLoop DEF LoopWrites
  <2>3. sinceJoin' \in Ages
    BY AgesOf DEF LoopWrites, IInv, TypeOK
  <2>4. raced' \in BOOLEAN
    BY DEF LoopWrites, IInv, TypeOK
  <2>5. solved' \in BOOLEAN /\ cut' \in BOOLEAN
    BY DEF LoopWrites, IInv, TypeOK
  <2>6. armed' \in 0..MaxTimers
    BY ModerationAssumption DEF LoopWrites, IInv, TypeOK, TimerLeft
  <2> QED
    BY <2>1, <2>2, <2>3, <2>4, <2>5, <2>6 DEF LoopWrites, IInv, TypeOK
<1>3. ASSUME ~raced' PROVE Agrees' /\ Fresh' /\ LoopFresh'
  <2>1. ~raced /\ \A t \in Threads : Resting(t)
    BY <1>3 DEF LoopWrites
  <2>2. Agrees /\ loop.row = Meta(loop.op)
    BY <1>1, <2>1 DEF IInv, Clean, LoopFresh
  <2>3. /\ row'.warns = row.warns /\ row'.updated = row.updated
        /\ row'.joined = IF loop.op = "join" THEN 0 ELSE row.joined
        /\ row'.captcha = (row.captcha \/ loop.op = "press")
    BY <1>1, <2>2, MetaRow DEF LoopWrites
  <2>4. Agrees'
    BY <2>2, <2>3 DEF Agrees, LoopWrites
  <2>5. Fresh'
    BY <2>1 DEF Fresh, Resting, LoopWrites
  <2>6. LoopFresh'
    BY IdleLoop DEF LoopFresh, LoopWrites
  <2> QED
    BY <2>4, <2>5, <2>6
<1>4. TimerLeft'
  BY IdleLoop DEF TimerLeft, LoopWrites
<1> QED
  BY <1>2, <1>3, <1>4 DEF IInv, Clean

\* The loop fails, or the worker cancels a handler that sleeps: nothing is written.
LEMMA LoopEndsStep ==
    ASSUME IInv, LoopFails \/ SleeperTimesOut
    PROVE  IInv'
<1>1. loop' \in {loop, Idle}
  BY DEF LoopFails, SleeperTimesOut, actors
<1>2. TypeOK' /\ TimerLeft'
  <2>1. loop' \in [op : {"none", "join", "press"}, step : {"meta", "merged"}, row : Row]
    BY <1>1, IdleLoop DEF IInv, TypeOK
  <2>2. armed' \in 0..MaxTimers /\ (armed' = armed \/ armed' = 0)
    BY ModerationAssumption DEF LoopFails, SleeperTimesOut, IInv, TypeOK
  <2>3. TypeOK'
    BY <2>1, <2>2 DEF LoopFails, SleeperTimesOut, IInv, TypeOK, actors, facts
  <2>4. TimerLeft'
    BY <1>1, <2>2, IdleLoop, ModerationAssumption DEF IInv, TimerLeft
  <2> QED
    BY <2>3, <2>4
<1>3. UNCHANGED <<row, thread, sinceJoin, sinceWarn, streak, solved, raced>>
  BY DEF LoopFails, SleeperTimesOut, actors, facts
<1>4. Agrees => Agrees'
  BY <1>3 DEF Agrees
<1>5. Fresh => Fresh'
  BY <1>3 DEF Fresh, Resting, Warned
<1>6. LoopFresh => LoopFresh'
  BY <1>1, <1>3, IdleLoop DEF LoopFresh, Meta
<1> QED
  BY <1>2, <1>3, <1>4, <1>5, <1>6 DEF IInv, Clean

LEMMA TickStep ==
    ASSUME IInv, Tick
    PROVE  IInv'
<1>1. row \in Row /\ sinceJoin \in Ages /\ sinceWarn \in Ages
  BY DEF IInv, TypeOK
<1>2. /\ row' \in Row
      /\ row'.warns = row.warns /\ row'.captcha = row.captcha
      /\ row'.updated = Older(row.updated) /\ row'.joined = Older(row.joined)
  <2>1. row.updated \in Ages /\ row.joined \in Ages
    BY <1>1 DEF Row
  <2>2. Older(row.updated) \in Ages /\ Older(row.joined) \in Ages
    BY <2>1, AgesOf
  <2>3. row' = [row EXCEPT !.updated = Older(row.updated), !.joined = Older(row.joined)]
    BY DEF Tick
  <2> QED
    BY <1>1, <2>2, <2>3 DEF Row
<1>3. sinceJoin' \in Ages /\ sinceWarn' \in Ages
  BY <1>1, AgesOf DEF Tick
<1>4. TypeOK'
  BY <1>2, <1>3 DEF Tick, IInv, TypeOK, actors
<1>5. Agrees => Agrees'
  BY <1>2 DEF Agrees, Tick
<1>6. Fresh'
  BY DEF Fresh, Resting, Tick, actors
<1>7. LoopFresh'
  BY IdleLoop DEF LoopFresh, Tick, actors
<1> QED
  BY <1>4, <1>5, <1>6, <1>7 DEF IInv, Clean, TimerLeft, Tick, actors

LEMMA RestartStep ==
    ASSUME IInv, Restart
    PROVE  IInv'
<1>1. TypeOK'
  <2>1. thread' \in [Threads -> Row] /\ awaited' \subseteq Threads
    BY BlankIsRow DEF Restart
  <2>2. loop' \in [op : {"none", "join", "press"}, step : {"meta", "merged"}, row : Row]
    BY IdleLoop DEF Restart
  <2>3. burst' \in 0..(FloodN + 1)
    BY ModerationAssumption DEF Restart
  <2>4. armed' \in 0..MaxTimers /\ cut' \in BOOLEAN
    BY ModerationAssumption DEF Restart, IInv, TypeOK
  <2> QED
    BY <2>1, <2>2, <2>3, <2>4 DEF Restart, IInv, TypeOK, facts
<1>2. Agrees => Agrees'
  BY DEF Agrees, Restart, facts
<1>3. Fresh' /\ LoopFresh' /\ TimerLeft'
  BY IdleLoop DEF Fresh, Resting, LoopFresh, TimerLeft, Restart
<1> QED
  BY <1>1, <1>2, <1>3 DEF IInv, Clean, Restart

\* The steps that neither read the row to write it nor write it.
Aside ==
    \/ \E t \in Threads : HandlerTimesOut(t)
    \/ \E link \in Links : LinkPasses(link)
    \/ CaptchaDue \/ Pardon \/ WindowEnds

LEMMA AsideStep ==
    ASSUME IInv, Aside
    PROVE  IInv'
<1>1. burst \in 0..(FloodN + 1) /\ FloodN \in Nat
  BY ModerationAssumption DEF IInv, TypeOK
<1>2. ASSUME NEW t \in Threads, HandlerTimesOut(t) PROVE IInv'
  <2>1. TypeOK'
    BY <1>2 DEF HandlerTimesOut, IInv, TypeOK, facts
  <2>2. Agrees => Agrees'
    BY <1>2 DEF HandlerTimesOut, Agrees, facts
  <2>3. Fresh => Fresh'
    BY <1>2 DEF HandlerTimesOut, Fresh, Resting, Warned
  <2>4. LoopFresh => LoopFresh'
    BY <1>2 DEF HandlerTimesOut, LoopFresh, Meta
  <2> QED
    BY <1>2, <2>1, <2>2, <2>3, <2>4 DEF IInv, Clean, TimerLeft, HandlerTimesOut
<1>3. ASSUME NEW link \in Links, LinkPasses(link) PROVE IInv'
  <2>1. burst' \in 0..(FloodN + 1)
    BY <1>1, <1>3 DEF LinkPasses, Counted
  <2>2. TypeOK'
    BY <1>3, <2>1 DEF LinkPasses, IInv, TypeOK, actors, facts
  <2> QED
    BY <1>3, <2>2, CleanFrame DEF LinkPasses, IInv, TimerLeft, actors, facts
<1>4. CASE CaptchaDue
  <2>1. muted' \in BOOLEAN /\ cut' \in BOOLEAN
    BY <1>4 DEF CaptchaDue, IInv, TypeOK
  <2>2. armed' \in 0..MaxTimers /\ loop = Idle
    BY <1>4, ModerationAssumption DEF CaptchaDue, IInv, TypeOK
  <2>3. TypeOK'
    BY <1>4, <2>1, <2>2 DEF CaptchaDue, IInv, TypeOK, actors, facts
  <2>4. TimerLeft'
    BY <1>4, <2>2, IdleLoop DEF CaptchaDue, TimerLeft, actors
  <2> QED
    BY <1>4, <2>3, <2>4, CleanFrame DEF CaptchaDue, IInv, facts
<1>5. CASE Pardon
  <2>1. TypeOK'
    BY <1>5 DEF Pardon, IInv, TypeOK, actors, facts
  <2> QED
    BY <1>5, <2>1, CleanFrame DEF Pardon, IInv, TimerLeft, actors, facts
<1>6. CASE WindowEnds
  <2>1. burst' \in 0..(FloodN + 1)
    BY <1>1, <1>6 DEF WindowEnds
  <2>2. TypeOK'
    BY <1>6, <2>1 DEF WindowEnds, IInv, TypeOK, actors, facts
  <2> QED
    BY <1>6, <2>2, CleanFrame DEF WindowEnds, IInv, TimerLeft, actors, facts
<1> QED
  BY <1>2, <1>3, <1>4, <1>5, <1>6 DEF Aside

\* The messages: a warning, or one more in the flood window.
LEMMA MessageStep ==
    ASSUME IInv, NEW t \in Threads, BadMessage(t) \/ Message(t) \/ \E link \in Links : Linked(t, link)
    PROVE  IInv'
<1>1. burst \in 0..(FloodN + 1) /\ FloodN \in Nat
  BY ModerationAssumption DEF IInv, TypeOK
<1>2. CASE BadMessage(t)
  BY <1>1, <1>2, WarnStep DEF BadMessage
<1>3. ASSUME NEW link \in Links, Linked(t, link) PROVE IInv'
  BY <1>1, <1>3, WarnStep DEF Linked
<1>4. CASE Message(t)
  <2>1. burst' \in 0..(FloodN + 1)
    BY <1>1, <1>4 DEF Message, Counted
  <2>2. CASE Warn(t)
    BY <1>4, <2>1, <2>2, WarnStep DEF Message
  <2>3. CASE UNCHANGED <<thread, awaited>>
    <3>1. TypeOK'
      BY <1>4, <2>1, <2>3 DEF Message, IInv, TypeOK, facts
    <3>2. UNCHANGED <<row, actors, sinceJoin, sinceWarn, streak, solved, raced>>
      BY <1>4, <2>3 DEF Message, actors, facts
    <3>3. TimerLeft'
      BY <1>4 DEF Message, IInv, TimerLeft
    <3> QED
      BY <3>1, <3>2, <3>3, CleanFrame DEF IInv
  <2> QED
    BY <1>4, <2>2, <2>3 DEF Message
<1> QED
  BY <1>2, <1>3, <1>4

LEMMA NextIInv == IInv /\ [Next]_vars => IInv'
<1> SUFFICES ASSUME IInv, [Next]_vars PROVE IInv'
  OBVIOUS
<1>1. ASSUME NEW t \in Threads, WarnWrites(t) PROVE IInv'
  BY <1>1, WarnWritesStep
<1>2. ASSUME NEW t \in Threads, BadMessage(t) \/ Message(t) \/ \E link \in Links : Linked(t, link)
      PROVE  IInv'
  BY <1>2, MessageStep
<1>3. CASE Aside
  BY <1>3, AsideStep
<1>4. ASSUME NEW op \in {"join", "press"}, Begin(op) PROVE IInv'
  BY <1>4, BeginStep
<1>5. CASE Merge
  BY <1>5, MergeStep
<1>6. CASE LoopWrites
  BY <1>6, LoopWritesStep
<1>7. CASE Tick
  BY <1>7, TickStep
<1>8. CASE Restart
  BY <1>8, RestartStep
<1>9. ASSUME NEW t \in Threads, WarnFails(t) PROVE IInv'
  BY <1>9, WarnFailsStep
<1>10. CASE LoopFails \/ SleeperTimesOut
  BY <1>10, LoopEndsStep
<1>11. CASE UNCHANGED vars
  <2>1. TypeOK'
    BY <1>11 DEF vars, actors, facts, IInv, TypeOK
  <2> QED
    BY <1>11, <2>1, CleanFrame DEF vars, facts, actors, TimerLeft, IInv
<1> QED
  BY <1>1, <1>2, <1>3, <1>4, <1>5, <1>6, <1>7, <1>8, <1>9, <1>10,
     <1>11 DEF Next, Aside

LEMMA IInvAlways == Spec => []IInv
BY InitIInv, NextIInv, PTL DEF Spec

---------------------------------------------------------------------------------
(* The theorems                                                                    *)

\* Type correctness: the rows the threads and the loop hold are rows of the table.
THEOREM TypeCorrect == Spec => []TypeOK
<1>1. IInv => TypeOK
  BY DEF IInv
<1> QED
  BY <1>1, IInvAlways, PTL

\* As long as no two writers of the row overlapped, it counts the warnings given with
\* no more than a day between them, for every limit and any number of threads.
THEOREM WarningsAreCounted == Spec => []WarnsAreStreak
<1>1. IInv => WarnsAreStreak
  BY DEF IInv, Clean, Agrees, WarnsAreStreak
<1> QED
  BY <1>1, IInvAlways, PTL

\* A member is banned only for a streak of warnings, and a link whose domain the chat
\* does not allow by name passes only a day after the last join, unless writers
\* overlapped, for every limit, length of a day and number of threads.
THEOREM BansAreEarned == Spec => Earned
<1> DEFINE A == /\ banned' /\ ~banned => streak' >= WarnsLimit \/ raced'
                /\ LinkPasses("other") => sinceJoin \in Day..Old \/ raced
<1>1. IInv /\ [Next]_vars => [A]_vars
  <2> SUFFICES ASSUME IInv, Next PROVE A
    OBVIOUS
  <2>1. LinkPasses("other") => sinceJoin \in Day..Old \/ raced
    <3> SUFFICES ASSUME LinkPasses("other"), ~raced PROVE sinceJoin \in Day..Old
      OBVIOUS
    <3>1. row.joined = sinceJoin /\ sinceJoin \in 0..Missing
      BY DEF IInv, TypeOK, Clean, Agrees, Ages
    <3>2. ~(row.joined < Day) /\ row.joined # Missing
      BY DEF LinkPasses, ShouldBlock, Newcomer
    <3> QED
      BY <3>1, <3>2, AgesOf
  <2>2. ASSUME NEW t \in Threads, WarnWrites(t)
        PROVE  banned' /\ ~banned => streak' >= WarnsLimit \/ raced'
    BY <2>2, WarnWritesStep
  <2>3. ASSUME banned', ~banned PROVE \E t \in Threads : WarnWrites(t)
    BY <2>3 DEF Next, WarnFails, HandlerTimesOut, BadMessage, Linked, Message, LinkPasses,
                Begin, Merge, LoopWrites, LoopFails, SleeperTimesOut, CaptchaDue, Pardon, Tick, WindowEnds, Restart
  <2> QED
    BY <2>1, <2>2, <2>3
<1>2. Spec => [][A]_vars
  BY <1>1, IInvAlways, PTL DEF Spec
<1> QED
  BY <1>2 DEF Earned

\* The captcha timer mutes nobody who ever solved a captcha, unless writers overlapped.
THEOREM SolversAreSpared == Spec => SolvedIsSpared
<1> DEFINE A == CaptchaDue /\ solved /\ ~raced => muted' = muted
<1>1. IInv => A
  <2> SUFFICES ASSUME IInv, CaptchaDue, solved, ~raced PROVE muted' = muted
    OBVIOUS
  <2>1. row.captcha /\ muted \in BOOLEAN
    BY DEF IInv, TypeOK, Clean, Agrees
  <2> QED
    BY <2>1 DEF CaptchaDue, Unsolved
<1>2. IInv /\ [Next]_vars => [A]_vars
  BY <1>1
<1>3. Spec => [][A]_vars
  BY <1>2, IInvAlways, PTL DEF Spec
<1> QED
  BY <1>3 DEF SolvedIsSpared

---------------------------------------------------------------------------------
(* The guard of the AI branch, for any callers, thresholds, durations, retries and  *)
(* quota.  The breaker's failures are the end of the log of failures since the last *)
(* success, in the order of time; an open breaker has seen fewer than it takes to   *)
(* open it since it did; every answered call is counted or is a write that failed;  *)
(* and a chat has room in its quota for every call in flight but the one that is    *)
(* read last and those that failing statements let through.                         *)

Breaker == [state : {"CLOSED", "OPEN", "HALF_OPEN"}, failures : Seq(0..MaxTime),
            opened_at : 0..MaxTime, probes_left : 0..Probes]

Ordered(f) == \A i, j \in 1..Len(f) : i <= j => f[i] <= f[j]

Past(f) == \A i \in 1..Len(f) : f[i] <= now

\* The last Len(s) of t are s, counted from the end.
EndOf(s, t) == Len(s) <= Len(t) /\ \A n \in 1..Len(s) : s[Len(s) - n + 1] = t[Len(t) - n + 1]

InWindow(f) == \A i \in 1..Len(f) : now - f[i] <= Window

\* The failure that was the threshold when f were all there are.
Opener(f) == f[Len(f) - Threshold + 1]

Log(t) == t \in Seq(0..MaxTime) /\ Ordered(t) /\ Past(t)

Calm(b, t) ==
    /\ EndOf(b.failures, t)
    /\ b.state = "OPEN" /\ Len(b.failures) >= Threshold => Opener(b.failures) <= b.opened_at
    /\ b.state = "HALF_OPEN" => Len(b.failures) < Threshold

\* An attempt that never reaches the provider is not in flight; a call in its backoff
\* has an attempt left.
Placed(c) ==
    /\ call[c].over => call[c].pc = "backoff"
    /\ call[c].pc = "backoff" => call[c].attempt < MaxRetries

InFlight == {c \in Callers : call[c].pc # "outside" /\ ~call[c].over}

QuotaInv ==
    /\ answered <= usage + faults
    /\ answered + Cardinality(InFlight) <= Quota + Cardinality(Callers) - 1 + faults

GuardInv ==
    /\ GuardTypeOK
    /\ Log(failedAt) /\ Calm(breaker, failedAt)
    /\ \A c \in Callers : Placed(c)
    /\ QuotaInv
    /\ ProbeBudget

---------------------------------------------------------------------------------
(* Logs and their ends                                                             *)

LEMMA Numbers ==
    /\ Threshold \in Nat \ {0} /\ Probes \in Nat \ {0} /\ Window \in Nat /\ OpenFor \in Nat
    /\ Window < OpenFor /\ MaxRetries \in Nat /\ Quota \in Nat
    /\ MaxFaults \in Nat /\ MaxTime \in Nat
BY GuardAssumption

LEMMA EndOfOrdered ==
    ASSUME NEW S, NEW s \in Seq(S), NEW T, NEW t \in Seq(T), EndOf(s, t), Ordered(t), Past(t)
    PROVE  Ordered(s) /\ Past(s)
<1>1. Len(s) \in Nat /\ Len(t) \in Nat /\ Len(s) <= Len(t)  BY DEF EndOf
<1>2. ASSUME NEW i \in 1..Len(s)
      PROVE  Len(t) - Len(s) + i \in 1..Len(t) /\ s[i] = t[Len(t) - Len(s) + i]
  <2> DEFINE n == Len(s) - i + 1
  <2>1. n \in 1..Len(s) /\ Len(s) - n + 1 = i /\ Len(t) - n + 1 = Len(t) - Len(s) + i
    BY <1>1
  <2>2. s[Len(s) - n + 1] = t[Len(t) - n + 1]  BY <2>1 DEF EndOf
  <2> QED BY <1>1, <2>1, <2>2
<1>3. Ordered(s)
  <2> SUFFICES ASSUME NEW i \in 1..Len(s), NEW j \in 1..Len(s), i <= j PROVE s[i] <= s[j]
    BY DEF Ordered
  <2>1. Len(t) - Len(s) + i <= Len(t) - Len(s) + j  BY <1>1
  <2> QED BY <1>2, <2>1 DEF Ordered
<1>4. Past(s)  BY <1>2 DEF Past
<1> QED BY <1>3, <1>4

LEMMA EndOfEnd ==
    ASSUME NEW R, NEW r \in Seq(R), NEW S, NEW s \in Seq(S), NEW T, NEW t \in Seq(T),
           EndOf(r, s), EndOf(s, t)
    PROVE  EndOf(r, t)
<1>1. Len(r) \in Nat /\ Len(s) \in Nat /\ Len(t) \in Nat  OBVIOUS
<1> QED BY <1>1 DEF EndOf

LEMMA AppendedEnd ==
    ASSUME NEW S, NEW s \in Seq(S), NEW t \in Seq(S), EndOf(s, t), NEW x \in S
    PROVE  EndOf(Append(s, x), Append(t, x))
<1> DEFINE p == Append(s, x)
           q == Append(t, x)
<1>1. /\ Len(p) = Len(s) + 1 /\ p[Len(s) + 1] = x /\ \A i \in 1..Len(s) : p[i] = s[i]
      /\ Len(q) = Len(t) + 1 /\ q[Len(t) + 1] = x /\ \A i \in 1..Len(t) : q[i] = t[i]
  BY AppendProperties
<1>2. Len(s) \in Nat /\ Len(t) \in Nat /\ Len(s) <= Len(t)  BY DEF EndOf
<1> HIDE DEF p, q
<1>3. ASSUME NEW n \in 1..Len(p) PROVE p[Len(p) - n + 1] = q[Len(q) - n + 1]
  <2>1. CASE n = 1  BY <1>1, <1>2, <2>1
  <2>2. CASE n # 1
    <3> DEFINE k == n - 1
    <3>1. /\ k \in 1..Len(s) /\ Len(p) - n + 1 = Len(s) - k + 1 /\ Len(q) - n + 1 = Len(t) - k + 1
          /\ Len(s) - k + 1 \in 1..Len(s) /\ Len(t) - k + 1 \in 1..Len(t)
      BY <1>1, <1>2, <2>2
    <3>2. s[Len(s) - k + 1] = t[Len(t) - k + 1]  BY <3>1 DEF EndOf
    <3> QED BY <1>1, <3>1, <3>2
  <2> QED BY <2>1, <2>2
<1>4. Len(p) <= Len(q)  BY <1>1, <1>2
<1>5. EndOf(p, q)  BY <1>3, <1>4 DEF EndOf
<1> QED BY <1>5 DEF p, q

\* A log goes on with what happens now.
LEMMA LogGoesOn ==
    ASSUME NEW t, Log(t), now \in 0..MaxTime
    PROVE  Log(Append(t, now))
<1> DEFINE q == Append(t, now)
<1>1. t \in Seq(0..MaxTime) /\ Len(t) \in Nat  BY DEF Log
<1>2. q \in Seq(0..MaxTime) /\ Len(q) = Len(t) + 1 /\ q[Len(t) + 1] = now
      /\ \A i \in 1..Len(t) : q[i] = t[i]
  BY <1>1, AppendProperties
<1> HIDE DEF q
<1>3. \A i \in 1..Len(q) : i \in 1..Len(t) \/ i = Len(t) + 1  BY <1>1, <1>2
<1>4. Past(q)  BY <1>2, <1>3, Numbers DEF Log, Past
<1>5. Ordered(q)
  <2> SUFFICES ASSUME NEW i \in 1..Len(q), NEW j \in 1..Len(q), i <= j PROVE q[i] <= q[j]
    BY DEF Ordered
  <2>1. CASE j = Len(t) + 1  BY <1>2, <1>4, <2>1 DEF Past
  <2>2. CASE j \in 1..Len(t)
    <3>1. i \in 1..Len(t)  BY <1>1, <2>2
    <3> QED BY <1>2, <2>2, <3>1 DEF Log, Ordered
  <2> QED BY <1>3, <2>1, <2>2
<1> QED BY <1>2, <1>4, <1>5 DEF Log, q

\* In a log that is in order the window is an end: sliding it is filtering by it.
LEMMA RecentIs ==
    ASSUME NEW f \in Seq(0..MaxTime), Ordered(f), now \in Nat
    PROVE  \E k \in 0..Len(f) : /\ Recent(f) = SubSeq(f, k + 1, Len(f))
                                /\ \A i \in 1..Len(f) : now - f[i] <= Window <=> i > k
<1> DEFINE gone == {i \in DOMAIN f : now - f[i] > Window}
           k == Cardinality(gone)
<1>1. Len(f) \in Nat /\ DOMAIN f = 1..Len(f) /\ \A i \in 1..Len(f) : f[i] \in Nat  BY Numbers
<1>2. \A i \in Nat : IsFiniteSet(1..i) /\ Cardinality(1..i) = i
  <2> SUFFICES ASSUME NEW i \in Nat PROVE IsFiniteSet(1..i) /\ Cardinality(1..i) = i  OBVIOUS
  <2>1. IsFiniteSet(1..i) /\ Cardinality(1..i) = IF 1 > i THEN 0 ELSE i - 1 + 1  BY FS_Interval
  <2> QED BY <2>1
<1>3. gone \subseteq 1..Len(f)  BY <1>1
<1>4. IsFiniteSet(gone) /\ k \in Nat /\ k <= Len(f)
  BY <1>1, <1>2, <1>3, FS_Subset, FS_CardinalityType
<1>5. \A i \in 1..Len(f) : i \in gone <=> ~(now - f[i] <= Window)  BY <1>1, Numbers
<1> HIDE DEF gone
<1>6. ASSUME NEW i \in 1..Len(f), i \in gone PROVE i <= k
  <2>1. \A j \in 1..i : j \in 1..Len(f) /\ f[j] <= f[i]  BY <1>1 DEF Ordered
  <2>2. 1..i \subseteq gone
    <3> SUFFICES ASSUME NEW j \in 1..i PROVE j \in gone  OBVIOUS
    <3>1. j \in 1..Len(f) /\ f[j] <= f[i]  BY <2>1
    <3>2. ~(now - f[i] <= Window)  BY <1>5, <1>6
    <3>3. ~(now - f[j] <= Window)  BY <1>1, <3>1, <3>2, Numbers
    <3> QED BY <1>5, <3>1, <3>3
  <2>3. Cardinality(1..i) <= Cardinality(gone)  BY <1>4, <2>2, FS_Subset
  <2> QED BY <1>2, <2>3
<1>7. ASSUME NEW i \in 1..Len(f), i \notin gone PROVE i > k
  <2>1. now - f[i] <= Window  BY <1>5, <1>7
  <2>2. gone \subseteq 1..(i - 1)
    <3> SUFFICES ASSUME NEW j \in gone, ~(j < i) PROVE FALSE  BY <1>1, <1>3
    <3>1. j \in 1..Len(f) /\ i <= j  BY <1>1, <1>3
    <3>2. f[i] <= f[j]  BY <3>1 DEF Ordered
    <3>3. now - f[j] <= Window  BY <1>1, <2>1, <3>1, <3>2, Numbers
    <3> QED BY <1>5, <3>1, <3>3
  <2>3. i - 1 \in Nat  OBVIOUS
  <2>4. k <= Cardinality(1..(i - 1))  BY <1>2, <2>2, <2>3, FS_Subset
  <2>5. Cardinality(1..(i - 1)) = i - 1  BY <1>2, <2>3
  <2> QED BY <1>4, <2>4, <2>5
<1>8. \A i \in 1..Len(f) : now - f[i] <= Window <=> i > k
  <2> SUFFICES ASSUME NEW i \in 1..Len(f) PROVE now - f[i] <= Window <=> i > k  OBVIOUS
  <2>1. i \in gone => ~(i > k)  BY <1>4, <1>6
  <2> QED BY <1>5, <1>7, <2>1
<1>9. Recent(f) = SubSeq(f, k + 1, Len(f))  BY DEF Recent, gone
<1>10. k \in 0..Len(f)  BY <1>4
<1> HIDE DEF k
<1> QED BY <1>8, <1>9, <1>10

\* What is left in the window is the end of the failures, all of it in the window.
LEMMA RecentEnds ==
    ASSUME NEW f \in Seq(0..MaxTime), Ordered(f), now \in Nat
    PROVE  Recent(f) \in Seq(0..MaxTime) /\ EndOf(Recent(f), f) /\ InWindow(Recent(f))
<1>0. \A i \in 1..Len(f) : f[i] \in 0..MaxTime  BY ElementOfSeq
<1> DEFINE m == Len(f)  r == Recent(f)
<1>1. PICK k \in 0..m : /\ r = SubSeq(f, k + 1, m)
                        /\ \A i \in 1..m : now - f[i] <= Window <=> i > k
  BY RecentIs
<1>2. m \in Nat  OBVIOUS
<1>3. r \in Seq(0..MaxTime) /\ Len(r) = m - k /\ \A i \in 1..(m - k) : r[i] = f[k + i]
  <2>1. ASSUME NEW i \in (k + 1)..m PROVE f[i] \in 0..MaxTime
    <3>1. i \in 1..Len(f)  BY <1>2
    <3> QED BY <1>0, <3>1
  <2>2. /\ SubSeq(f, k + 1, m) \in Seq(0..MaxTime)
        /\ Len(SubSeq(f, k + 1, m)) = IF k + 1 <= m THEN m - (k + 1) + 1 ELSE 0
        /\ \A i \in 1..(m - (k + 1) + 1) : SubSeq(f, k + 1, m)[i] = f[k + 1 + i - 1]
    BY <1>2, <2>1, SubSeqProperties
  <2> HIDE DEF r
  <2> QED BY <1>1, <1>2, <2>2
<1> HIDE DEF r
<1>4. EndOf(r, f)
  <2>1. ASSUME NEW n \in 1..Len(r) PROVE r[Len(r) - n + 1] = f[m - n + 1]
    <3>1. Len(r) - n + 1 \in 1..(m - k) /\ k + (Len(r) - n + 1) = m - n + 1  BY <1>2, <1>3
    <3> QED BY <1>3, <3>1
  <2> QED BY <1>2, <1>3, <2>1 DEF EndOf
<1>5. InWindow(r)
  <2> SUFFICES ASSUME NEW i \in 1..Len(r) PROVE now - r[i] <= Window  BY DEF InWindow
  <2>1. k + i \in 1..m /\ k + i > k /\ r[i] = f[k + i]  BY <1>2, <1>3
  <2> QED BY <1>1, <2>1
<1> QED BY <1>3, <1>4, <1>5 DEF r

---------------------------------------------------------------------------------
(* What the operations make of the breaker                                         *)

Slid(b) == [b EXCEPT !.failures = Recent(@)]

\* Sliding the window leaves a calm breaker calm.
LEMMA SlidIs ==
    ASSUME NEW b \in Breaker, NEW t, Log(t), Calm(b, t), now \in 0..MaxTime
    PROVE  /\ Slid(b) \in Breaker /\ Calm(Slid(b), t) /\ InWindow(Slid(b).failures)
           /\ Slid(b).state = b.state /\ Slid(b).opened_at = b.opened_at
           /\ Slid(b).probes_left = b.probes_left
<1> DEFINE f == b.failures  r == Recent(f)
<1>1. f \in Seq(0..MaxTime) /\ EndOf(f, t) /\ t \in Seq(0..MaxTime)
  BY DEF Breaker, Calm, Log
<1>2. Ordered(f) /\ Past(f)  BY <1>1, EndOfOrdered DEF Log
<1>3. now \in Nat  BY Numbers
<1>4. r \in Seq(0..MaxTime) /\ EndOf(r, f) /\ InWindow(r)  BY <1>1, <1>2, <1>3, RecentEnds
<1> HIDE DEF r
<1>5. /\ Slid(b).failures = r /\ Slid(b).state = b.state /\ Slid(b).opened_at = b.opened_at
      /\ Slid(b).probes_left = b.probes_left /\ Slid(b) \in Breaker
  BY <1>4 DEF Slid, Breaker, r
<1>6. EndOf(r, t)  BY <1>1, <1>4, EndOfEnd
<1>7. Len(r) \in Nat /\ Len(f) \in Nat /\ Len(r) <= Len(f)  BY <1>1, <1>4 DEF EndOf
<1>8. Len(r) >= Threshold => Opener(r) = Opener(f)
  BY <1>4, <1>7, Numbers DEF EndOf, Opener
<1>9. Calm(Slid(b), t)  BY <1>5, <1>6, <1>7, <1>8, Numbers DEF Calm
<1> QED BY <1>4, <1>5, <1>9

\* A call that is let through an open breaker finds fewer failures in the window than
\* would open it: it has been open for longer than the window.
LEMMA AllowedIs ==
    ASSUME NEW b \in Breaker, NEW t, Log(t), Calm(b, t), now \in 0..MaxTime, ~Refuses(b)
    PROVE  /\ Allowed(b) \in Breaker /\ Calm(Allowed(b), t)
           /\ b.state = "CLOSED" => Allowed(b).state = "CLOSED"
           /\ b.state = "OPEN" => Allowed(b).state = "HALF_OPEN" /\ Allowed(b).probes_left = Probes - 1
           /\ b.state = "HALF_OPEN" => /\ Allowed(b).state = "HALF_OPEN"
                                       /\ Allowed(b).probes_left = b.probes_left - 1
<1> DEFINE s == Slid(b)  a == Allowed(b)
<1>1. /\ s \in Breaker /\ Calm(s, t) /\ InWindow(s.failures)
      /\ s.state = b.state /\ s.opened_at = b.opened_at /\ s.probes_left = b.probes_left
  BY SlidIs
<1>2. b.state \in {"CLOSED", "OPEN", "HALF_OPEN"} /\ b.probes_left \in 0..Probes
      /\ b.opened_at \in Nat /\ now \in Nat /\ Len(s.failures) \in Nat
  BY <1>1, Numbers DEF Breaker
<1>3. CASE b.state = "CLOSED"
  <2>1. a = s  BY <1>3 DEF Allowed, Slid
  <2> QED BY <1>1, <1>3, <2>1
<1>4. CASE b.state = "OPEN"
  <2>1. a = [s EXCEPT !.state = "HALF_OPEN", !.probes_left = Probes - 1]
    BY <1>4 DEF Allowed, Slid
  <2> HIDE DEF s, a
  <2>2. Probes - 1 \in 0..Probes  BY Numbers
  <2>3. /\ a \in Breaker /\ a.state = "HALF_OPEN" /\ a.probes_left = Probes - 1
        /\ a.failures = s.failures
    BY <1>1, <2>1, <2>2 DEF Breaker
  <2>4. Len(s.failures) < Threshold
    <3> SUFFICES ASSUME Len(s.failures) >= Threshold PROVE FALSE  BY <1>2, Numbers
    <3> DEFINE i == Len(s.failures) - Threshold + 1
    <3>1. i \in 1..Len(s.failures)  BY <1>2, Numbers
    <3>2. now - s.failures[i] <= Window  BY <1>1, <3>1 DEF InWindow
    <3>3. s.failures[i] <= b.opened_at  BY <1>1, <1>4 DEF Calm, Opener
    <3>4. s.failures[i] \in Nat  BY <1>1, <3>1, Numbers DEF Breaker
    <3>5. now - b.opened_at >= OpenFor  BY <1>2, <1>4, Numbers DEF Refuses
    <3> HIDE DEF i
    <3> QED BY <1>2, <3>2, <3>3, <3>4, <3>5, Numbers
  <2>5. Calm(a, t)  BY <1>1, <2>3, <2>4 DEF Calm
  <2> QED BY <1>4, <2>3, <2>5 DEF a
<1>5. CASE b.state = "HALF_OPEN"
  <2>1. a = [s EXCEPT !.probes_left = s.probes_left - 1]  BY <1>5 DEF Allowed, Slid
  <2>2. b.probes_left - 1 \in 0..Probes  BY <1>2, <1>5, Numbers DEF Refuses
  <2> HIDE DEF s, a
  <2>3. /\ a \in Breaker /\ a.state = "HALF_OPEN" /\ a.probes_left = b.probes_left - 1
        /\ a.failures = s.failures
    BY <1>1, <1>5, <2>1, <2>2 DEF Breaker
  <2>4. Calm(a, t)  BY <1>1, <1>5, <2>3 DEF Calm
  <2> QED BY <1>5, <2>3, <2>4 DEF a
<1> QED BY <1>2, <1>3, <1>4, <1>5

\* A failure that opens the breaker is the last of a burst within the window.
LEMMA FailureIs ==
    ASSUME NEW b \in Breaker, NEW t, Log(t), Calm(b, t), now \in 0..MaxTime
    PROVE  /\ Failure(b) \in Breaker /\ Calm(Failure(b), Append(t, now))
           /\ Failure(b).probes_left = b.probes_left
           /\ Failure(b).state \in {b.state, "OPEN"}
           /\ b.state # "OPEN" /\ Failure(b).state = "OPEN" =>
                /\ Len(Append(t, now)) >= Threshold
                /\ now - Opener(Append(t, now)) <= Window
<1> DEFINE g == Append(b.failures, now)  q == Append(t, now)  kept == Recent(g)  d == Failure(b)
<1>1. b.failures \in Seq(0..MaxTime) /\ EndOf(b.failures, t) /\ t \in Seq(0..MaxTime)
  BY DEF Breaker, Calm, Log
<1>2. g \in Seq(0..MaxTime) /\ q \in Seq(0..MaxTime) /\ EndOf(g, q)
  BY <1>1, AppendedEnd, AppendProperties
<1>3. Log(q)  BY LogGoesOn
<1>4. Ordered(g) /\ Past(g)  BY <1>2, <1>3, EndOfOrdered DEF Log
<1> HIDE DEF g, q
<1>5. kept \in Seq(0..MaxTime) /\ EndOf(kept, g) /\ InWindow(kept)
  BY <1>2, <1>4, Numbers, RecentEnds
<1>6. EndOf(kept, q)  BY <1>2, <1>5, EndOfEnd
<1>7. d = IF Len(kept) >= Threshold
          THEN [b EXCEPT !.failures = kept, !.state = "OPEN", !.opened_at = now]
          ELSE [b EXCEPT !.failures = kept]
  BY DEF Failure, g
<1> HIDE DEF kept, d
<1>8. Len(kept) \in Nat /\ Len(q) \in Nat /\ Len(kept) <= Len(q)  BY <1>2, <1>5, <1>6 DEF EndOf
<1>9. CASE Len(kept) >= Threshold
  <2>1. /\ d \in Breaker /\ d.failures = kept /\ d.state = "OPEN" /\ d.opened_at = now
        /\ d.probes_left = b.probes_left
    BY <1>5, <1>7, <1>9 DEF Breaker
  <2>2. Len(kept) - Threshold + 1 \in 1..Len(kept)  BY <1>8, <1>9, Numbers
  <2>3. Opener(kept) = Opener(q)  BY <1>6, <1>8, <1>9, Numbers DEF EndOf, Opener
  <2>4. now - Opener(kept) <= Window  BY <1>5, <2>2 DEF InWindow, Opener
  <2>5. Ordered(kept) /\ Past(kept)  BY <1>2, <1>3, <1>5, <1>6, EndOfOrdered DEF Log
  <2>6. Opener(kept) <= now  BY <2>2, <2>5 DEF Past, Opener
  <2>7. Calm(d, q)  BY <1>6, <2>1, <2>6 DEF Calm
  <2>8. Len(q) >= Threshold  BY <1>8, <1>9, Numbers
  <2> QED BY <2>1, <2>3, <2>4, <2>7, <2>8 DEF d, q
<1>10. CASE ~(Len(kept) >= Threshold)
  <2>1. /\ d \in Breaker /\ d.failures = kept /\ d.state = b.state /\ d.probes_left = b.probes_left
    BY <1>5, <1>7, <1>10 DEF Breaker
  <2>2. Len(kept) < Threshold  BY <1>8, <1>10, Numbers
  <2>3. Calm(d, q)  BY <1>6, <1>10, <2>1, <2>2 DEF Calm
  <2> QED BY <2>1, <2>3 DEF d, q
<1> QED BY <1>9, <1>10

\* After a success the breaker is closed and the log begins anew.
LEMMA SuccessIs ==
    ASSUME NEW b \in Breaker, NEW t, Calm(b, t)
    PROVE  Success(b) \in Breaker /\ Calm(Success(b), << >>) /\ Success(b).state = "CLOSED"
<1>1. << >> \in Seq(0..MaxTime) /\ Len(<< >>) = 0 /\ 0 \in 0..MaxTime /\ 0 \in 0..Probes
  BY Numbers
<1>2. /\ Success(b) \in Breaker /\ Success(b).state = "CLOSED" /\ Success(b).failures = << >>
  BY <1>1 DEF Success, Breaker
<1>3. EndOf(<< >>, << >>)  BY <1>1 DEF EndOf
<1> QED BY <1>2, <1>3 DEF Calm

---------------------------------------------------------------------------------
(* The steps of the guard                                                          *)

CallRecord == [pc : {"outside", "calling", "backoff"}, attempt : 0..MaxRetries,
               since : 0..MaxTime, over : BOOLEAN]

\* What OpenNeedsBurst asks of a step.
Burst ==
    breaker.state # "OPEN" /\ breaker'.state = "OPEN" =>
        Len(failedAt') >= Threshold /\ now - Opener(failedAt') <= Window

LEMMA CallersCounted ==
    /\ Cardinality(Callers) \in Nat /\ Cardinality(Callers) >= 1
    /\ \A S \in SUBSET Callers : /\ IsFiniteSet(S) /\ Cardinality(S) \in Nat
                                 /\ Cardinality(S) <= Cardinality(Callers)
<1>1. IsFiniteSet(Callers) /\ Callers # {}  BY GuardAssumption
<1>2. Cardinality(Callers) \in Nat /\ Cardinality(Callers) # 0
  BY <1>1, FS_CardinalityType, FS_EmptySet
<1>3. ASSUME NEW S \in SUBSET Callers
      PROVE  IsFiniteSet(S) /\ Cardinality(S) \in Nat /\ Cardinality(S) <= Cardinality(Callers)
  BY <1>1, FS_Subset, FS_CardinalityType
<1> QED BY <1>2, <1>3

LEMMA GuardInitHolds == GuardInit => GuardInv
<1> SUFFICES ASSUME GuardInit PROVE GuardInv  OBVIOUS
<1>1. << >> \in Seq(0..MaxTime) /\ Len(<< >>) = 0 /\ 0 \in 0..MaxTime /\ 0 \in 0..Probes
      /\ 0 \in 0..MaxRetries /\ 0 \in 0..MaxFaults
  BY Numbers
<1>2. Outside \in CallRecord /\ Outside.pc = "outside" /\ Outside.over = FALSE
  BY <1>1 DEF Outside, CallRecord
<1>3. GuardTypeOK
  BY <1>1, <1>2 DEF GuardInit, GuardTypeOK, CallRecord
<1>4. Log(failedAt)  BY <1>1 DEF GuardInit, Log, Ordered, Past
<1>5. Calm(breaker, failedAt)  BY <1>1 DEF GuardInit, Calm, EndOf
<1>6. \A c \in Callers : Placed(c)  BY <1>2 DEF GuardInit, Placed
<1>7. InFlight = {}  BY <1>2 DEF GuardInit, InFlight
<1>8. QuotaInv  BY <1>7, CallersCounted, Numbers, FS_EmptySet DEF GuardInit, QuotaInv
<1>9. ProbeBudget  BY DEF GuardInit, ProbeBudget
<1> QED BY <1>3, <1>4, <1>5, <1>6, <1>8, <1>9 DEF GuardInv

\* The parts of the invariant after a step that takes no time.
LEMMA TimelessStep ==
    ASSUME now' = now, GuardTypeOK', Log(failedAt'), Calm(breaker', failedAt'),
           \A c \in Callers : Placed(c)', QuotaInv', ProbeBudget'
    PROVE  GuardInv'
<1>1. Log(failedAt)'  BY DEF Log, Ordered, Past
<1>2. Calm(breaker, failedAt)'  BY DEF Calm, EndOf, Opener
<1> QED BY <1>1, <1>2 DEF GuardInv

\* No call takes off: the room in the quota stays.
LEMMA NoneTakesOff ==
    ASSUME GuardInv, UNCHANGED quota, InFlight' \subseteq InFlight
    PROVE  QuotaInv'
<1>1. InFlight \in SUBSET Callers /\ InFlight' \in SUBSET Callers  BY DEF InFlight
<1>2. IsFiniteSet(InFlight) /\ Cardinality(InFlight) \in Nat /\ Cardinality(InFlight') \in Nat
      /\ Cardinality(Callers) \in Nat
  BY <1>1, CallersCounted
<1>3. Cardinality(InFlight') <= Cardinality(InFlight)  BY <1>2, FS_Subset
<1>4. UNCHANGED <<usage, answered, faults>>  BY DEF quota
<1>5. usage \in Nat /\ answered \in Nat /\ faults \in Nat
  BY Numbers DEF GuardInv, GuardTypeOK
<1> QED BY <1>2, <1>3, <1>4, <1>5, Numbers DEF GuardInv, QuotaInv

\* What the breaker is when it has let a call in.
LEMMA AdmitIs ==
    ASSUME GuardInv, NEW c \in Callers, Admit(c)
    PROVE  /\ Allowed(breaker) \in Breaker /\ Calm(Allowed(breaker), failedAt)
           /\ Allowed(breaker).state # "OPEN" /\ probed' \in Nat
           /\ Allowed(breaker).state = "HALF_OPEN" => probed' + Allowed(breaker).probes_left = Probes
<1> DEFINE a == Allowed(breaker)
<1>1. /\ breaker \in Breaker /\ Log(failedAt) /\ Calm(breaker, failedAt) /\ now \in 0..MaxTime
      /\ ~Refuses(breaker) /\ probed \in Nat
  BY DEF GuardInv, GuardTypeOK, Admit, Breaker
<1>2. /\ a \in Breaker /\ Calm(a, failedAt)
      /\ breaker.state = "CLOSED" => a.state = "CLOSED"
      /\ breaker.state = "OPEN" => a.state = "HALF_OPEN" /\ a.probes_left = Probes - 1
      /\ breaker.state = "HALF_OPEN" => /\ a.state = "HALF_OPEN"
                                        /\ a.probes_left = breaker.probes_left - 1
  BY <1>1, AllowedIs
<1> HIDE DEF a
<1>3. breaker.state \in {"CLOSED", "OPEN", "HALF_OPEN"} /\ breaker.probes_left \in Nat
  BY <1>1, Numbers DEF Breaker
<1>4. /\ breaker.state = "CLOSED" => probed' = 0
      /\ breaker.state = "OPEN" => probed' = 1
      /\ breaker.state = "HALF_OPEN" => probed' = probed + 1
  BY DEF Admit
<1>5. breaker.state = "HALF_OPEN" => probed + breaker.probes_left = Probes
  BY DEF GuardInv, ProbeBudget
<1>6. /\ a \in Breaker /\ Calm(a, failedAt) /\ a.state # "OPEN" /\ probed' \in Nat
      /\ a.state = "HALF_OPEN" => probed' + a.probes_left = Probes
  BY <1>1, <1>2, <1>3, <1>4, <1>5, Numbers
<1> QED BY <1>6 DEF a

\* What a failed attempt leaves behind.
LEMMA AttemptFails ==
    ASSUME GuardInv, NEW c \in Callers, NEW b \in Breaker, Calm(b, failedAt),
           NEW this \in CallRecord, this.pc = "calling", FailedAttempt(c, b, this)
    PROVE  /\ breaker' \in Breaker /\ failedAt' \in Seq(0..MaxTime)
           /\ Log(failedAt') /\ Calm(breaker', failedAt')
           /\ call' \in [Callers -> CallRecord] /\ \A d \in Callers : Placed(d)'
           /\ \A d \in Callers \ {c} : call'[d] = call[d]
           /\ call'[c].pc # "outside" => call'[c].over = this.over
           /\ breaker'.probes_left = b.probes_left /\ breaker'.state \in {b.state, "OPEN"}
           /\ b.state # "OPEN" /\ breaker'.state = "OPEN" =>
                Len(failedAt') >= Threshold /\ now - Opener(failedAt') <= Window
<1>1. Log(failedAt) /\ now \in 0..MaxTime /\ call \in [Callers -> CallRecord]
      /\ \A d \in Callers : Placed(d)
  BY DEF GuardInv, GuardTypeOK, CallRecord
<1>2. breaker' = Failure(b) /\ failedAt' = Append(failedAt, now)  BY DEF FailedAttempt
<1>3. /\ breaker' \in Breaker /\ Calm(breaker', failedAt')
      /\ breaker'.probes_left = b.probes_left /\ breaker'.state \in {b.state, "OPEN"}
      /\ b.state # "OPEN" /\ breaker'.state = "OPEN" =>
           Len(failedAt') >= Threshold /\ now - Opener(failedAt') <= Window
  BY <1>1, <1>2, FailureIs
<1>4. Log(failedAt')  BY <1>1, <1>2, LogGoesOn
<1>5. failedAt' \in Seq(0..MaxTime)  BY <1>4 DEF Log
<1> DEFINE next == IF this.attempt < MaxRetries THEN [this EXCEPT !.pc = "backoff"] ELSE Outside
<1>6. call' = [call EXCEPT ![c] = next]  BY DEF FailedAttempt
<1>7. /\ next \in CallRecord
      /\ next.over => next.pc = "backoff"
      /\ next.pc = "backoff" => next.attempt < MaxRetries
      /\ next.pc # "outside" => next.over = this.over
  BY Numbers DEF CallRecord, Outside
<1> HIDE DEF next
<1>8. call' \in [Callers -> CallRecord] /\ call'[c] = next
      /\ \A d \in Callers \ {c} : call'[d] = call[d]
  BY <1>1, <1>6, <1>7
<1>9. \A d \in Callers : Placed(d)'  BY <1>1, <1>7, <1>8 DEF Placed
<1> QED BY <1>3, <1>4, <1>5, <1>7, <1>8, <1>9

LEMMA StartStep ==
    ASSUME GuardInv, NEW c \in Callers, Start(c)
    PROVE  GuardInv' /\ Burst
<1> DEFINE new == [pc |-> "calling", attempt |-> 0, since |-> now, over |-> FALSE]
<1>1. now \in 0..MaxTime /\ call \in [Callers -> CallRecord] /\ usage \in Nat /\ answered \in Nat
      /\ faults \in 0..MaxFaults /\ faults \in Nat /\ MaxFaults \in Nat
      /\ \A d \in Callers : Placed(d)
  BY Numbers DEF GuardInv, GuardTypeOK, CallRecord
<1>2. /\ now' = now /\ usage' = usage /\ answered' = answered /\ breaker' = Allowed(breaker)
      /\ failedAt' = failedAt /\ call' = [call EXCEPT ![c] = new] /\ call[c] = Outside
      /\ \/ usage < Quota /\ faults' = faults
         \/ faults' = faults + 1 /\ faults < MaxFaults
  BY DEF Start, Admit, HasQuota, Fault
<1>3. /\ breaker' \in Breaker /\ Calm(breaker', failedAt') /\ breaker'.state # "OPEN"
      /\ probed' \in Nat
      /\ breaker'.state = "HALF_OPEN" => probed' + breaker'.probes_left = Probes
  BY <1>2, AdmitIs DEF Start
<1>4. new \in CallRecord /\ new.pc = "calling" /\ new.over = FALSE
  BY <1>1, Numbers DEF CallRecord
<1> HIDE DEF new
<1>5. call' \in [Callers -> CallRecord] /\ \A d \in Callers : call'[d] = IF d = c THEN new ELSE call[d]
  BY <1>1, <1>2, <1>4
<1>6. GuardTypeOK'
  <2>1. faults' \in 0..MaxFaults  BY <1>1, <1>2
  <2> QED BY <1>1, <1>2, <1>3, <1>5, <2>1 DEF GuardTypeOK, GuardInv, Breaker, CallRecord
<1>7. \A d \in Callers : Placed(d)'  BY <1>1, <1>4, <1>5 DEF Placed
<1>8. QuotaInv'
  <2>1. InFlight \in SUBSET Callers /\ InFlight' \in SUBSET Callers  BY DEF InFlight
  <2>2. /\ Cardinality(InFlight') \in Nat /\ Cardinality(InFlight') <= Cardinality(Callers)
        /\ IsFiniteSet(InFlight) /\ Cardinality(InFlight) \in Nat
        /\ Cardinality(Callers) \in Nat
    BY <2>1, CallersCounted
  <2>3. CASE usage < Quota /\ faults' = faults
    BY <1>1, <1>2, <2>2, <2>3, Numbers DEF GuardInv, QuotaInv
  <2>4. CASE faults' = faults + 1
    <3>1. InFlight' = InFlight \cup {c} /\ c \notin InFlight
      BY <1>2, <1>4, <1>5 DEF InFlight, Outside
    <3>2. Cardinality(InFlight') = Cardinality(InFlight) + 1
      BY <2>2, <3>1, FS_AddElement
    <3> QED BY <1>1, <1>2, <2>2, <2>4, <3>2, Numbers DEF GuardInv, QuotaInv
  <2> QED BY <1>2, <2>3, <2>4
<1>9. Log(failedAt')  BY <1>2 DEF GuardInv
<1>10. ProbeBudget' /\ Burst  BY <1>3 DEF ProbeBudget, Burst
<1> QED BY <1>2, <1>3, <1>6, <1>7, <1>8, <1>9, <1>10, TimelessStep

LEMMA StartOverQuotaStep ==
    ASSUME GuardInv, NEW c \in Callers, StartOverQuota(c)
    PROVE  GuardInv' /\ Burst
<1> DEFINE b == Allowed(breaker)
           this == [pc |-> "calling", attempt |-> 0, since |-> now, over |-> TRUE]
<1>1. now \in 0..MaxTime  BY DEF GuardInv, GuardTypeOK
<1>2. this \in CallRecord /\ this.pc = "calling" /\ this.over = TRUE
  BY <1>1, Numbers DEF CallRecord
<1>3. FailedAttempt(c, b, this) /\ now' = now /\ UNCHANGED quota /\ call[c] = Outside
  BY DEF StartOverQuota, Admit
<1>4. /\ b \in Breaker /\ Calm(b, failedAt) /\ b.state # "OPEN" /\ probed' \in Nat
      /\ b.state = "HALF_OPEN" => probed' + b.probes_left = Probes
  BY AdmitIs DEF StartOverQuota
<1> HIDE DEF b, this
<1>5. /\ breaker' \in Breaker /\ failedAt' \in Seq(0..MaxTime)
      /\ Log(failedAt') /\ Calm(breaker', failedAt')
      /\ call' \in [Callers -> CallRecord] /\ \A d \in Callers : Placed(d)'
      /\ \A d \in Callers \ {c} : call'[d] = call[d]
      /\ call'[c].pc # "outside" => call'[c].over = this.over
      /\ breaker'.probes_left = b.probes_left /\ breaker'.state \in {b.state, "OPEN"}
      /\ b.state # "OPEN" /\ breaker'.state = "OPEN" =>
           Len(failedAt') >= Threshold /\ now - Opener(failedAt') <= Window
  BY <1>2, <1>3, <1>4, AttemptFails
<1>6. GuardTypeOK'
  BY <1>1, <1>3, <1>4, <1>5 DEF quota, GuardTypeOK, GuardInv, Breaker, CallRecord
<1>7. InFlight' \subseteq InFlight  BY <1>2, <1>5 DEF InFlight
<1>8. QuotaInv'  BY <1>3, <1>7, NoneTakesOff
<1>9. ProbeBudget'  BY <1>4, <1>5 DEF ProbeBudget
<1>10. Burst  BY <1>4, <1>5 DEF Burst
<1> QED BY <1>3, <1>5, <1>6, <1>8, <1>9, <1>10, TimelessStep

\* A failed attempt of a call that had been let in before.
LEMMA LaterFailure ==
    ASSUME GuardInv, NEW c \in Callers, NEW this \in CallRecord, this.pc = "calling",
           this.over = call[c].over, call[c].pc # "outside",
           FailedAttempt(c, breaker, this), UNCHANGED <<now, quota, probed>>
    PROVE  GuardInv' /\ Burst
<1>1. breaker \in Breaker /\ Calm(breaker, failedAt) /\ now \in 0..MaxTime /\ probed \in Nat
      /\ usage \in Nat
  BY DEF GuardInv, GuardTypeOK, Breaker
<1>2. /\ breaker' \in Breaker /\ failedAt' \in Seq(0..MaxTime)
      /\ Log(failedAt') /\ Calm(breaker', failedAt')
      /\ call' \in [Callers -> CallRecord] /\ \A d \in Callers : Placed(d)'
      /\ \A d \in Callers \ {c} : call'[d] = call[d]
      /\ call'[c].pc # "outside" => call'[c].over = this.over
      /\ breaker'.probes_left = breaker.probes_left /\ breaker'.state \in {breaker.state, "OPEN"}
      /\ breaker.state # "OPEN" /\ breaker'.state = "OPEN" =>
           Len(failedAt') >= Threshold /\ now - Opener(failedAt') <= Window
  BY <1>1, AttemptFails
<1>3. GuardTypeOK'  BY <1>1, <1>2 DEF quota, GuardInv, GuardTypeOK, Breaker, CallRecord
<1>4. InFlight' \subseteq InFlight  BY <1>2 DEF InFlight
<1>5. QuotaInv'  BY <1>4, NoneTakesOff
<1>6. ProbeBudget'  BY <1>2 DEF ProbeBudget, GuardInv
<1>7. Burst  BY <1>2 DEF Burst
<1> QED BY <1>2, <1>3, <1>5, <1>6, <1>7, TimelessStep

\* The steps that leave the breaker and its log alone, but for the calls.
LEMMA CallMoves ==
    ASSUME GuardInv, NEW c \in Callers, NEW this \in CallRecord,
           call' = [call EXCEPT ![c] = this],
           this.over => this.pc = "backoff",
           this.pc = "backoff" => this.attempt < MaxRetries,
           this.pc # "outside" => call[c].pc # "outside" /\ this.over = call[c].over,
           UNCHANGED <<now, breaker, quota, probed, failedAt>>
    PROVE  GuardInv' /\ Burst
<1>1. call \in [Callers -> CallRecord] /\ \A d \in Callers : Placed(d)
  BY DEF GuardInv, GuardTypeOK, CallRecord
<1>2. call' \in [Callers -> CallRecord]
      /\ \A d \in Callers : call'[d] = IF d = c THEN this ELSE call[d]
  BY <1>1
<1>3. GuardTypeOK'  BY <1>2 DEF quota, GuardInv, GuardTypeOK, CallRecord
<1>4. \A d \in Callers : Placed(d)'  BY <1>1, <1>2 DEF Placed
<1>5. InFlight' \subseteq InFlight  BY <1>2 DEF InFlight
<1>6. QuotaInv'  BY <1>5, NoneTakesOff
<1>7. Log(failedAt') /\ Calm(breaker', failedAt') /\ ProbeBudget' /\ Burst
  BY DEF GuardInv, ProbeBudget, Burst
<1> QED BY <1>3, <1>4, <1>6, <1>7, TimelessStep

LEMMA SkippedStep ==
    ASSUME GuardInv, NEW c \in Callers, Skipped(c)
    PROVE  GuardInv' /\ Burst
<1>1. breaker \in Breaker /\ Log(failedAt) /\ Calm(breaker, failedAt) /\ now \in 0..MaxTime
  BY DEF GuardInv, GuardTypeOK, Breaker
<1>2. breaker' = Slid(breaker) /\ UNCHANGED <<now, call, quota, probed, failedAt>>
  BY DEF Skipped, Slid
<1>3. /\ breaker' \in Breaker /\ Calm(breaker', failedAt') /\ breaker'.state = breaker.state
      /\ breaker'.probes_left = breaker.probes_left
  BY <1>1, <1>2, SlidIs
<1>4. GuardTypeOK'  BY <1>2, <1>3 DEF quota, GuardInv, GuardTypeOK, Breaker
<1>5. \A d \in Callers : Placed(d)'  BY <1>2 DEF GuardInv, Placed
<1>6. InFlight' \subseteq InFlight  BY <1>2 DEF InFlight
<1>7. QuotaInv'  BY <1>2, <1>6, NoneTakesOff
<1>8. Log(failedAt')  BY <1>1, <1>2
<1>9. ProbeBudget' /\ Burst  BY <1>2, <1>3 DEF GuardInv, ProbeBudget, Burst
<1> QED BY <1>2, <1>3, <1>4, <1>5, <1>7, <1>8, <1>9, TimelessStep

LEMMA SucceedStep ==
    ASSUME GuardInv, NEW c \in Callers, Succeed(c)
    PROVE  GuardInv' /\ Burst
<1>1. /\ breaker \in Breaker /\ Calm(breaker, failedAt) /\ now \in 0..MaxTime
      /\ call \in [Callers -> CallRecord] /\ usage \in Nat /\ answered \in Nat
      /\ faults \in 0..MaxFaults /\ faults \in Nat /\ MaxFaults \in Nat /\ \A d \in Callers : Placed(d)
  BY Numbers DEF GuardInv, GuardTypeOK, Breaker, CallRecord
<1>2. /\ call[c].pc = "calling" /\ breaker' = Success(breaker) /\ answered' = answered + 1
      /\ \/ usage' = usage + 1 /\ faults' = faults
         \/ usage' = usage /\ faults' = faults + 1 /\ faults < MaxFaults
      /\ failedAt' = << >> /\ call' = [call EXCEPT ![c] = Outside] /\ UNCHANGED <<now, probed>>
  BY DEF Succeed, Fault
<1>3. breaker' \in Breaker /\ Calm(breaker', failedAt') /\ breaker'.state = "CLOSED"
  BY <1>1, <1>2, SuccessIs
<1>4. Outside \in CallRecord /\ Outside.pc = "outside" /\ Outside.over = FALSE
  BY Numbers DEF Outside, CallRecord
<1>5. call' \in [Callers -> CallRecord]
      /\ \A d \in Callers : call'[d] = IF d = c THEN Outside ELSE call[d]
  BY <1>1, <1>2, <1>4
<1>6. << >> \in Seq(0..MaxTime) /\ Len(<< >>) = 0  OBVIOUS
<1>7. Log(failedAt')  BY <1>2, <1>6 DEF Log, Ordered, Past
<1>8. GuardTypeOK'
  <2>1. usage' \in Nat /\ answered' \in Nat /\ faults' \in 0..MaxFaults  BY <1>1, <1>2
  <2> QED BY <1>1, <1>2, <1>3, <1>5, <1>6, <2>1 DEF GuardInv, GuardTypeOK, Breaker, CallRecord
<1>9. \A d \in Callers : Placed(d)'  BY <1>1, <1>4, <1>5 DEF Placed
<1>10. QuotaInv'
  <2>1. c \in InFlight  BY <1>1, <1>2 DEF InFlight, Placed
  <2>2. InFlight' = InFlight \ {c}  BY <1>4, <1>5 DEF InFlight
  <2>3. InFlight \in SUBSET Callers  BY DEF InFlight
  <2>4. IsFiniteSet(InFlight) /\ Cardinality(InFlight) \in Nat /\ Cardinality(Callers) \in Nat
    BY <2>3, CallersCounted
  <2>5. Cardinality(InFlight \ {c}) = Cardinality(InFlight) - 1
    BY <2>1, <2>4, FS_RemoveElement
  <2>6. Cardinality(InFlight') = Cardinality(InFlight) - 1  BY <2>2, <2>5
  <2> QED BY <1>1, <1>2, <2>4, <2>6, Numbers DEF GuardInv, QuotaInv
<1>11. ProbeBudget' /\ Burst  BY <1>3 DEF ProbeBudget, Burst
<1> QED BY <1>2, <1>3, <1>7, <1>8, <1>9, <1>10, <1>11, TimelessStep

\* A retry of a call that had no quota fails at once; any other calls the provider.
LEMMA RetryStep ==
    ASSUME GuardInv, NEW c \in Callers, Retry(c)
    PROVE  GuardInv' /\ Burst
<1> DEFINE this == [call[c] EXCEPT !.pc = "calling", !.attempt = call[c].attempt + 1]
<1>1. call[c] \in CallRecord /\ Placed(c)
  BY DEF GuardInv, GuardTypeOK, CallRecord
<1>2. call[c].pc = "backoff" /\ UNCHANGED <<now, quota, probed>>
  BY DEF Retry
<1>3. IF this.over THEN FailedAttempt(c, breaker, this)
      ELSE call' = [call EXCEPT ![c] = this] /\ UNCHANGED <<breaker, failedAt>>
  BY DEF Retry
<1>4. call[c].attempt + 1 \in 0..MaxRetries
  BY <1>1, <1>2, Numbers DEF Placed, CallRecord
<1>5. this \in CallRecord /\ this.pc = "calling" /\ this.over = call[c].over
  BY <1>1, <1>4 DEF CallRecord
<1> HIDE DEF this
<1>6. CASE this.over
  BY <1>2, <1>3, <1>5, <1>6, LaterFailure
<1>7. CASE ~this.over
  BY <1>2, <1>3, <1>5, <1>7, CallMoves
<1> QED BY <1>6, <1>7

\* Time passes: the failures are as far in the past as ever, or farther.
LEMMA GuardTickStep ==
    ASSUME GuardInv, GuardTick
    PROVE  GuardInv' /\ Burst
<1>1. now \in 0..MaxTime /\ now < MaxTime /\ now' = now + 1
      /\ UNCHANGED <<breaker, call, quota, probed, failedAt>> /\ Log(failedAt)
  BY DEF GuardInv, GuardTypeOK, GuardTick
<1>2. now' \in 0..MaxTime /\ now <= now'  BY <1>1, Numbers
<1>3. \A i \in 1..Len(failedAt) : failedAt[i] \in 0..MaxTime
  BY <1>1, ElementOfSeq DEF Log
<1>4. Past(failedAt)'  BY <1>1, <1>3, Numbers DEF Log, Past
<1>5. Log(failedAt)'  BY <1>1, <1>4 DEF Log, Ordered
<1>6. Calm(breaker, failedAt)'  BY <1>1 DEF GuardInv, Calm, EndOf, Opener
<1>7. GuardTypeOK'  BY <1>1, <1>2 DEF quota, GuardInv, GuardTypeOK
<1>8. \A c \in Callers : Placed(c)'  BY <1>1 DEF GuardInv, Placed
<1>9. QuotaInv' /\ ProbeBudget' /\ Burst
  BY <1>1 DEF quota, GuardInv, QuotaInv, InFlight, ProbeBudget, Burst
<1> QED BY <1>5, <1>6, <1>7, <1>8, <1>9 DEF GuardInv

LEMMA GuardNextInv == GuardInv /\ [GuardNext]_guardVars => GuardInv' /\ Burst
<1> SUFFICES ASSUME GuardInv, [GuardNext]_guardVars PROVE GuardInv' /\ Burst
  OBVIOUS
<1>1. ASSUME NEW c \in Callers, Start(c) PROVE GuardInv' /\ Burst
  BY <1>1, StartStep
<1>2. ASSUME NEW c \in Callers, StartOverQuota(c) PROVE GuardInv' /\ Burst
  BY <1>2, StartOverQuotaStep
<1>3. ASSUME NEW c \in Callers, Skipped(c) PROVE GuardInv' /\ Burst
  BY <1>3, SkippedStep
<1>4. ASSUME NEW c \in Callers, Succeed(c) PROVE GuardInv' /\ Burst
  BY <1>4, SucceedStep
<1>5. ASSUME NEW c \in Callers, Fail(c) PROVE GuardInv' /\ Burst
  <2>1. call[c] \in CallRecord /\ call[c].pc = "calling" /\ call[c].pc # "outside"
    BY <1>5 DEF Fail, GuardInv, GuardTypeOK, CallRecord
  <2>2. FailedAttempt(c, breaker, call[c]) /\ UNCHANGED <<now, quota, probed>>
    BY <1>5 DEF Fail
  <2> QED BY <2>1, <2>2, LaterFailure
<1>6. ASSUME NEW c \in Callers, Retry(c) PROVE GuardInv' /\ Burst
  BY <1>6, RetryStep
<1>7. ASSUME NEW c \in Callers, Cancel(c) PROVE GuardInv' /\ Burst
  <2>1. Outside \in CallRecord /\ Outside.pc = "outside" /\ Outside.over = FALSE
    BY Numbers DEF Outside, CallRecord
  <2>2. call' = [call EXCEPT ![c] = Outside] /\ UNCHANGED <<now, breaker, quota, probed, failedAt>>
    BY <1>7 DEF Cancel
  <2> QED BY <2>1, <2>2, CallMoves
<1>8. CASE GuardTick
  BY <1>8, GuardTickStep
<1>9. CASE UNCHANGED guardVars
  <2>1. UNCHANGED <<now, breaker, call, quota, probed, failedAt>>  BY <1>9 DEF guardVars
  <2>2. GuardTypeOK'  BY <2>1 DEF quota, GuardInv, GuardTypeOK
  <2>3. Log(failedAt') /\ Calm(breaker', failedAt')  BY <2>1 DEF GuardInv
  <2>4. \A c \in Callers : Placed(c)'  BY <2>1 DEF GuardInv, Placed
  <2>5. QuotaInv' /\ ProbeBudget' /\ Burst
    BY <2>1 DEF quota, GuardInv, QuotaInv, InFlight, ProbeBudget, Burst
  <2> QED BY <2>1, <2>2, <2>3, <2>4, <2>5, TimelessStep
<1> QED
  BY <1>1, <1>2, <1>3, <1>4, <1>5, <1>6, <1>7, <1>8, <1>9 DEF GuardNext

LEMMA GuardInvAlways == GuardSpec => []GuardInv
<1>1. GuardInv /\ [GuardNext]_guardVars => GuardInv'
  BY GuardNextInv
<1> QED BY <1>1, GuardInitHolds, PTL DEF GuardSpec

---------------------------------------------------------------------------------
(* The theorems of the guard                                                       *)

\* Type correctness: a probe is never spent that is not there, and no call makes more
\* attempts than max_retries allows.
THEOREM GuardTypeCorrect == GuardSpec => []GuardTypeOK
<1>1. GuardInv => GuardTypeOK  BY DEF GuardInv
<1> QED BY <1>1, GuardInvAlways, PTL

\* The calls a half-open breaker let in and the probes it has left are its budget.
THEOREM ProbesAreBudgeted == GuardSpec => []ProbeBudget
<1>1. GuardInv => ProbeBudget  BY DEF GuardInv
<1> QED BY <1>1, GuardInvAlways, PTL

\* A half-open breaker is one failure or more short of opening.
THEOREM HalfOpenIsQuiet == GuardSpec => []HalfOpenQuiet
<1>1. GuardInv => HalfOpenQuiet
  <2> SUFFICES ASSUME GuardInv, breaker.state = "HALF_OPEN"
               PROVE  Len(Recent(breaker.failures)) < Threshold
    BY DEF HalfOpenQuiet
  <2> DEFINE f == breaker.failures  r == Recent(f)
  <2>1. f \in Seq(0..MaxTime) /\ EndOf(f, failedAt) /\ failedAt \in Seq(0..MaxTime)
        /\ now \in Nat /\ Len(f) < Threshold /\ Ordered(failedAt) /\ Past(failedAt)
    BY Numbers DEF GuardInv, GuardTypeOK, Calm, Log
  <2>2. Ordered(f)  BY <2>1, EndOfOrdered
  <2>3. r \in Seq(0..MaxTime) /\ EndOf(r, f)  BY <2>1, <2>2, RecentEnds
  <2> HIDE DEF f, r
  <2>4. Len(r) \in Nat /\ Len(f) \in Nat /\ Len(r) <= Len(f)  BY <2>1, <2>3 DEF EndOf
  <2>5. Len(r) < Threshold  BY <2>1, <2>4, Numbers
  <2> QED BY <2>5 DEF f, r
<1> QED BY <1>1, GuardInvAlways, PTL

\* The calls the provider answers exceed the quota of a month by the other messages in
\* flight and the failed statements on ai_usage, and no more, for any number of callers,
\* however their calls fail, are retried or are cancelled.
THEOREM QuotaIsBounded == GuardSpec => []QuotaOvershoot
<1>1. GuardInv => QuotaOvershoot
  <2> SUFFICES ASSUME GuardInv PROVE QuotaOvershoot  OBVIOUS
  <2>1. InFlight \in SUBSET Callers  BY DEF InFlight
  <2>2. Cardinality(InFlight) \in Nat /\ Cardinality(Callers) \in Nat
        /\ answered \in Nat /\ faults \in Nat
    BY <2>1, CallersCounted, Numbers DEF GuardInv, GuardTypeOK
  <2> QED BY <2>2, Numbers DEF GuardInv, QuotaInv, QuotaOvershoot
<1> QED BY <1>1, GuardInvAlways, PTL

\* The breaker opens on failure_threshold failures in a row within one window.
THEOREM BurstsOpen == GuardSpec => OpenNeedsBurst
<1> DEFINE A == breaker.state # "OPEN" /\ breaker'.state = "OPEN"
                  => /\ Len(failedAt') >= Threshold
                     /\ now - failedAt'[Len(failedAt') - Threshold + 1] <= Window
<1>1. GuardInv /\ [GuardNext]_guardVars => [A]_guardVars
  BY GuardNextInv DEF Burst, Opener
<1>2. GuardSpec => [][A]_guardVars
  BY <1>1, GuardInvAlways, PTL DEF GuardSpec
<1> QED BY <1>2 DEF OpenNeedsBurst
=================================================================================
