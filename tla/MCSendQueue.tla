------------------------------- MODULE MCSendQueue -------------------------------
(* An instance of SendQueue for TLC.                                               *)
EXTENDS SendQueue, Backoff

CONSTANTS m1, m2, m3, a, b

\* Two messages to one chat and one to another.
Destination == [m \in Messages |-> IF m = m3 THEN b ELSE a]

\* The defaults' kind of jitter; Telegram asks for two ticks.
FullBackoffs == [n \in 1..(MaxAttempts + 1) |-> Delays("full", n)]
TwoTicks == Jittered(2)
=================================================================================
