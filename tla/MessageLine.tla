------------------------------- MODULE MessageLine -------------------------------
(* What the send queue promises, without caps, errors, retries or a bound: messages *)
(* form one line, each joins it once at most, and only the first of the line leaves *)
(* it, sent or dropped.  No message is sent before one that joined earlier, nor     *)
(* again, and a retry does not let the others pass.                                 *)
EXTENDS Naturals, Sequences

CONSTANT Messages

VARIABLES
    line,           \* the messages that have joined and not left, in the order they did
    outcome         \* what each message left as

TypeOK ==
    /\ line \in Seq(Messages)
    /\ outcome \in [Messages -> {"none", "sent", "dropped"}]

Init ==
    /\ line = << >>
    /\ outcome = [m \in Messages |-> "none"]

InLine(m) == \E i \in DOMAIN line : line[i] = m

Join(m) ==
    /\ outcome[m] = "none" /\ ~InLine(m)
    /\ line' = Append(line, m)
    /\ UNCHANGED outcome

Leave(as) ==
    /\ line # << >>
    /\ line' = Tail(line)
    /\ outcome' = [outcome EXCEPT ![Head(line)] = as]

\* Whoever had it to send goes away before it has joined.
Withdraw(m) ==
    /\ outcome[m] = "none" /\ ~InLine(m)
    /\ outcome' = [outcome EXCEPT ![m] = "dropped"]
    /\ UNCHANGED line

Next ==
    \/ \E m \in Messages : Join(m) \/ Withdraw(m)
    \/ Leave("sent") \/ Leave("dropped")

Spec == Init /\ [][Next]_<<line, outcome>>
=================================================================================
