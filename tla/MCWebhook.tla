------------------------------- MODULE MCWebhook ---------------------------------
(* An instance for TLC of what the webhook keeps: the pipeline of a few updates,   *)
(* whose cache never comes to trim, and the cache alone on a long stream of them.  *)
(* They share no state: one of them moves and the other is as it started.          *)
EXTENDS UpdatePipeline, SeenUpdates

CONSTANTS u1, u2

WebhookInit == Init /\ SeenInit

WebhookNext ==
    \/ Next /\ SeenInit /\ UNCHANGED seenVars
    \/ SeenNext /\ Init /\ UNCHANGED vars

WebhookSpec == WebhookInit /\ [][WebhookNext]_<<vars, seenVars>> /\ Fairness
=================================================================================
