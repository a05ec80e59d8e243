----------------------------- MODULE MCWebhooks -----------------------------
(* A dead letter written by the service next to an emission, a delivery job or *)
(* a second dead letter; two replays of different kinds.                       *)
EXTENDS Webhooks

MCDeliveries == {1, 2}
MCPaths == {<<"writer", p>> : p \in {"emit", "job", "writer"}}
MCReplays == {1, 2}
MCKinds == {<<"batch", "job">>, <<"batch", "resolve">>, <<"one", "job">>}
=============================================================================
