------------------------- MODULE MCBackgroundWorker -------------------------
(* The worker with every caller of the queue: two jobs, two slots, room for *)
(* two ids, one retry.                                                      *)
EXTENDS BackgroundWorker
=============================================================================
