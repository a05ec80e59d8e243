--------------------------- MODULE MCTxSubmitter ---------------------------
(* Two submissions, and a process that may crash and whose statements may fail. *)
EXTENDS TxSubmitter
=============================================================================
