---------------------------- MODULE MCSorobanCall ----------------------------
(* Instances of SorobanCall for TLC. *)
EXTENDS SorobanCall

\* One error per verdict of the classifier and per signal that leads to it.
MCErrors ==
  {[code |-> "ECONNRESET", status |-> 0, message |-> ""],
   [code |-> "", status |-> 400, message |-> "bad request"]}

=============================================================================
