--------------------------- MODULE MCEscrowIndexer ---------------------------
(* Instances of EscrowIndexer for TLC. *)
EXTENDS EscrowIndexer

CONSTANTS n1, n2, a, b, ca, cz

MCMap == [c \in Contracts |-> IF c = ca THEN a ELSE None]

R(explicit, body, topic, contract, ledger, ok) ==
  [explicit |-> explicit, body |-> body, topic |-> topic, contract |-> contract,
   ledger |-> ledger, wellFormed |-> ok]

\* Two events of one invoice in the same ledger, one that only the reverse lookup
\* can key, a malformed one, one without an invoice, and a second invoice.
MCStream ==
  <<R(a, None, None, cz, 1, TRUE), R(None, None, None, ca, 1, TRUE),
    R(None, None, None, cz, 2, TRUE), R(None, b, a, cz, 2, TRUE),
    R(None, None, a, cz, 3, FALSE), R(None, None, a, ca, 3, TRUE)>>

=============================================================================
