--------------------------- MODULE MCFundInvoice ----------------------------
(***************************************************************************)
(* Two requests with one key and the same or different bodies, or one with *)
(* a key and one without.                                                  *)
(***************************************************************************)
EXTENDS FundInvoice

CONSTANTS r1, r2, k1

Sending(b1, key2, b2) ==
  [r \in Requests |-> IF r = r1 THEN [key |-> k1, body |-> b1] ELSE [key |-> key2, body |-> b2]]

MCSends == {Sending("a", k1, "a"), Sending("a", k1, "b"), Sending("a", NoKey, "b"),
            Sending("c", NoKey, "b"), Sending("d", NoKey, "b")}
MCKind == [a |-> "plain", b |-> "padded", c |-> "bad", d |-> "plain"]
MCInvoiceOf == [a |-> "inv1", b |-> "inv1", c |-> "inv1", d |-> "inv2"]
MCMapping(address, active, valid) ==
  [invoice |-> "inv1", address |-> address, active |-> active, env |-> "production", valid |-> valid]
MCUsual == <<MCMapping("C0", FALSE, TRUE), MCMapping("C1", TRUE, TRUE)>>
MCEscrowMaps == {MCUsual, <<MCMapping("C1", TRUE, TRUE), MCMapping("nowhere", TRUE, FALSE)>>}
MCRaw == {"approved", "other"}

\* Where the two send the same body the process may crash, or has crashed before and
\* left a placeholder; where they differ the
\* purge runs; where the second has no key the SME is being decided on and holds
\* come and go, unless the first is refused for its body or its invoice.
MCInit ==
  /\ Init
  /\ send[r1].body # "d" => mappings = MCUsual
  /\ mode # "custodial" => send[r2] = send[r1]
  /\ IF send[r2].key = k1 \/ send[r1].body # "a"
     THEN /\ ~enabled /\ record = "verified" /\ decisions = MaxDecisions /\ provider = "other"
          /\ holds = MaxHolds /\ held = {}
          /\ faults = (IF mode = "custodial" THEN 0 ELSE MaxFaults)
          /\ IF send[r2] # send[r1]
             THEN rows = {} /\ now = 0 /\ crashes = MaxCrashes /\ purge = 0
             ELSE /\ now = (IF rows = {} THEN 1 ELSE MaxTime)
                  /\ crashes = (IF rows = {} THEN 0 ELSE MaxCrashes) /\ purge = Purged
     ELSE /\ rows = {} /\ record = None /\ decisions = 0
          /\ IF enabled THEN faults = 0 /\ holds = MaxHolds /\ held = {}
                        ELSE faults = MaxFaults /\ holds = 0
          /\ now = MaxTime - 1 /\ crashes = MaxCrashes /\ purge = Purged

MCSpec == MCInit /\ [][Next]_vars /\ Fairness
=============================================================================
