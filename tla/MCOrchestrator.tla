--------------------------- MODULE MCOrchestrator ---------------------------
(* A small control plane: two plans, one needing approval and one that can *)
(* also run autonomously, an analyst and a privacy officer.                *)
EXTENDS OrchestratorProperties, TLC

CONSTANTS p1, p2, analyst, officer

MCForecast ==
  {[plan |-> p1, tier |-> 2, decision |-> "APPROVAL_REQUIRED"],
   [plan |-> p1, tier |-> 4, decision |-> "APPROVAL_REQUIRED"],
   [plan |-> p2, tier |-> 1, decision |-> "AUTONOMOUS"]}

MCAuthority == (analyst :> 0) @@ (officer :> 3)

\* A receipt of some other request, whose verdict no executor here returns.
MCHandedIn == {[plan |-> p2, verdict |-> "FAILED", reconciled |-> FALSE]}

MCReceipt ==
  [plan: {p1, p2}, verdict: {"COMPLETE"}, reconciled: BOOLEAN] \cup MCHandedIn
=============================================================================
