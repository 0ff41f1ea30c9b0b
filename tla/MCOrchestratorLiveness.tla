----------------------- MODULE MCOrchestratorLiveness -----------------------
(* One plan under approval and one autonomous forecast of another plan.    *)
EXTENDS OrchestratorLiveness, TLC

CONSTANTS p1, p2, analyst, officer

MCForecast ==
  {[plan |-> p1, tier |-> 2, decision |-> "APPROVAL_REQUIRED"],
   [plan |-> p2, tier |-> 1, decision |-> "AUTONOMOUS"]}

MCAuthority == (analyst :> 0) @@ (officer :> 3)

MCReceipt == [plan: {p1, p2}, verdict: {"COMPLETE"}, reconciled: BOOLEAN]
=============================================================================
