------------------------------- MODULE MCApi --------------------------------
(* The tokens of prod_ui.py: an analyst of tier 0, an officer of tier 4.   *)
EXTENDS Api, TLC

CONSTANTS p1, p2, analyst, officer

MCForecast ==
  {[plan |-> p1, tier |-> 2, decision |-> "APPROVAL_REQUIRED"],
   [plan |-> p2, tier |-> 1, decision |-> "AUTONOMOUS"]}

MCAuthority == (analyst :> 0) @@ (officer :> 4)

MCReceipt == [plan: {p1, p2}, verdict: {"COMPLETE"}, reconciled: BOOLEAN]
=============================================================================
