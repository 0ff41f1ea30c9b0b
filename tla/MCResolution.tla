---------------------------- MODULE MCResolution ----------------------------
(* Two people of one name: one with two accounts and a phone, the other    *)
(* with neither, or with the same phone.  A phone number may serve as an   *)
(* account id as well.                                                     *)
EXTENDS Resolution, TLC

CONSTANTS p1, p2, account, phone, name, a1, a2, f1, n1

Filed(accounts, phones) ==
  (account :> accounts) @@ (phone :> phones) @@ (name :> <<n1>>)

MCValueOf == (account :> {a1, a2, f1}) @@ (phone :> {f1}) @@ (name :> {n1})

MCOutages == {{}, {phone}}

MCGiven ==
  {(p1 :> Filed(<<a1, a2>>, <<f1>>)) @@ (p2 :> Filed(<<>>, phones)) :
     phones \in {<<>>, <<f1>>}}
=============================================================================
