----------------------------- MODULE MCVerifier -----------------------------
(* Neighbours far, half-way, as near as a near-duplicate, and a copy; one  *)
(* control too few, and just enough, where p is at its threshold and       *)
(* copies among them can hide a subject.                                   *)
EXTENDS Verifier
=============================================================================
