------------------------------ MODULE MCEstate ------------------------------
(* Ann's record names her and then Bob; another only has the same name, in *)
(* which an identifier begins; a third has nothing to find.  The name is   *)
(* then shared by two identities, Ann's and its own.                       *)
EXTENDS Estate, TLC

CONSTANTS d1, d2, ann, bob, lee

Span(v, s, from, to) == [value |-> v, strength |-> s, start |-> from, end |-> to]

AnnId == Span(ann, 0, 0, 4)
Name == Span(lee, 9, 5, 9)
Second == Span(bob, 9, 10, 14)
Clash == Span(ann, 0, 8, 12)

MCFinding == {AnnId, Name, Second, Clash}
MCText == {{AnnId, Name, Second}, {Name, Clash}, {}}

Symmetry == Permutations({d1, d2})
=============================================================================
