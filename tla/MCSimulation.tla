---------------------------- MODULE MCSimulation ----------------------------
(* Two columns of two tables, the first of which may feed a view.  A       *)
(* column's facts differ from the best case in what one rule tells apart.  *)
EXTENDS Simulation, TLC

CONSTANTS c1, c2, t1, t2, v, email, cvv, expiry, blood

MCTreatment == (email :> "mask") @@ (cvv :> "drop") @@ (expiry :> "retain")

MCTableOf == (c1 :> t1) @@ (c2 :> t2)

F(listed, scan, keys, rows, excluded) ==
  [listed |-> listed, scan |-> scan, keys |-> keys, rows |-> rows, excluded |-> excluded]

MCColumnFacts ==
  { F(1, "sampled", {}, 0, FALSE), F(1, "sampled", {email}, 1, FALSE),
    F(1, "sampled", {email}, 0, FALSE), F(1, "sampled", {email}, 4, FALSE),
    F(1, "sampled", {cvv}, 1, FALSE), F(1, "sampled", {expiry}, 1, FALSE),
    F(1, "sampled", {email, blood}, 1, FALSE), F(1, "unsure", {email}, 1, FALSE),
    F(1, "hint", {}, 0, FALSE), F(2, "sampled", {email}, 1, FALSE),
    F(0, "sampled", {email}, 1, FALSE), F(1, "none", {cvv}, 1, TRUE) }

C(readable, hits, hint) ==
  [ text |-> TRUE, readable |-> readable, few |-> FALSE, hint |-> hint,
    hits |-> hits, key |-> email, rows |-> 1 ]

MCContents ==
  { C(TRUE, "most", FALSE), C(TRUE, "some", TRUE), C(FALSE, "no", TRUE) }

Feeds(x) == [o \in Object |-> IF o = t1 THEN x ELSE {}]

MCGraphs ==
  { [feeds |-> Feeds({}), known |-> Object],
    [feeds |-> Feeds({v}), known |-> Object],
    [feeds |-> Feeds({v}), known |-> {t1, t2}] }
=============================================================================
