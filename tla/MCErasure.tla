------------------------------ MODULE MCErasure -----------------------------
(* One table, one store.  Its target is each kind that attestability() or  *)
(* classify() tells apart, on the engines in use; the person is filed      *)
(* under two keys, of which the request may know only its own, and may     *)
(* have no token.                                                          *)
EXTENDS Erasure

CONSTANTS t1, s1, k1, k2

Made(targets, retention, linked, accepted, tokened) ==
  [targets : [Store -> targets], retention : [Table -> retention],
   linked : linked, covered : {{k1}}, accepted : accepted,
   tokened : tokened]

Plain == [engine |-> "pgvector_hnsw", controls |-> 20, baselines |-> "separable",
          registered |-> TRUE]

MCTargets ==
  {Plain,
   [Plain EXCEPT !.engine = "in_memory"],
   [Plain EXCEPT !.baselines = "unmeasured"],
   [Plain EXCEPT !.baselines = "unmeasured", !.controls = 99],
   [Plain EXCEPT !.engine = "pinecone"],
   [Plain EXCEPT !.controls = 18],
   [Plain EXCEPT !.baselines = "inseparable"],
   [Plain EXCEPT !.registered = FALSE]}

MCRequest ==
  Made(MCTargets, {"closed"}, {{k1}}, SUBSET Store, {TRUE})
    \cup Made({Plain}, {"open", "unread"}, {{k1}}, {{}}, {TRUE})
    \cup Made({Plain}, {"closed"}, {{k1, k2}}, {{}}, {TRUE})
    \cup Made({Plain}, {"closed"}, {{k1}}, {{}}, {FALSE})

Own == [s \in Store |-> s]
=============================================================================
