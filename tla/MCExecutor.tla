----------------------------- MODULE MCExecutor -----------------------------
(* Three columns: one masked reversibly and smallest, so that it is the    *)
(* canary, one masked for good, as HASH is, and one dropped.               *)
EXTENDS Executor

CONSTANTS c1, c2, c3, email, hash

MCPlan == <<
  [target |-> c2, wants |-> hash, reversible |-> FALSE, size |-> 9],
  [target |-> c1, wants |-> email, reversible |-> TRUE, size |-> 1],
  [target |-> c3, wants |-> Gone, reversible |-> FALSE, size |-> 9]>>
=============================================================================
