----------------------------- MODULE MCPostgres -----------------------------
(* Two columns of one table: one masked for a role, one hashed, for good.  *)
EXTENDS Postgres, TLC

CONSTANTS email, ssn, people, analyst, app

MCPlan == <<[column |-> email, audience |-> <<analyst>>, reversible |-> TRUE],
            [column |-> ssn, audience |-> <<>>, reversible |-> FALSE]>>

MCTableOf == (email :> people) @@ (ssn :> people)

\* Anybody may hold the reversible column; of the other, which no rollback
\* touches, only PUBLIC's access is told apart.
MCInit == PgInit /\ grants[ssn] \subseteq {Public}

MCSpec == MCInit /\ [][PgNext]_pgVars
=============================================================================
