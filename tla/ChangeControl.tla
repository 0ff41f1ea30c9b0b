---------------------------- MODULE ChangeControl ---------------------------
(***************************************************************************)
(* What the control plane promises about one governed change, with no      *)
(* journal, no phases and no crashes: a plan is granted, started at most   *)
(* once and only if granted, run against the engine at most once and only  *)
(* while started, and the request ends closed only after it settled.       *)
(***************************************************************************)
EXTENDS Sequences

CONSTANTS Request, PlanHash

VARIABLES
  granted,  \* granted[r]: the plans that may be executed
  started,  \* started[r]: empty, or the one plan whose execution began
  touches,  \* touches[r]: the plans run against the engine, in order
  settled,  \* settled[r]: is the outcome of the started plan known
  ended     \* ended[r]: "open", "closed" or "refused"

ccvars == <<granted, started, touches, settled, ended>>

CCInit ==
  /\ granted = [r \in Request |-> {}]
  /\ started = [r \in Request |-> {}]
  /\ touches = [r \in Request |-> <<>>]
  /\ settled = [r \in Request |-> FALSE]
  /\ ended = [r \in Request |-> "open"]

Grant(r, p) ==
  /\ ended[r] = "open"
  /\ granted' = [granted EXCEPT ![r] = @ \cup {p}]
  /\ UNCHANGED <<started, touches, settled, ended>>

Start(r, p) ==
  /\ ended[r] = "open"
  /\ started[r] = {}
  /\ p \in granted[r]
  /\ started' = [started EXCEPT ![r] = {p}]
  /\ UNCHANGED <<granted, touches, settled, ended>>

Touch(r, p) ==
  /\ ended[r] = "open"
  /\ p \in started[r]
  /\ ~settled[r]
  /\ touches[r] = <<>>
  /\ touches' = [touches EXCEPT ![r] = <<p>>]
  /\ UNCHANGED <<granted, started, settled, ended>>

\* Learning the outcome is allowed after the end: looking changes nothing.
LearnOutcome(r) ==
  /\ started[r] # {}
  /\ ~settled[r]
  /\ settled' = [settled EXCEPT ![r] = TRUE]
  /\ UNCHANGED <<granted, started, touches, ended>>

EndClosed(r) ==
  /\ ended[r] = "open"
  /\ settled[r]
  /\ ended' = [ended EXCEPT ![r] = "closed"]
  /\ UNCHANGED <<granted, started, touches, settled>>

EndRefused(r) ==
  /\ ended[r] = "open"
  /\ ended' = [ended EXCEPT ![r] = "refused"]
  /\ UNCHANGED <<granted, started, touches, settled>>

CCNext ==
  \E r \in Request :
    \/ \E p \in PlanHash : Grant(r, p) \/ Start(r, p) \/ Touch(r, p)
    \/ LearnOutcome(r)
    \/ EndClosed(r)
    \/ EndRefused(r)

CCSpec == CCInit /\ [][CCNext]_ccvars
=============================================================================
