----------------------------- MODULE Simulation -----------------------------
(***************************************************************************)
(* The forecast of a plan: simulate() over a plan compiled from one scan,  *)
(* a coverage report taken of another, a dependency graph that may not     *)
(* answer and an executor that may not have been asked.                    *)
(*                                                                         *)
(* The caller scans, compiles and assesses in any order and holds on to    *)
(* what it got; the estate changes under it.                               *)
(***************************************************************************)
EXTENDS Coverage

CONSTANTS
  Object,         \* tables and what depends on them
  TableOf,        \* [Column -> Object]
  RowsModerate, RowsHigh, TablesModerate, TablesHigh, ConsumersHigh,
  MaxCredits,     \* the rubric
  ColumnFacts,    \* what a scan may bring back of a column
  Contents,       \* what a column of a crawled schema may hold
  Graphs,         \* what the catalog may be
  Budget,         \* the tiers callers give as the autonomy budget
  MaxScans,       \* bound: scans after the first
  None

ASSUME TableAssumption == TableOf \in [Column -> Object] /\ IsFiniteSet(Object)

ASSUME RubricAssumption ==
  /\ RowsModerate \in Nat /\ RowsHigh \in Nat /\ TablesModerate \in Nat
  /\ TablesHigh \in Nat /\ ConsumersHigh \in Nat /\ MaxCredits \in Nat
  /\ 0 < RowsModerate /\ RowsModerate <= RowsHigh
  /\ 0 < ConsumersHigh

ASSUME FactsAssumption == ColumnFacts \subseteq Facts /\ MaxScans \in Nat

(* hits: the part of the sample that matches `key`: none, less than the    *)
(* 0.3 that makes a finding, less than the 0.8 that makes it sure, more.   *)
Content ==
  [ text: BOOLEAN, readable: BOOLEAN, few: BOOLEAN, hint: BOOLEAN,
    hits: {"no", "few", "some", "most"}, key: Key, rows: Rows ]

ASSUME ContentAssumption == Contents \subseteq Content

LOW == 1
MODERATE == 2
HIGH == 3
CRITICAL == 4
Tier == LOW..CRITICAL
NoFloor == 0

Graph == [feeds: [Object -> SUBSET Object], known: SUBSET Object]

ASSUME CallerAssumption == Graphs \subseteq Graph /\ Budget \subseteq Tier

VARIABLES
  estate,     \* what the last scan brought back
  graph,      \* [feeds: what depends on each object, known: what it can tell]
  plan,       \* the plan held, or NoPlan
  report,     \* the coverage report held, or None
  forecast,   \* the answer of the last call if that was simulate(), or None
  scans

vars == <<estate, graph, plan, report, forecast, scans>>

(***************************************************************************)
(* The dependency graph.  An object it has no answer for, or that makes it *)
(* raise, ends the branch and is reported.                                 *)
(***************************************************************************)
Answered(g, x) == IF x \in g.known THEN g.feeds[x] ELSE {}

Closed(g, S) == \A x \in S : Answered(g, x) \subseteq S

(* What is in every set that has the roots and what is answered for them.  *)
Reached(g, roots) ==
  {x \in Object : \A S \in SUBSET Object : roots \subseteq S /\ Closed(g, S) => x \in S}

objects_touched(p) == {TableOf[o.col] : o \in p.ops}

(* A root among the dependents of another is one of its consumers.         *)
Consumers(g, p) ==
  UNION {Reached(g, {t}) \ {t} : t \in objects_touched(p)}

Unreadable(g, p) == Reached(g, objects_touched(p)) \ g.known

(***************************************************************************)
(* The signals: measured or not, the tier it does not let go below, and    *)
(* whether it is clean enough to lower the tier.                           *)
(***************************************************************************)
Unmeasured(floor) == [measured |-> FALSE, floor |-> floor, credit |-> FALSE]

Measured(floor, credit) == [measured |-> TRUE, floor |-> floor, credit |-> credit]

Floor(n, moderate, high) ==
  CASE n >= high -> HIGH
    [] n < high /\ n >= moderate -> MODERATE
    [] OTHER -> NoFloor

(* The sum of the operations' rows, each row counted for its operation.    *)
rows_estimate(p) == Cardinality(UNION {{o} \X (1..o.rows) : o \in p.ops})

RowsSignal(p) ==
  IF \E o \in p.ops : o.rows = 0
  THEN Unmeasured(NoFloor)
  ELSE Measured(Floor(rows_estimate(p), RowsModerate, RowsHigh),
                rows_estimate(p) < RowsModerate)

TablesSignal(p) ==
  Measured(Floor(Cardinality(objects_touched(p)), TablesModerate, TablesHigh), FALSE)

DownstreamSignal(g, p) ==
  IF Unreadable(g, p) # {}
  THEN Unmeasured(NoFloor)
  ELSE Measured(Floor(Cardinality(Consumers(g, p)), 1, ConsumersHigh),
                Consumers(g, p) = {})

Executor == {"none", "snowflake", "postgres"}

(* can_reverse(): before a run no grant has been read, so the Postgres one *)
(* cannot promise; without an executor only a no is known.                 *)
can_reverse(x, o) ==
  IF ~reversible(o) THEN "no" ELSE IF x = "snowflake" THEN "yes" ELSE "unproven"

Irreversible(x, p) == {o \in p.ops : can_reverse(x, o) = "no"}

Unproven(x, p) == {o \in p.ops : can_reverse(x, o) = "unproven"}

ReversibilitySignal(x, p) ==
  LET floor == IF Irreversible(x, p) # {} THEN HIGH ELSE NoFloor IN
  IF x = "none"
  THEN Unmeasured(floor)
  ELSE Measured(floor, Irreversible(x, p) = {} /\ Unproven(x, p) = {})

(* Takes any report for a report on this plan.                             *)
FaultRejected(r, p) == FALSE

(* A report on another plan is not read; one taken without a plan is.      *)
Rejected(r, p) == r.plan_hash # NoHash /\ r.plan_hash # plan_hash(p)

DenominatorSound(r) == r.denominator_verified /\ r.anomalies = {}

CoverageClean(r) == In(r, "inconclusive") = {} /\ ungoverned(r) = {}

CoverageSignal(r, p) ==
  IF r = None THEN Unmeasured(NoFloor)
  ELSE IF Rejected(r, p) THEN Unmeasured(NoFloor)
  ELSE Measured(IF ~DenominatorSound(r) THEN HIGH
                ELSE IF ~CoverageClean(r) THEN MODERATE ELSE NoFloor,
                DenominatorSound(r) /\ CoverageClean(r))

Signals(g, p, r, x) ==
  [ rows |-> RowsSignal(p),
    tables |-> TablesSignal(p),
    downstream |-> DownstreamSignal(g, p),
    reversibility |-> ReversibilitySignal(x, p),
    coverage |-> CoverageSignal(r, p) ]

(***************************************************************************)
(* The tier and the decision.                                              *)
(***************************************************************************)
prior_for(o) == IF Treatment[o.key] = "drop" THEN CRITICAL ELSE MODERATE

Prior(p) == Max({LOW} \cup {prior_for(o) : o \in p.ops})

Credits(sig) ==
  LET n == Cardinality({s \in DOMAIN sig : sig[s].credit}) IN
  IF n <= MaxCredits THEN n ELSE MaxCredits

TierOf(g, p, r, x) ==
  LET sig == Signals(g, p, r, x)
      lowered == IF Prior(p) > Credits(sig) THEN Prior(p) - Credits(sig) ELSE LOW
  IN Max({lowered} \cup {sig[s].floor : s \in DOMAIN sig}
           \cup (IF Unproven(x, p) # {} THEN {MODERATE} ELSE {}))

NeedsApproval(g, p, r, x, budget) ==
  \/ Irreversible(x, p) # {}
  \/ Unproven(x, p) # {}
  \/ \E s \in DOMAIN Signals(g, p, r, x) : ~Signals(g, p, r, x)[s].measured
  \/ TierOf(g, p, r, x) > budget

Forecast(g, p, r, x, budget) ==
  [ tier |-> TierOf(g, p, r, x),
    decision |-> IF NeedsApproval(g, p, r, x, budget)
                 THEN "APPROVAL_REQUIRED" ELSE "AUTONOMOUS",
    plan |-> p, report |-> r, executor |-> x, budget |-> budget ]

-----------------------------------------------------------------------------
Init ==
  /\ estate \in [col: [Column -> ColumnFacts], complete: BOOLEAN]
  /\ graph \in Graphs
  /\ plan = NoPlan
  /\ report = None
  /\ forecast = None
  /\ scans = 0

(* A detector of the caller's own finds one column changed.                *)
Scan ==
  /\ scans < MaxScans
  /\ \E c \in Column, f \in ColumnFacts :
       estate' = [estate EXCEPT !.col[c] = f]
  /\ scans' = scans + 1
  /\ forecast' = None
  /\ UNCHANGED <<graph, plan, report>>

(* scan_schema(): text columns are sampled, and the identifier most of the *)
(* sample matches is the finding if enough of it does; else the name may   *)
(* hint at one, which is no finding.  Other columns are left uninspected.  *)
SchemaFacts(x) ==
  LET enough == x.hits \in {"some", "most"} IN
  [ listed |-> 1,
    scan |-> CASE ~x.text -> "none"
               [] x.text /\ ~x.readable -> "failed"
               [] x.text /\ x.readable /\ enough ->
                    IF x.few THEN "thin" ELSE IF x.hits = "some" THEN "unsure" ELSE "sampled"
               [] x.text /\ x.readable /\ ~enough -> IF x.hint THEN "hint" ELSE "none",
    keys |-> IF x.text /\ x.readable /\ enough THEN {x.key} ELSE {},
    rows |-> x.rows,
    excluded |-> FALSE ]

(* One schema is not an estate: its inventory is never complete.           *)
ScanSchema ==
  /\ scans < MaxScans
  /\ \E content \in [Column -> Contents] :
       estate' = [col |-> [c \in Column |-> SchemaFacts(content[c])], complete |-> FALSE]
  /\ scans' = scans + 1
  /\ forecast' = None
  /\ UNCHANGED <<graph, plan, report>>

Compile ==
  /\ plan' = compile_plan(estate)
  /\ forecast' = None
  /\ UNCHANGED <<estate, graph, report, scans>>

(* OBSERVE assesses the estate before there is a plan.                     *)
Observe ==
  /\ report' = assess(estate, NoPlan)
  /\ forecast' = None
  /\ UNCHANGED <<estate, graph, plan, scans>>

Assess ==
  /\ plan # NoPlan
  /\ report' = assess(estate, plan)
  /\ forecast' = None
  /\ UNCHANGED <<estate, graph, plan, scans>>

Simulate(r, x, budget) ==
  /\ plan # NoPlan
  /\ forecast = None       \* bound: another call would only replace it
  /\ r \in {None, report}
  /\ forecast' = Forecast(graph, plan, r, x, budget)
  /\ UNCHANGED <<estate, graph, plan, report, scans>>

Next ==
  \/ Scan \/ ScanSchema \/ Compile \/ Observe \/ Assess
  \/ \E r \in {None, report}, x \in Executor, budget \in Budget : Simulate(r, x, budget)

Spec == Init /\ [][Next]_vars

-----------------------------------------------------------------------------
Autonomous == forecast # None /\ forecast.decision = "AUTONOMOUS"

(* What really depends on the tables of a plan, answered or not.           *)
Dependents(p) == Consumers([feeds |-> graph.feeds, known |-> Object], p)

(* simulate(), decision: whatever is let through unattended was forecast   *)
(* to be undone, and every table it changes was counted.                   *)
IsUndoable ==
  \A o \in forecast.plan.ops : o.rows > 0 /\ Treatment[o.key] = "mask"

(* It is no larger than the budget allows, and what really depends on it,  *)
(* whether the catalog said so or not, is no more.                         *)
IsSmall ==
  /\ forecast.budget < HIGH =>
       /\ rows_estimate(forecast.plan) < RowsHigh
       /\ Cardinality(Dependents(forecast.plan)) < ConsumersHigh
  /\ forecast.budget < MODERATE =>
       /\ rows_estimate(forecast.plan) < RowsModerate
       /\ Dependents(forecast.plan) = {}

(* Its report, if taken with a plan, was taken with one of the very same   *)
(* operations.  The estate it was taken of had nothing missing or listed   *)
(* twice, unless the budget is HIGH, and every column in scope looked at   *)
(* and every column found in treated by this plan, unless it is MODERATE.  *)
(* It need not be the estate of the last scan, nor the one the plan was    *)
(* compiled from: the hash that is compared covers the operations only.    *)
IsAssessed ==
  LET e == forecast.report.of IN
  /\ forecast.report # None
  /\ forecast.report.against # NoPlan =>
       /\ forecast.report.against.ops = forecast.plan.ops
       /\ forecast.budget < HIGH =>
            /\ e.complete
            /\ \A c \in Column : e.col[c].listed < 2
            /\ \A c \in Column \ Listed(e) : e.col[c].scan = "none" /\ e.col[c].keys = {}
       /\ forecast.budget < MODERATE =>
            \A c \in Listed(e) :
              ~e.col[c].excluded =>
                /\ e.col[c].scan \in {"sampled", "hint"}
                /\ e.col[c].keys # {} => \E o \in forecast.plan.ops : o.col = c

AutonomyIsEarned == Autonomous => IsUndoable /\ IsSmall /\ IsAssessed

(* assess(): a report taken with a plan leaves out no column that anything *)
(* was found in.  It is an anomaly, excluded by a rule, or an entry that   *)
(* says whether the plan has an operation on it.                           *)
FindingsAreAccounted ==
  report # None /\ report.against # NoPlan =>
    \A c \in FoundIn(report.of) :
      IF c \notin DOMAIN report.entries THEN c \in report.anomalies
      ELSE IF report.of.col[c].excluded THEN c \in In(report, "excluded")
      ELSE (report.entries[c].governance = "governed") =
             (\E o \in report.plan_hash : o.col = c)
           /\ report.entries[c].governance \in {"governed", "ungoverned"}

(* CoverageReport.rate(): a rate of one says what it seems to say.  In     *)
(* scope: every listed column that no rule excludes was sampled.  Over the *)
(* estate: none was excluded either.  Governed: every listed, included     *)
(* column found in has an operation.  And no rate exceeds one, which is    *)
(* what CoverageRate refuses to be built with.                             *)
AFullRateIsEarned ==
  report # None =>
    LET e == report.of IN
    /\ \A b \in {"estate", "in_scope", "governed"} :
         rate(report, b).numerator <= rate(report, b).denominator
    /\ Full(rate(report, "in_scope")) =>
         \A c \in Listed(e) : ~e.col[c].excluded => e.col[c].scan = "sampled"
    /\ Full(rate(report, "estate")) =>
         \A c \in Listed(e) : ~e.col[c].excluded /\ e.col[c].scan = "sampled"
    /\ Full(rate(report, "governed")) =>
         \A c \in Listed(e) \cap FoundIn(e) :
           ~e.col[c].excluded => \E o \in report.plan_hash : o.col = c

(* tests/test_simulate.py:162: 'an unassessed estate is never autonomous'. *)
(* False: a report OBSERVE took before there was a plan is read as one     *)
(* that found nothing ungoverned, so a found column the plan has no        *)
(* operation on is left as it is and nobody is asked.                      *)
NothingFoundIsLeftUnasked ==
  Autonomous /\ forecast.budget = LOW =>
    LET e == forecast.report.of IN
    \A c \in Listed(e) \cap FoundIn(e) :
      e.col[c].excluded \/ \E o \in forecast.plan.ops : o.col = c
=============================================================================
