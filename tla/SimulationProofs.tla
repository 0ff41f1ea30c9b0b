-------------------------- MODULE SimulationProofs --------------------------
(***************************************************************************)
(* What a report accounts for and what a forecast lets through, for any    *)
(* estate, policy, rubric and order of scans, plans and reports.           *)
(*                                                                         *)
(* Rows and listings are counted as sets of rows and listings, and what a  *)
(* table feeds is the least set closed under the answers of the graph; so  *)
(* sums are cardinalities, and a closed set is what bounds a closure.      *)
(***************************************************************************)
EXTENDS Simulation, FiniteSetTheorems, TLAPS

IsPlan(p) ==
  /\ IsFiniteSet(p.ops)
  /\ \A o \in p.ops : o \in Operation /\ Treated(o.key)

IsReport(r) ==
  /\ r.of \in Estate
  /\ r.against # NoPlan => IsPlan(r.against)
  /\ r = assess(r.of, r.against)

ReportIsFaithful == report # None => IsReport(report)

PlanIsCompiled == plan # NoPlan => IsPlan(plan)

ForecastIsComputed ==
  forecast # None =>
    /\ IsPlan(forecast.plan)
    /\ forecast.report # None => IsReport(forecast.report)
    /\ forecast.budget \in Tier
    /\ forecast = Forecast(graph, forecast.plan, forecast.report,
                           forecast.executor, forecast.budget)

IInv ==
  /\ estate \in Estate
  /\ graph \in Graph
  /\ ReportIsFaithful
  /\ PlanIsCompiled
  /\ ForecastIsComputed

-----------------------------------------------------------------------------
(* One operation for each identifier of each column, so a plan is finite.  *)
LEMMA CompiledIsPlan ==
  ASSUME NEW e \in Estate PROVE IsPlan(compile_plan(e))
<1> DEFINE place == [o \in Ops(e) |-> <<o.col, o.key>>]
<1>1. IsFiniteSet(Column \X Key)
  BY FiniteAssumption, FS_Product
<1>2. place \in Injection(Ops(e), Column \X Key)
  <2>1. place \in [Ops(e) -> Column \X Key]
    BY DEF Ops, Operation
  <2>2. ASSUME NEW a \in Ops(e), NEW b \in Ops(e), place[a] = place[b] PROVE a = b
    <3>1. a.col = b.col /\ a.key = b.key
      BY <2>2
    <3>2. a.rows = b.rows
      BY <3>1 DEF Ops
    <3>3. a \in Operation /\ b \in Operation
      BY DEF Ops
    <3>4. QED BY <3>1, <3>2, <3>3 DEF Operation
  <2>3. QED BY <2>1, <2>2 DEF Injection, IsInjective
<1>3. IsFiniteSet(Ops(e))
  BY <1>1, <1>2, FS_Injection
<1>4. compile_plan(e).ops = Ops(e)
  BY DEF compile_plan
<1>5. QED BY <1>3, <1>4 DEF IsPlan, Ops

LEMMA AssessedIsReport ==
  ASSUME NEW e \in Estate, NEW p, p # NoPlan => IsPlan(p) PROVE IsReport(assess(e, p))
<1>1. assess(e, p).of = e /\ assess(e, p).against = p
  BY DEF assess
<1>2. QED BY <1>1 DEF IsReport

LEMMA SchemaFactsAreFacts ==
  ASSUME NEW x \in Contents PROVE SchemaFacts(x) \in Facts
<1>1. x \in Content
  BY ContentAssumption
<1>2. x.key \in Key /\ x.rows \in Rows
  BY <1>1 DEF Content
<1> DEFINE s == SchemaFacts(x)
<1>3. s.listed \in Nat /\ s.rows \in Rows /\ s.excluded \in BOOLEAN
  BY <1>2 DEF SchemaFacts
<1>4. s.keys \in SUBSET Key
  BY <1>2 DEF SchemaFacts
<1>5. s.scan \in Inspection
  <2> DEFINE enough == x.hits \in {"some", "most"}
  <2>0. x.text \in BOOLEAN /\ x.readable \in BOOLEAN
    BY <1>1 DEF Content
  <2>1. CASE ~x.text
    BY <2>1 DEF SchemaFacts, Inspection
  <2>2. CASE x.text /\ ~x.readable
    BY <2>2 DEF SchemaFacts, Inspection
  <2>3. CASE x.text /\ x.readable /\ enough
    BY <2>3 DEF SchemaFacts, Inspection
  <2>4. CASE x.text /\ x.readable /\ ~enough
    BY <2>4 DEF SchemaFacts, Inspection
  <2>5. QED BY <2>0, <2>1, <2>2, <2>3, <2>4
<1>6. s = [listed |-> s.listed, scan |-> s.scan, keys |-> s.keys,
           rows |-> s.rows, excluded |-> s.excluded]
  BY DEF SchemaFacts
<1>7. QED BY <1>3, <1>4, <1>5, <1>6 DEF Facts

LEMMA InitLemma == Init => IInv
<1> SUFFICES ASSUME Init PROVE IInv
  OBVIOUS
<1>1. estate \in Estate
  BY FactsAssumption DEF Init, Estate
<1>2. graph \in Graph
  BY CallerAssumption DEF Init
<1>3. QED BY <1>1, <1>2 DEF Init, IInv, ReportIsFaithful, PlanIsCompiled, ForecastIsComputed

LEMMA StepLemma == IInv /\ [Next]_vars => IInv'
<1> SUFFICES ASSUME IInv, [Next]_vars PROVE IInv'
  OBVIOUS
<1> USE DEF IInv
<1>1. CASE Scan
  <2>1. PICK c \in Column, f \in ColumnFacts : estate' = [estate EXCEPT !.col[c] = f]
    BY <1>1 DEF Scan
  <2>2. estate' \in Estate
    BY <2>1, FactsAssumption DEF Estate
  <2>3. UNCHANGED <<graph, report, plan>> /\ forecast' = None
    BY <1>1 DEF Scan
  <2>4. QED BY <2>2, <2>3 DEF ReportIsFaithful, PlanIsCompiled, ForecastIsComputed
<1>2. CASE ScanSchema
  <2>1. PICK content \in [Column -> Contents] :
          estate' = [col |-> [c \in Column |-> SchemaFacts(content[c])], complete |-> FALSE]
    BY <1>2 DEF ScanSchema
  <2>2. \A c \in Column : SchemaFacts(content[c]) \in Facts
    BY SchemaFactsAreFacts
  <2>3. estate' \in Estate
    BY <2>1, <2>2 DEF Estate
  <2>4. UNCHANGED <<graph, report, plan>> /\ forecast' = None
    BY <1>2 DEF ScanSchema
  <2>5. QED BY <2>3, <2>4 DEF ReportIsFaithful, PlanIsCompiled, ForecastIsComputed
<1>3. CASE Compile
  <2>1. plan' = compile_plan(estate) /\ forecast' = None /\ UNCHANGED <<estate, graph, report>>
    BY <1>3 DEF Compile
  <2>2. IsPlan(plan')
    BY <2>1, CompiledIsPlan
  <2>3. QED BY <2>1, <2>2 DEF ReportIsFaithful, PlanIsCompiled, ForecastIsComputed
<1>4. CASE Observe
  <2>1. report' = assess(estate, NoPlan) /\ forecast' = None /\ UNCHANGED <<estate, graph, plan>>
    BY <1>4 DEF Observe
  <2>2. IsReport(report')
    BY <2>1, AssessedIsReport
  <2>3. QED BY <2>1, <2>2 DEF ReportIsFaithful, PlanIsCompiled, ForecastIsComputed
<1>5. CASE Assess
  <2>1. report' = assess(estate, plan) /\ forecast' = None /\ UNCHANGED <<estate, graph, plan>>
    BY <1>5 DEF Assess
  <2>2. IsReport(report')
    BY <2>1, AssessedIsReport DEF PlanIsCompiled
  <2>3. QED BY <2>1, <2>2 DEF ReportIsFaithful, PlanIsCompiled, ForecastIsComputed
<1>6. ASSUME NEW r \in {None, report}, NEW x \in Executor, NEW budget \in Budget,
             Simulate(r, x, budget)
      PROVE  IInv'
  <2>1. /\ plan # NoPlan
        /\ forecast' = Forecast(graph, plan, r, x, budget)
        /\ UNCHANGED <<estate, graph, plan, report>>
    BY <1>6 DEF Simulate
  <2>2. /\ forecast'.plan = plan /\ forecast'.report = r
        /\ forecast'.executor = x /\ forecast'.budget = budget
    BY <2>1 DEF Forecast
  <2>3. IsPlan(plan) /\ (r # None => IsReport(r)) /\ budget \in Tier
    BY <2>1, CallerAssumption DEF PlanIsCompiled, ReportIsFaithful
  <2>4. ForecastIsComputed'
    BY <2>1, <2>2, <2>3 DEF ForecastIsComputed
  <2>5. QED BY <2>1, <2>4 DEF ReportIsFaithful, PlanIsCompiled
<1>7. CASE UNCHANGED vars
  BY <1>7 DEF vars, ReportIsFaithful, PlanIsCompiled, ForecastIsComputed
<1>8. QED BY <1>1, <1>2, <1>3, <1>4, <1>5, <1>6, <1>7 DEF Next

THEOREM Invariant == Spec => []IInv
<1>1. QED BY InitLemma, StepLemma, PTL DEF Spec

-----------------------------------------------------------------------------
(* assess() on one column.                                                 *)

LEMMA ColumnIsAccounted ==
  ASSUME NEW r, IsReport(r), r.against # NoPlan, NEW c \in FoundIn(r.of)
  PROVE  IF c \notin DOMAIN r.entries THEN c \in r.anomalies
         ELSE IF r.of.col[c].excluded THEN c \in In(r, "excluded")
         ELSE (r.entries[c].governance = "governed") =
                (\E o \in r.plan_hash : o.col = c)
              /\ r.entries[c].governance \in {"governed", "ungoverned"}
<1> DEFINE e == r.of
           p == r.against
<1>1. /\ DOMAIN r.entries = Listed(e)
      /\ \A d \in Listed(e) : /\ r.entries[d].partition = Partition(e.col[d])
                               /\ r.entries[d].governance = Governance(e, p, d)
      /\ r.anomalies = Anomalies(e)
      /\ r.plan_hash = p.ops
  BY DEF IsReport, assess, plan_hash
<1>2. c \in Column /\ e.col[c].keys # {} /\ e.col[c].listed \in Nat /\ e.col[c].excluded \in BOOLEAN
  BY DEF FoundIn, IsReport, Estate, Facts
<1>3. CASE c \notin DOMAIN r.entries
  BY <1>1, <1>2, <1>3 DEF Listed, Anomalies
<1>4. CASE c \in DOMAIN r.entries /\ e.col[c].excluded
  <2>1. Partition(e.col[c]) = "excluded"
    BY <1>4 DEF Partition
  <2>2. QED BY <1>1, <1>4, <2>1 DEF In
<1>5. CASE c \in DOMAIN r.entries /\ ~e.col[c].excluded
  <2>1. Governance(e, p, c) = IF \E o \in p.ops : o.col = c THEN "governed" ELSE "ungoverned"
    BY <1>5 DEF Governance
  <2>2. QED BY <1>1, <1>5, <2>1
<1>6. QED BY <1>3, <1>4, <1>5

(* coverage.py:18, "every column lands in exactly one partition": what was *)
(* found in a column of a report with a plan is always accounted for.      *)
THEOREM AccountsForFindings == Spec => []FindingsAreAccounted
<1>1. IInv => FindingsAreAccounted
  BY ColumnIsAccounted DEF IInv, ReportIsFaithful, FindingsAreAccounted
<1>2. QED BY <1>1, Invariant, PTL

-----------------------------------------------------------------------------
(* The decision of one forecast.                                           *)

LEMMA MaxIsUpperBound ==
  ASSUME NEW S \in SUBSET (0..4), NEW y \in S PROVE Max(S) \in S /\ Max(S) >= y
<1>1. \E x \in S : \A z \in S : x >= z
  <2>1. CASE 4 \in S
    BY <2>1
  <2>2. CASE 4 \notin S /\ 3 \in S
    BY <2>2
  <2>3. CASE 4 \notin S /\ 3 \notin S /\ 2 \in S
    BY <2>3
  <2>4. CASE 4 \notin S /\ 3 \notin S /\ 2 \notin S /\ 1 \in S
    BY <2>4
  <2>5. CASE S = {0}
    BY <2>5
  <2>6. QED BY <2>1, <2>2, <2>3, <2>4, <2>5
<1>2. Max(S) \in S /\ \A z \in S : Max(S) >= z
  BY <1>1, Zenon DEF Max
<1>3. QED BY <1>2

LEMMA PriorType == ASSUME NEW p PROVE Prior(p) \in 1..4
<1> DEFINE S == {LOW} \cup {prior_for(o) : o \in p.ops}
<1>1. S \in SUBSET (1..4) /\ LOW \in S
  BY DEF prior_for, LOW, MODERATE, CRITICAL
<1>2. S \in SUBSET (0..4)
  BY <1>1
<1>3. Max(S) \in S
  BY <1>1, <1>2, MaxIsUpperBound
<1>4. QED BY <1>1, <1>3 DEF Prior

LEMMA CreditsType == ASSUME NEW g, NEW p, NEW r, NEW x PROVE Credits(Signals(g, p, r, x)) \in Nat
<1> DEFINE D == {"rows", "tables", "downstream", "reversibility", "coverage"}
           sig == Signals(g, p, r, x)
           T == {s \in DOMAIN sig : sig[s].credit}
<1>1. DOMAIN sig = D
  BY DEF Signals
<1>2. IsFiniteSet(D)
  <2>1. IsFiniteSet({}) BY FS_EmptySet
  <2>2. IsFiniteSet({} \cup {"rows"}) BY <2>1, FS_AddElement
  <2>3. IsFiniteSet({} \cup {"rows"} \cup {"tables"}) BY <2>2, FS_AddElement
  <2>4. IsFiniteSet({} \cup {"rows"} \cup {"tables"} \cup {"downstream"}) BY <2>3, FS_AddElement
  <2>5. IsFiniteSet({} \cup {"rows"} \cup {"tables"} \cup {"downstream"} \cup {"reversibility"})
    BY <2>4, FS_AddElement
  <2>6. IsFiniteSet({} \cup {"rows"} \cup {"tables"} \cup {"downstream"} \cup {"reversibility"}
                     \cup {"coverage"})
    BY <2>5, FS_AddElement
  <2>7. D = {} \cup {"rows"} \cup {"tables"} \cup {"downstream"} \cup {"reversibility"}
             \cup {"coverage"}
    OBVIOUS
  <2>8. QED BY <2>6, <2>7
<1>3. Cardinality(T) \in Nat
  BY <1>1, <1>2, FS_Subset, FS_CardinalityType
<1>4. QED BY <1>3, RubricAssumption DEF Credits

FloorName == {NoFloor, MODERATE, HIGH}

LEMMA FloorsType ==
  ASSUME NEW g, NEW p, NEW r, NEW x
  PROVE  \A s \in DOMAIN Signals(g, p, r, x) : Signals(g, p, r, x)[s].floor \in FloorName
<1> USE DEF FloorName
<1>1. \A n, m, h : Floor(n, m, h) \in FloorName
  BY DEF Floor, MODERATE, HIGH, NoFloor
<1>2. RowsSignal(p).floor \in FloorName
  BY <1>1 DEF RowsSignal, Measured, Unmeasured
<1>3. TablesSignal(p).floor \in FloorName
  BY <1>1 DEF TablesSignal, Measured
<1>4. DownstreamSignal(g, p).floor \in FloorName
  BY <1>1 DEF DownstreamSignal, Measured, Unmeasured
<1>5. ReversibilitySignal(x, p).floor \in FloorName
  BY DEF ReversibilitySignal, Measured, Unmeasured
<1>6. CoverageSignal(r, p).floor \in FloorName
  BY DEF CoverageSignal, Measured, Unmeasured
<1>7. QED BY <1>2, <1>3, <1>4, <1>5, <1>6 DEF Signals

(* No signal's floor is above the tier.                                    *)
LEMMA TierIsAboveFloors ==
  ASSUME NEW g, NEW p, NEW r, NEW x,
         NEW s \in DOMAIN Signals(g, p, r, x)
  PROVE  TierOf(g, p, r, x) >= Signals(g, p, r, x)[s].floor /\ TierOf(g, p, r, x) \in 0..4
<1> DEFINE sig == Signals(g, p, r, x)
           lowered == IF Prior(p) > Credits(sig) THEN Prior(p) - Credits(sig) ELSE LOW
           S == {lowered} \cup {sig[t].floor : t \in DOMAIN sig}
                  \cup (IF Unproven(x, p) # {} THEN {MODERATE} ELSE {})
<1>1. lowered \in 0..4
  BY PriorType, CreditsType DEF LOW
<1>2. S \in SUBSET (0..4)
  BY <1>1, FloorsType DEF FloorName, NoFloor, MODERATE, HIGH
<1>3. sig[s].floor \in S
  OBVIOUS
<1>4. TierOf(g, p, r, x) = Max(S)
  BY DEF TierOf
<1> HIDE DEF S, lowered, sig
<1>5. Max(S) \in S /\ Max(S) >= sig[s].floor
  BY <1>2, <1>3, MaxIsUpperBound
<1>6. QED BY <1>2, <1>4, <1>5 DEF sig

(* What the decision has looked at before it lets a plan through.          *)
LEMMA UnattendedIsMeasured ==
  ASSUME ForecastIsComputed, Autonomous
  PROVE  LET p == forecast.plan  r == forecast.report  x == forecast.executor
             sig == Signals(graph, p, r, x) IN
         /\ Irreversible(x, p) = {} /\ Unproven(x, p) = {}
         /\ \A s \in DOMAIN sig : sig[s].measured /\ sig[s].floor <= forecast.budget
<1> DEFINE p == forecast.plan
           r == forecast.report
           x == forecast.executor
           b == forecast.budget
           sig == Signals(graph, p, r, x)
<1>1. forecast.decision = IF NeedsApproval(graph, p, r, x, b)
                          THEN "APPROVAL_REQUIRED" ELSE "AUTONOMOUS"
  BY DEF ForecastIsComputed, Autonomous, Forecast
<1>2. ~NeedsApproval(graph, p, r, x, b)
  BY <1>1 DEF Autonomous
<1>3. /\ Irreversible(x, p) = {} /\ Unproven(x, p) = {}
      /\ \A s \in DOMAIN sig : sig[s].measured
      /\ ~(TierOf(graph, p, r, x) > b)
  BY <1>2 DEF NeedsApproval
<1>4. b \in 1..4
  BY DEF ForecastIsComputed, Autonomous, Tier, LOW, CRITICAL
<1>5. ASSUME NEW s \in DOMAIN sig PROVE sig[s].floor <= b
  <2>1. TierOf(graph, p, r, x) >= sig[s].floor /\ TierOf(graph, p, r, x) \in 0..4
    BY TierIsAboveFloors
  <2>2. sig[s].floor \in 0..4
    BY FloorsType DEF FloorName, NoFloor, MODERATE, HIGH
  <2>3. QED BY <1>3, <1>4, <2>1, <2>2
<1>6. QED BY <1>3, <1>5

LEMMA UnattendedIsUndoable ==
  ASSUME ForecastIsComputed, Autonomous PROVE IsUndoable
<1> DEFINE p == forecast.plan
           x == forecast.executor
<1> SUFFICES ASSUME NEW o \in p.ops PROVE o.rows > 0 /\ Treatment[o.key] = "mask"
  BY DEF IsUndoable
<1>1. o \in Operation
  BY DEF ForecastIsComputed, Autonomous, IsPlan
<1>2. RowsSignal(p).measured /\ Irreversible(x, p) = {}
  BY UnattendedIsMeasured DEF Signals
<1>3. o.rows # 0
  BY <1>2 DEF RowsSignal, Unmeasured
<1>4. o.rows \in Nat
  BY <1>1, RowsAssumption DEF Operation
<1>5. reversible(o)
  BY <1>2 DEF Irreversible, can_reverse
<1>6. QED BY <1>3, <1>4, <1>5 DEF reversible

LEMMA UnattendedIsAssessed ==
  ASSUME ForecastIsComputed, Autonomous PROVE IsAssessed
<1> DEFINE p == forecast.plan
           r == forecast.report
           b == forecast.budget
           e == r.of
<1>1. CoverageSignal(r, p).measured /\ CoverageSignal(r, p).floor <= b
  BY UnattendedIsMeasured DEF Signals
<1>2. r # None /\ ~Rejected(r, p)
  BY <1>1 DEF CoverageSignal, Unmeasured
<1>3. IsReport(r) /\ b \in Tier
  BY <1>2 DEF ForecastIsComputed, Autonomous
<1> SUFFICES ASSUME r.against # NoPlan
             PROVE /\ r.against.ops = p.ops
                   /\ b < HIGH =>
                        /\ e.complete
                        /\ \A c \in Column : e.col[c].listed < 2
                        /\ \A c \in Column \ Listed(e) : e.col[c].scan = "none" /\ e.col[c].keys = {}
                   /\ b < MODERATE =>
                        \A c \in Listed(e) :
                          ~e.col[c].excluded =>
                            /\ e.col[c].scan \in {"sampled", "hint"}
                            /\ e.col[c].keys # {} => \E o \in p.ops : o.col = c
  BY <1>2 DEF IsAssessed
<1>4. CoverageSignal(r, p).floor = IF ~DenominatorSound(r) THEN HIGH
                                   ELSE IF ~CoverageClean(r) THEN MODERATE ELSE NoFloor
  BY <1>2 DEF CoverageSignal, Measured
<1>5. /\ r.denominator_verified = e.complete /\ r.anomalies = Anomalies(e)
      /\ r.plan_hash = r.against.ops
      /\ DOMAIN r.entries = Listed(e)
      /\ \A c \in Listed(e) : /\ r.entries[c].partition = Partition(e.col[c])
                              /\ r.entries[c].governance = Governance(e, r.against, c)
  BY <1>3 DEF IsReport, assess, plan_hash
<1>6. \A c \in Column : /\ e.col[c].listed \in Nat /\ e.col[c].excluded \in BOOLEAN
                        /\ e.col[c].scan \in Inspection
  BY <1>3 DEF IsReport, Estate, Facts
<1>7. ASSUME b < HIGH
      PROVE  /\ e.complete
             /\ \A c \in Column : e.col[c].listed < 2
             /\ \A c \in Column \ Listed(e) : e.col[c].scan = "none" /\ e.col[c].keys = {}
  <2>1. DenominatorSound(r)
    BY <1>1, <1>3, <1>4, <1>7 DEF Tier, HIGH, LOW, CRITICAL
  <2>2. e.complete /\ Anomalies(e) = {}
    BY <2>1, <1>5 DEF DenominatorSound
  <2>3. QED BY <2>2, <1>6 DEF Anomalies, Listed
<1>8. r.against.ops = p.ops
  <2>1. r.plan_hash # NoHash
    BY <1>3, <1>5, HashAssumption DEF IsReport, IsPlan, NoHash
  <2>2. QED BY <1>2, <1>5, <2>1 DEF Rejected, plan_hash
<1>9. ASSUME b < MODERATE, NEW c \in Listed(e), ~e.col[c].excluded
      PROVE  /\ e.col[c].scan \in {"sampled", "hint"}
             /\ e.col[c].keys # {} => \E o \in p.ops : o.col = c
  <2>1. CoverageClean(r)
    BY <1>1, <1>3, <1>4, <1>9 DEF Tier, HIGH, MODERATE, LOW, CRITICAL
  <2>2. Partition(e.col[c]) # "inconclusive" /\ Governance(e, r.against, c) # "ungoverned"
    BY <2>1, <1>5, <1>9 DEF CoverageClean, In, ungoverned
  <2>3. e.col[c].scan \in {"sampled", "hint"}
    BY <2>2, <1>9 DEF Partition
  <2>4. e.col[c].keys # {} => \E o \in r.against.ops : o.col = c
    BY <2>2, <1>9 DEF Governance, FoundIn, Listed
  <2>5. QED BY <1>8, <2>3, <2>4
<1>10. QED BY <1>7, <1>9, <1>8

(* What is counted: a finite union of finite rows of entries.              *)
LEMMA FiniteEntries ==
  ASSUME NEW S, IsFiniteSet(S), NEW n \in [S -> Nat]
  PROVE  IsFiniteSet(UNION {{x} \X (1..n[x]) : x \in S})
<1> DEFINE row == [x \in S |-> {x} \X (1..n[x])]
           rows == {{x} \X (1..n[x]) : x \in S}
<1>1. row \in Surjection(S, rows)
  BY DEF Surjection
<1>2. IsFiniteSet(rows)
  BY <1>1, FS_Surjection
<1>3. ASSUME NEW x \in S PROVE IsFiniteSet({x} \X (1..n[x]))
  <2>1. IsFiniteSet({x})
    BY FS_Singleton
  <2>2. n[x] \in Int
    OBVIOUS
  <2>3. IsFiniteSet(1..n[x])
    BY <2>2, FS_Interval
  <2>4. QED BY <2>1, <2>3, FS_Product
<1>4. QED BY <1>2, <1>3, FS_UNION

LEMMA RowsEstimateType ==
  ASSUME NEW p, IsPlan(p) PROVE rows_estimate(p) \in Nat
<1> DEFINE n == [o \in p.ops |-> o.rows]
<1>1. n \in [p.ops -> Nat]
  BY RowsAssumption DEF IsPlan, Operation
<1>2. IsFiniteSet(UNION {{o} \X (1..n[o]) : o \in p.ops})
  BY <1>1, FiniteEntries DEF IsPlan
<1>3. {{o} \X (1..n[o]) : o \in p.ops} = {{o} \X (1..o.rows) : o \in p.ops}
  OBVIOUS
<1>4. QED BY <1>2, <1>3, FS_CardinalityType DEF rows_estimate

-----------------------------------------------------------------------------
(* What the graph reaches.                                                 *)

LEMMA ReachedIsClosed ==
  ASSUME NEW g, g.feeds \in [Object -> SUBSET Object], NEW T \in SUBSET Object
  PROVE  T \subseteq Reached(g, T) /\ Closed(g, Reached(g, T))
<1>1. T \subseteq Reached(g, T)
  BY DEF Reached
<1>2. ASSUME NEW x \in Reached(g, T), NEW y \in Answered(g, x) PROVE y \in Reached(g, T)
  <2>1. x \in Object
    BY DEF Reached
  <2>2. y \in Object
    BY <2>1 DEF Answered
  <2>3. ASSUME NEW S \in SUBSET Object, T \subseteq S, Closed(g, S) PROVE y \in S
    <3>1. x \in S
      BY <2>3 DEF Reached
    <3>2. QED BY <2>3, <3>1 DEF Closed
  <2>4. QED BY <2>2, <2>3 DEF Reached
<1>3. QED BY <1>1, <1>2 DEF Closed

LEMMA ReachedIsLeast ==
  ASSUME NEW g, NEW T, NEW S \in SUBSET Object, T \subseteq S, Closed(g, S)
  PROVE  Reached(g, T) \subseteq S
BY DEF Reached

(* A graph that answers for all it reaches of a plan's tables reaches all  *)
(* that really depends on each of them.                                    *)
LEMMA ReadableIsComplete ==
  ASSUME NEW g \in Graph, NEW T \in SUBSET Object, NEW t \in T,
         Reached(g, T) \subseteq g.known
  PROVE  Reached(g, {t}) = Reached([feeds |-> g.feeds, known |-> Object], {t})
<1> DEFINE full == [feeds |-> g.feeds, known |-> Object]
           R == Reached(g, {t})
           F == Reached(full, {t})
<1>1. g.feeds \in [Object -> SUBSET Object] /\ full.feeds \in [Object -> SUBSET Object]
  BY DEF Graph
<1>2. R \in SUBSET Object /\ F \in SUBSET Object
  BY DEF Reached
<1>3. t \in R /\ Closed(g, R) /\ t \in F /\ Closed(full, F)
  BY <1>1, ReachedIsClosed
<1>4. \A x \in Object : Answered(full, x) = g.feeds[x] /\ Answered(g, x) \subseteq g.feeds[x]
  BY DEF Answered
<1>5. R \subseteq F
  <2>1. Closed(g, F)
    BY <1>2, <1>3, <1>4 DEF Closed
  <2>2. QED BY <1>2, <1>3, <2>1, ReachedIsLeast
<1>6. F \subseteq R
  <2>1. R \subseteq g.known
    <3>1. Reached(g, T) \in SUBSET Object
      BY DEF Reached
    <3>2. t \in Reached(g, T) /\ Closed(g, Reached(g, T))
      BY <1>1, ReachedIsClosed
    <3>3. R \subseteq Reached(g, T)
      BY <3>1, <3>2, ReachedIsLeast
    <3>4. QED BY <3>3
  <2>2. \A x \in R : Answered(full, x) = Answered(g, x)
    BY <1>2, <1>4, <2>1 DEF Answered
  <2>3. Closed(full, R)
    BY <1>3, <2>2 DEF Closed
  <2>4. QED BY <1>2, <1>3, <2>3, ReachedIsLeast
<1>7. QED BY <1>5, <1>6

LEMMA ConsumersAreDependents ==
  ASSUME graph \in Graph, NEW p, IsPlan(p), Unreadable(graph, p) = {}
  PROVE  Consumers(graph, p) = Dependents(p) /\ Dependents(p) \in SUBSET Object
<1> DEFINE full == [feeds |-> graph.feeds, known |-> Object]
           T == objects_touched(p)
<1>1. T \in SUBSET Object
  BY TableAssumption DEF objects_touched, IsPlan, Operation
<1>2. Reached(graph, T) \subseteq graph.known
  BY DEF Unreadable
<1>3. \A t \in T : Reached(graph, {t}) = Reached(full, {t})
  BY <1>1, <1>2, ReadableIsComplete
<1>4. Consumers(graph, p) = Consumers(full, p)
  BY <1>3 DEF Consumers
<1>5. Consumers(full, p) \in SUBSET Object
  BY DEF Consumers, Reached
<1>6. QED BY <1>4, <1>5 DEF Dependents

(* What a floor the budget admits says of what was counted.                *)
LEMMA FloorBounds ==
  ASSUME NEW n \in Nat, NEW moderate \in Nat, NEW high \in Nat, NEW b \in Tier,
         Floor(n, moderate, high) <= b
  PROVE  /\ b < HIGH => n < high
         /\ b < MODERATE => n < moderate
<1>1. CASE n >= high
  BY <1>1 DEF Floor, Tier, LOW, MODERATE, HIGH, CRITICAL
<1>2. CASE n < high /\ n >= moderate
  <2>1. Floor(n, moderate, high) = MODERATE
    BY <1>2 DEF Floor
  <2>2. QED BY <1>2, <2>1 DEF Tier, LOW, MODERATE, HIGH, CRITICAL
<1>3. CASE n < high /\ n < moderate
  BY <1>3
<1>4. QED BY <1>1, <1>2, <1>3

LEMMA UnattendedIsSmall ==
  ASSUME graph \in Graph, ForecastIsComputed, Autonomous PROVE IsSmall
<1> DEFINE p == forecast.plan
           b == forecast.budget
           n == Cardinality(Consumers(graph, p))
<1>1. IsPlan(p) /\ b \in Tier
  BY DEF ForecastIsComputed, Autonomous
<1>2. /\ RowsSignal(p).measured /\ RowsSignal(p).floor <= b
      /\ DownstreamSignal(graph, p).measured /\ DownstreamSignal(graph, p).floor <= b
  BY UnattendedIsMeasured DEF Signals
<1>3. /\ b < HIGH => rows_estimate(p) < RowsHigh
      /\ b < MODERATE => rows_estimate(p) < RowsModerate
  <2>1. RowsSignal(p).floor = Floor(rows_estimate(p), RowsModerate, RowsHigh)
    BY <1>2 DEF RowsSignal, Measured, Unmeasured
  <2>2. rows_estimate(p) \in Nat
    BY <1>1, RowsEstimateType
  <2>3. Floor(rows_estimate(p), RowsModerate, RowsHigh) <= b
    BY <1>2, <2>1
  <2> HIDE DEF p, b
  <2>4. QED BY <1>1, <2>2, <2>3, FloorBounds, RubricAssumption
<1>4. Unreadable(graph, p) = {} /\ DownstreamSignal(graph, p).floor = Floor(n, 1, ConsumersHigh)
  BY <1>2 DEF DownstreamSignal, Measured, Unmeasured
<1>5. Consumers(graph, p) = Dependents(p) /\ Dependents(p) \in SUBSET Object
  BY <1>1, <1>4, ConsumersAreDependents
<1>6. IsFiniteSet(Dependents(p))
  BY <1>5, TableAssumption, FS_Subset
<1>7. n \in Nat
  BY <1>5, <1>6, FS_CardinalityType
<1>8. (b < HIGH => n < ConsumersHigh) /\ (b < MODERATE => n < 1)
  <2>1. Floor(n, 1, ConsumersHigh) <= b
    BY <1>2, <1>4
  <2> HIDE DEF n, b, p
  <2>2. QED BY <1>1, <1>7, <2>1, FloorBounds, RubricAssumption
<1>9. n < 1 => Dependents(p) = {}
  <2>1. n < 1 => Cardinality(Dependents(p)) = 0
    BY <1>5, <1>7
  <2>2. QED BY <1>6, <2>1, FS_EmptySet
<1>10. QED BY <1>3, <1>5, <1>8, <1>9 DEF IsSmall

(* simulate(): nothing is let through unattended that cannot be undone or  *)
(* was not counted; that is larger, or has more depending on it, than the  *)
(* budget allows; or on a report that was taken with other operations, or  *)
(* of an inventory or columns the budget does not allow to be doubtful.    *)
THEOREM AutonomyIsAlwaysEarned == Spec => []AutonomyIsEarned
<1>1. IInv => AutonomyIsEarned
  BY UnattendedIsUndoable, UnattendedIsSmall, UnattendedIsAssessed DEF IInv, AutonomyIsEarned
<1>2. QED BY <1>1, Invariant, PTL

-----------------------------------------------------------------------------
(* Rates.                                                                  *)

LEMMA ListingsAreFinite ==
  ASSUME NEW r, IsReport(r), NEW S \in SUBSET Column
  PROVE  IsFiniteSet(Listings(r, S)) /\ Count(r, S) \in Nat
<1> DEFINE n == [c \in S |-> r.of.col[c].listed]
<1>1. n \in [S -> Nat]
  BY DEF IsReport, Estate, Facts
<1>2. IsFiniteSet(S)
  BY FiniteAssumption, FS_Subset
<1>3. IsFiniteSet(UNION {{c} \X (1..n[c]) : c \in S})
  BY <1>1, <1>2, FiniteEntries
<1>4. {{c} \X (1..n[c]) : c \in S} = {{c} \X (1..r.of.col[c].listed) : c \in S}
  OBVIOUS
<1>5. IsFiniteSet(Listings(r, S))
  BY <1>3, <1>4 DEF Listings
<1>6. QED BY <1>5, FS_CardinalityType DEF Count

(* A part of the listed columns has no more entries than the whole, and as *)
(* many only if it is the whole.                                           *)
LEMMA CountOfPart ==
  ASSUME NEW r, IsReport(r), NEW T \in SUBSET Listed(r.of), NEW S \in SUBSET T
  PROVE  Count(r, S) <= Count(r, T) /\ (Count(r, S) = Count(r, T) => S = T)
<1>0. T \in SUBSET Column /\ S \in SUBSET Column
  BY DEF Listed
<1>1. IsFiniteSet(Listings(r, T))
  BY <1>0, ListingsAreFinite
<1>2. Listings(r, S) \subseteq Listings(r, T)
  BY DEF Listings
<1>3. /\ Cardinality(Listings(r, S)) <= Cardinality(Listings(r, T))
      /\ Cardinality(Listings(r, S)) = Cardinality(Listings(r, T))
           => Listings(r, S) = Listings(r, T)
  BY <1>1, <1>2, FS_Subset
<1>4. ASSUME Listings(r, S) = Listings(r, T), NEW c \in T PROVE c \in S
  <2>1. r.of.col[c].listed \in Nat /\ r.of.col[c].listed > 0
    BY DEF Listed, IsReport, Estate, Facts
  <2>2. <<c, 1>> \in {c} \X (1..r.of.col[c].listed)
    BY <2>1
  <2>3. <<c, 1>> \in Listings(r, T)
    BY <2>2 DEF Listings
  <2>4. PICK d \in S : <<c, 1>> \in {d} \X (1..r.of.col[d].listed)
    BY <1>4, <2>3 DEF Listings
  <2>5. QED BY <2>4
<1>5. QED BY <1>3, <1>4 DEF Count

(* What is left of the entries when those of some columns are taken away.  *)
LEMMA CountOfRest ==
  ASSUME NEW r, IsReport(r), NEW T \in SUBSET Column, NEW S \in SUBSET T
  PROVE  Count(r, T) - Count(r, S) = Count(r, T \ S)
<1>1. IsFiniteSet(Listings(r, T)) /\ IsFiniteSet(Listings(r, S)) /\ IsFiniteSet(Listings(r, T \ S))
  BY ListingsAreFinite
<1>2. Listings(r, T) = Listings(r, S) \cup Listings(r, T \ S)
  BY DEF Listings
<1>3. Listings(r, S) \cap Listings(r, T \ S) = {}
  BY DEF Listings
<1>4. Cardinality(Listings(r, T))
        = Cardinality(Listings(r, S)) + Cardinality(Listings(r, T \ S))
  <2> DEFINE A == Listings(r, S)
             B == Listings(r, T \ S)
  <2>1. Cardinality(A \cup B) = Cardinality(A) + Cardinality(B) - Cardinality(A \cap B)
    BY <1>1, FS_Union
  <2>2. Cardinality(A \cap B) = 0
    BY <1>3, FS_EmptySet
  <2>3. Cardinality(A) \in Nat /\ Cardinality(B) \in Nat
    BY <1>1, FS_CardinalityType
  <2>4. Listings(r, T) = A \cup B
    BY <1>2
  <2> HIDE DEF A, B
  <2>5. Cardinality(A \cup B) = Cardinality(A) + Cardinality(B)
    BY <2>1, <2>2, <2>3
  <2>6. QED BY <2>4, <2>5 DEF A, B
<1>5. Count(r, T) \in Nat /\ Count(r, S) \in Nat /\ Count(r, T \ S) \in Nat
  BY ListingsAreFinite
<1>6. QED BY <1>4, <1>5 DEF Count

LEMMA FullRates ==
  ASSUME report # None, IsReport(report) PROVE AFullRateIsEarned
<1> DEFINE r == report
           e == r.of
           L == Listed(e)
           V == In(r, "verified")
           X == In(r, "excluded")
           G == {c \in DOMAIN r.entries : r.entries[c].governance = "governed"}
           U == ungoverned(r)
<1>1. /\ DOMAIN r.entries = L
      /\ \A c \in L : /\ r.entries[c].partition = Partition(e.col[c])
                      /\ r.entries[c].governance = Governance(e, r.against, c)
      /\ r.against # NoPlan => r.plan_hash = r.against.ops
  BY DEF IsReport, assess, plan_hash
<1>2. L \in SUBSET Column /\ V \in SUBSET L /\ X \in SUBSET L /\ G \in SUBSET L /\ U \in SUBSET L
  BY <1>1 DEF Listed, In, ungoverned
<1>3. \A c \in L : e.col[c].excluded \in BOOLEAN
  BY <1>2 DEF IsReport, Estate, Facts
<1>4. V \in SUBSET (L \ X)
  BY <1>1, <1>2 DEF In
<1>5. \A c \in V : ~e.col[c].excluded /\ e.col[c].scan = "sampled"
  <2>1. ASSUME NEW c \in V PROVE Partition(e.col[c]) = "verified"
    BY <1>1, <1>2 DEF In
  <2>2. QED BY <1>2, <1>3, <2>1 DEF Partition
<1>6. \A c \in X : e.col[c].excluded
  <2>1. ASSUME NEW c \in X PROVE Partition(e.col[c]) = "excluded"
    BY <1>1, <1>2 DEF In
  <2>2. QED BY <1>2, <1>3, <2>1 DEF Partition
<1>7. \A S \in SUBSET L : Count(r, S) \in Nat
  BY <1>2, ListingsAreFinite
<1>8. Count(r, L) - Count(r, X) = Count(r, L \ X)
  BY <1>2, CountOfRest
<1>9. /\ rate(r, "estate") = [numerator |-> Count(r, V), denominator |-> Count(r, L)]
      /\ rate(r, "in_scope") = [numerator |-> Count(r, V), denominator |-> Count(r, L) - Count(r, X)]
      /\ rate(r, "governed") = [numerator |-> Count(r, G), denominator |-> Count(r, G \cup U)]
  BY <1>1 DEF rate
<1>10. /\ Count(r, V) <= Count(r, L) /\ (Count(r, V) = Count(r, L) => V = L)
       /\ Count(r, V) <= Count(r, L \ X) /\ (Count(r, V) = Count(r, L \ X) => V = L \ X)
       /\ Count(r, G) <= Count(r, G \cup U) /\ (Count(r, G) = Count(r, G \cup U) => G = G \cup U)
  BY <1>2, <1>4, CountOfPart
<1>11. \A b \in {"estate", "in_scope", "governed"} : rate(r, b).numerator <= rate(r, b).denominator
  BY <1>8, <1>9, <1>10
<1>12. Full(rate(r, "in_scope")) =>
         \A c \in L : ~e.col[c].excluded => e.col[c].scan = "sampled"
  BY <1>5, <1>6, <1>8, <1>9, <1>10 DEF Full
<1>13. Full(rate(r, "estate")) =>
         \A c \in L : ~e.col[c].excluded /\ e.col[c].scan = "sampled"
  BY <1>5, <1>9, <1>10 DEF Full
<1>14. ASSUME Full(rate(r, "governed")), NEW c \in L \cap FoundIn(e), ~e.col[c].excluded
       PROVE  \E o \in r.plan_hash : o.col = c
  <2>1. Count(r, G \cup U) > 0 /\ G = G \cup U
    BY <1>9, <1>10, <1>14 DEF Full
  <2>2. r.against # NoPlan
    <3>1. SUFFICES ASSUME r.against = NoPlan PROVE G \cup U = {}
      <4>1. Count(r, {}) = 0
        <5>1. Listings(r, {}) = {}
          BY DEF Listings
        <5>2. QED BY <5>1, FS_EmptySet DEF Count
      <4>2. QED BY <2>1, <3>1, <4>1
    <3>2. ASSUME NEW d \in L PROVE r.entries[d].governance \in {"not_applicable", "not_assessed"}
      BY <1>1, <3>1 DEF Governance
    <3>3. QED BY <1>1, <3>2 DEF ungoverned
  <2>3. c \notin U \/ c \in G
    BY <2>1
  <2>4. r.entries[c].governance = IF \E o \in r.against.ops : o.col = c
                                  THEN "governed" ELSE "ungoverned"
    BY <1>1, <1>14, <2>2 DEF Governance
  <2>5. QED BY <1>1, <2>2, <2>3, <2>4 DEF ungoverned
<1>15. QED BY <1>11, <1>12, <1>13, <1>14 DEF AFullRateIsEarned

(* CoverageReport.rate(): a full rate says what it seems to say of the     *)
(* estate its report was taken of, and no rate exceeds one.                *)
THEOREM FullRatesAreEarned == Spec => []AFullRateIsEarned
<1>1. IInv => AFullRateIsEarned
  BY FullRates DEF IInv, ReportIsFaithful, AFullRateIsEarned
<1>2. QED BY <1>1, Invariant, PTL
=============================================================================
