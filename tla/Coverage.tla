------------------------------ MODULE Coverage ------------------------------
(***************************************************************************)
(* What a plan does to the columns of an estate, and what was looked at:   *)
(* compile_plan() turns the findings of a scan into operations, assess()   *)
(* puts every column the catalog lists into one partition and says whether *)
(* the plan treats it.                                                     *)
(*                                                                         *)
(* An estate is what a scan brought back: per column, how often the        *)
(* catalog lists it, what the inspection of it achieved, which identifiers *)
(* were found in it, its row estimate, and whether a rule with a named     *)
(* authority excludes it.                                                  *)
(***************************************************************************)
EXTENDS Naturals, FiniteSets, FiniteSetsExt

CONSTANTS
  Column,
  Key,        \* identifier keys a detector may report
  Treatment,  \* [keys of the policy -> {"mask", "hash", "drop", "retain"}]
  Rows,       \* row estimates, 0 where nobody counted
  NoPlan      \* a report taken before there was a plan

ASSUME PolicyAssumption ==
  /\ DOMAIN Treatment \subseteq Key
  /\ \A k \in DOMAIN Treatment : Treatment[k] \in {"mask", "hash", "drop", "retain"}

ASSUME RowsAssumption == Rows \subseteq Nat

ASSUME FiniteAssumption == IsFiniteSet(Column) /\ IsFiniteSet(Key)

(* How far the inspection of a column got: there is none, it raised, the   *)
(* type cannot be read, too few rows or too little confidence, the name    *)
(* only, or a sample large and sure enough.                                *)
Inspection == {"none", "failed", "opaque", "thin", "unsure", "hint", "sampled"}

Facts ==
  [listed: Nat, scan: Inspection, keys: SUBSET Key, rows: Rows, excluded: BOOLEAN]

Estate == [col: [Column -> Facts], complete: BOOLEAN]

Listed(e) == {c \in Column : e.col[c].listed > 0}

FoundIn(e) == {c \in Column : e.col[c].keys # {}}

(***************************************************************************)
(* compile_plan(): one operation for each finding whose identifier the     *)
(* policy treats.  The plan's hash is that of its operations: what is left *)
(* untouched is reported beside them and is not part of it.                *)
(***************************************************************************)
Treated(k) == k \in DOMAIN Treatment /\ Treatment[k] # "retain"

Operation == [col: Column, key: Key, rows: Rows]

Ops(e) ==
  {o \in Operation :
     /\ o.key \in e.col[o.col].keys
     /\ Treated(o.key)
     /\ o.rows = e.col[o.col].rows}

(* The findings a plan says it leaves untouched, as [col, key].            *)
Unresolved(e) ==
  {u \in [col: Column, key: Key] : u.key \in e.col[u.col].keys /\ ~Treated(u.key)}

Plan == [ops: SUBSET Operation, unresolved: SUBSET [col: Column, key: Key]]

compile_plan(e) == [ops |-> Ops(e), unresolved |-> Unresolved(e)]

plan_hash(plan) == plan.ops

(* What stands for the hash in a report taken without a plan.              *)
NoHash == {NoPlan}

ASSUME HashAssumption == NoPlan \notin Operation

reversible(o) == Treatment[o.key] = "mask"

(***************************************************************************)
(* assess().                                                               *)
(***************************************************************************)
(* A name that looked right counts as a measurement.                       *)
FaultPartition(f) ==
  CASE f.excluded -> "excluded"
    [] ~f.excluded /\ f.scan \in {"sampled", "hint"} -> "verified"
    [] OTHER -> "inconclusive"

Partition(f) ==
  CASE f.excluded -> "excluded"
    [] ~f.excluded /\ f.scan = "sampled" -> "verified"
    [] ~f.excluded /\ f.scan = "hint" -> "observed"
    [] OTHER -> "inconclusive"

(* Only the compiler's own list of leftovers counts as ungoverned.         *)
FaultGovernance(e, plan, c) ==
  CASE e.col[c].excluded -> "not_applicable"
    [] ~e.col[c].excluded /\ plan = NoPlan -> "not_assessed"
    [] ~e.col[c].excluded /\ plan # NoPlan /\ (\E o \in plan.ops : o.col = c) -> "governed"
    [] ~e.col[c].excluded /\ plan # NoPlan /\ (\A o \in plan.ops : o.col # c)
         /\ (\E u \in plan.unresolved : u.col = c) -> "ungoverned"
    [] OTHER -> "not_applicable"

Governance(e, plan, c) ==
  IF e.col[c].excluded THEN "not_applicable"
  ELSE IF plan = NoPlan THEN "not_assessed"
  ELSE IF \E o \in plan.ops : o.col = c THEN "governed"
  ELSE IF (\E u \in plan.unresolved : u.col = c) \/ c \in FoundIn(e) THEN "ungoverned"
  ELSE "not_applicable"

(* Columns listed twice, and columns inspected or found in but not listed. *)
Anomalies(e) ==
  {c \in Column :
     \/ e.col[c].listed > 1
     \/ e.col[c].listed = 0 /\ (e.col[c].scan # "none" \/ e.col[c].keys # {})}

PartitionName == {"verified", "observed", "inconclusive", "excluded"}

GovernanceName == {"governed", "ungoverned", "not_applicable", "not_assessed"}

(* `of` and `against` are history: the estate and the plan it was taken of. *)
assess(e, plan) ==
  [ entries |-> [c \in Listed(e) |->
                   [partition |-> Partition(e.col[c]), governance |-> Governance(e, plan, c)]],
    anomalies |-> Anomalies(e),
    denominator_verified |-> e.complete,
    plan_hash |-> IF plan = NoPlan THEN NoHash ELSE plan_hash(plan),
    of |-> e,
    against |-> plan ]

In(r, p) == {c \in DOMAIN r.entries : r.entries[c].partition = p}

ungoverned(r) == {c \in DOMAIN r.entries : r.entries[c].governance = "ungoverned"}

(* counts: an entry for every time the catalog lists the column.           *)
Listings(r, S) == UNION {{c} \X (1..r.of.col[c].listed) : c \in S}

Count(r, S) == Cardinality(Listings(r, S))

rate(r, basis) ==
  CASE basis = "estate" ->
         [numerator |-> Count(r, In(r, "verified")), denominator |-> Count(r, DOMAIN r.entries)]
    [] basis = "in_scope" ->
         [ numerator |-> Count(r, In(r, "verified")),
           denominator |-> Count(r, DOMAIN r.entries) - Count(r, In(r, "excluded")) ]
    [] basis = "governed" ->
         LET governed == {c \in DOMAIN r.entries : r.entries[c].governance = "governed"} IN
         [ numerator |-> Count(r, governed), denominator |-> Count(r, governed \cup ungoverned(r)) ]

(* The whole of what the basis counts, and there was something to count.   *)
Full(rt) == rt.denominator > 0 /\ rt.numerator = rt.denominator
=============================================================================
