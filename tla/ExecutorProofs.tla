--------------------------- MODULE ExecutorProofs ---------------------------
(* What a receipt is worth, for any plan that names no column twice, any   *)
(* engine and any failures: no record says more than what is so, and a run *)
(* stops at the first doubt.                                               *)
EXTENDS Executor, FiniteSetTheorems, TLAPS

\* The plan names no column twice.  ops_by_target keeps one operation of a
\* column, so without this a record may be of another operation than was run.
OneEach == \A i, j \in DOMAIN Plan : target(i) = target(j) => i = j

UndoStatus == {"rolled_back", "partially_applied", "unknown"}

OpsDiffer(recs) ==
  \A j, k \in DOMAIN recs : recs[j].op = recs[k].op => j = k

\* What a record says of the column of its operation.
Honest(r) ==
  LET c == target(r.op) IN
    /\ r.verified = "yes" => InForce(r.op)
    /\ r.status = "not_attempted" /\ r.verified = "no" => ~InForce(r.op)
    /\ r.status \in {"not_attempted", "failed"} /\ r.verified = "unread" =>
         governs[c] = before[c]
    /\ r.status = "rolled_back" /\ c \notin unmoved
         /\ prestate[c] \notin {None, Plan[r.op].wants} =>
         governs[c] = before[c]

\* The type invariant, with what tells the stages apart.
Staged ==
  /\ TypeOK
  /\ undone \in UndoStatus
  /\ \A c \in Column : prestate[c] \in {None, before[c]}
  /\ at = "idle" => records = <<>> /\ governs = before
  /\ at \in {"idle", "running"} => saved = None
  /\ at = "crashed" => records = <<>> /\ receipt = None
  /\ at \in {"idle", "done", "crashed"} => step = 1
  /\ at \in {"undoing", "done"} =>
       receipt \in Receipt /\ OpsDiffer(receipt.operations)
  /\ at = "done" => records = receipt.operations

\* A run has taken the operations of the schedule in turn and touched no
\* other column, nor the one in hand before its last statement.
RunInOrder ==
  at = "running" =>
    /\ Len(records) <= Len(Schedule)
    /\ \A k \in 1 .. Len(records) : records[k].op = Schedule[k]
    /\ \A c \in Column :
         governs[c] # before[c] =>
           \E k \in 1 .. Len(Schedule) :
             /\ target(Schedule[k]) = c
             /\ \/ k <= Len(records)
                \/ k = Len(records) + 1 /\ step > Statements(Schedule[k])
    /\ Len(records) < Len(Schedule) => step <= Statements(InHand) + 1
    /\ Stopped => step = 1
    /\ Len(records) > CanarySize => ~CanaryBad

\* A rollback has taken the records of its receipt in turn.  What it keeps is
\* still as its record says; what it has to undo, an earlier rollback may
\* have undone.
UndoneInOrder ==
  at = "undoing" =>
    /\ Len(records) <= Len(receipt.operations)
    /\ \A k \in 1 .. Len(records) :
         \/ Kept(receipt.operations[k]) /\ records[k] = receipt.operations[k]
         \/ /\ ~Kept(receipt.operations[k])
            /\ records[k].op = receipt.operations[k].op
            /\ records[k].status \in UndoStatus
    /\ \A k \in Len(records) + 1 .. Len(receipt.operations) :
         Kept(receipt.operations[k]) => Honest(receipt.operations[k])
    /\ \/ step = 1
       \/ /\ step = 2
          /\ Undoing /\ ~Kept(ToUndo)
          /\ Len(UndoStatements(ToUndo.op)) = 2

\* What the verdict of a receipt says, also after its records were undone.
Stands(r) ==
  /\ r.verdict = "COMPLETE" =>
       /\ ~Some(r.operations, {"rolled_back", "unknown"})
       /\ (/\ ~Some(r.operations, {"partially_applied"})
           /\ \A k \in DOMAIN r.operations : Kept(r.operations[k]))
            => \A i \in DOMAIN Plan : InForce(i)
  /\ r.verdict = "HALTED_AT_CANARY" =>
       /\ \A c \in Column \ CanaryTargets : governs[c] = before[c]
       /\ \A k \in DOMAIN r.operations :
            r.operations[k].status # "not_attempted" =>
              target(r.operations[k].op) \in CanaryTargets

VerdictStands ==
  /\ at \in {"undoing", "done"} => Stands(receipt)
  /\ at = "done" /\ receipt.verdict = "COMPLETE"
       /\ ~Some(receipt.operations, {"partially_applied"}) =>
       \A i \in DOMAIN Plan : InForce(i)

\* The receipts returned since one was recorded are of the same operations,
\* and what it keeps they keep.
SavedStands ==
  saved # None =>
    /\ saved \in Receipt /\ OpsDiffer(saved.operations) /\ Stands(saved)
    /\ \A k \in DOMAIN saved.operations :
         Kept(saved.operations[k]) => Honest(saved.operations[k])
    /\ at \in {"undoing", "done"} =>
         /\ DOMAIN receipt.operations = DOMAIN saved.operations
         /\ \A k \in DOMAIN saved.operations :
              /\ receipt.operations[k].op = saved.operations[k].op
              /\ Kept(saved.operations[k]) => Kept(receipt.operations[k])

AllHonest == \A k \in DOMAIN records : Honest(records[k])

\* The inductive invariant.
Sound ==
  /\ Staged
  /\ AllHonest
  /\ RunInOrder
  /\ UndoneInOrder
  /\ VerdictStands
  /\ SavedStands

----------------------------------------------------------------------------
(* The schedule is the plan in another order: the canary, then the rest.   *)

\* Numbers given one to each member of a finite set, from 1 to its size, are
\* all given.
LEMMA AllGiven ==
  ASSUME NEW S, IsFiniteSet(S), NEW f \in [S -> 1 .. Cardinality(S)],
         \A x, y \in S : f[x] = f[y] => x = y
  PROVE  \A k \in 1 .. Cardinality(S) : \E x \in S : f[x] = k
<1> DEFINE n == Cardinality(S)
<1>1. n \in Nat
  BY FS_CardinalityType
<1>2. IsFiniteSet(1 .. n) /\ Cardinality(1 .. n) = n
  BY <1>1, FS_Interval
<1>3. f \in Injection(S, 1 .. n)
  BY DEF Injection, IsInjective
<1>4. f \in Surjection(S, 1 .. n)
  BY <1>2, <1>3, FS_Injection
<1> QED
  BY <1>4 DEF Surjection

\* A set with a member more is larger.
LEMMA Larger ==
  ASSUME NEW U, IsFiniteSet(U), NEW A \in SUBSET U, NEW B \in SUBSET U,
         A \subseteq B, NEW x \in B, x \notin A
  PROVE  Cardinality(A) < Cardinality(B)
<1>1. IsFiniteSet(A) /\ IsFiniteSet(B)
  BY FS_Subset
<1>2. Cardinality(A) \in Nat /\ Cardinality(B) \in Nat
  BY <1>1, FS_CardinalityType
<1>3. Cardinality(A \cup {x}) = Cardinality(A) + 1
  BY <1>1, FS_AddElement
<1>4. Cardinality(A \cup {x}) <= Cardinality(B)
  BY <1>1, FS_Subset
<1> QED
  BY <1>2, <1>3, <1>4

LEMMA PlanType ==
  /\ Len(Plan) \in Nat /\ DOMAIN Plan = 1 .. Len(Plan)
  /\ IsFiniteSet(DOMAIN Plan) /\ Cardinality(DOMAIN Plan) = Len(Plan)
  /\ \A i \in DOMAIN Plan : Plan[i] \in Operation /\ target(i) \in Column
<1>1. Plan \in Seq(Operation)
  BY PlanAssumption
<1>2. Len(Plan) \in Nat /\ DOMAIN Plan = 1 .. Len(Plan)
  BY <1>1
<1>3. \A i \in DOMAIN Plan : Plan[i] \in Operation /\ target(i) \in Column
  <2> TAKE i \in DOMAIN Plan
  <2>1. Plan[i] \in Operation
    BY <1>1
  <2> QED
    BY <2>1 DEF Operation, target
<1>4. IsFiniteSet(1 .. Len(Plan)) /\ Cardinality(1 .. Len(Plan)) = Len(Plan)
  <2>1. PICK n \in Nat : n = Len(Plan)
    BY <1>2
  <2>2. IsFiniteSet(1 .. n) /\ Cardinality(1 .. n) = IF 1 > n THEN 0 ELSE n - 1 + 1
    BY FS_Interval
  <2>3. Cardinality(1 .. n) = n
    BY <2>2
  <2> QED
    BY <2>1, <2>2, <2>3
<1> QED
  BY <1>2, <1>3, <1>4

\* The smallest operations take the first places, one each.
LEMMA PlacesAreGiven ==
  /\ \A i \in DOMAIN Plan : Place(i) \in 1 .. Len(Plan)
  /\ \A i, j \in DOMAIN Plan : Place(i) = Place(j) => i = j
  /\ \A k \in 1 .. Len(Plan) : \E i \in DOMAIN Plan : Place(i) = k
<1> DEFINE Ahead(i) == {j \in DOMAIN Plan : Smaller(j, i)}
<1>1. \A i \in DOMAIN Plan : i \in Nat /\ Plan[i].size \in Nat
  BY PlanType DEF Operation
<1>2. ASSUME NEW i \in DOMAIN Plan
      PROVE  /\ Ahead(i) \in SUBSET (DOMAIN Plan) /\ i \notin Ahead(i)
             /\ Cardinality(Ahead(i)) \in Nat
             /\ Cardinality(Ahead(i)) < Len(Plan)
  <2>1. Ahead(i) \in SUBSET (DOMAIN Plan) /\ i \notin Ahead(i)
    BY <1>1 DEF Smaller
  <2>2. Cardinality(Ahead(i)) \in Nat
    BY <2>1, PlanType, FS_Subset, FS_CardinalityType
  <2>3. DOMAIN Plan \in SUBSET (DOMAIN Plan)
    OBVIOUS
  <2> HIDE DEF Ahead
  <2> QED
    BY <2>1, <2>2, <2>3, PlanType, Larger
<1>3. ASSUME NEW i \in DOMAIN Plan, NEW j \in DOMAIN Plan, Smaller(i, j)
      PROVE  Cardinality(Ahead(i)) < Cardinality(Ahead(j))
  <2>1. Ahead(i) \subseteq Ahead(j) /\ i \in Ahead(j)
    BY <1>1, <1>3 DEF Smaller
  <2> HIDE DEF Ahead
  <2> QED
    BY <1>2, <2>1, PlanType, Larger
<1>4. \A i, j \in DOMAIN Plan : i = j \/ Smaller(i, j) \/ Smaller(j, i)
  BY <1>1 DEF Smaller
<1>5. \A i \in DOMAIN Plan : Place(i) = 1 + Cardinality(Ahead(i))
  BY DEF Place
<1> HIDE DEF Ahead
<1>6. \A i \in DOMAIN Plan : Place(i) \in 1 .. Len(Plan)
  BY <1>2, <1>5, PlanType
<1>7. \A i, j \in DOMAIN Plan : Place(i) = Place(j) => i = j
  BY <1>2, <1>3, <1>4, <1>5
<1>8. \A k \in 1 .. Len(Plan) : \E i \in DOMAIN Plan : Place(i) = k
  <2> DEFINE f == [i \in DOMAIN Plan |-> Place(i)]
  <2>1. f \in [DOMAIN Plan -> 1 .. Cardinality(DOMAIN Plan)]
    BY <1>6, PlanType
  <2>2. \A i, j \in DOMAIN Plan : f[i] = f[j] => i = j
    BY <1>7
  <2>3. \A k \in 1 .. Cardinality(DOMAIN Plan) : \E i \in DOMAIN Plan : f[i] = k
    <3> HIDE DEF f
    <3> QED
      BY <2>1, <2>2, PlanType, AllGiven
  <2> QED
    BY <2>3, PlanType
<1> QED
  BY <1>6, <1>7, <1>8

\* So do the rest, in the plan's order.
LEMMA RestIsPlaced ==
  /\ Cardinality(Rest) \in Nat
  /\ \A i \in Rest : PlaceInRest(i) \in 1 .. Cardinality(Rest)
  /\ \A i, j \in Rest : PlaceInRest(i) = PlaceInRest(j) => i = j
  /\ \A k \in 1 .. Cardinality(Rest) : \E i \in Rest : PlaceInRest(i) = k
<1> DEFINE UpTo(i) == {j \in Rest : j <= i}
<1>1. /\ Rest \subseteq DOMAIN Plan /\ IsFiniteSet(Rest)
      /\ \A i \in Rest : i \in Nat
  <2>1. Rest \in SUBSET (DOMAIN Plan)
    BY DEF Rest
  <2>2. IsFiniteSet(Rest)
    BY <2>1, PlanType, FS_Subset
  <2> QED
    BY <2>1, <2>2, PlanType
<1>2. Cardinality(Rest) \in Nat
  BY <1>1, FS_CardinalityType
<1>3. ASSUME NEW i \in Rest
      PROVE  /\ UpTo(i) \in SUBSET Rest /\ i \in UpTo(i)
             /\ Cardinality(UpTo(i)) \in 1 .. Cardinality(Rest)
  <2>1. UpTo(i) \in SUBSET Rest /\ i \in UpTo(i)
    BY <1>1
  <2> HIDE DEF UpTo
  <2>2. /\ IsFiniteSet(UpTo(i)) /\ Cardinality(UpTo(i)) \in Nat
        /\ Cardinality(UpTo(i)) <= Cardinality(Rest)
    BY <1>1, <2>1, FS_Subset, FS_CardinalityType
  <2>3. Cardinality(UpTo(i)) # 0
    BY <2>1, <2>2, FS_EmptySet
  <2> QED
    BY <1>2, <2>1, <2>2, <2>3
<1>4. ASSUME NEW i \in Rest, NEW j \in Rest, i < j
      PROVE  Cardinality(UpTo(i)) < Cardinality(UpTo(j))
  <2>1. UpTo(i) \subseteq UpTo(j) /\ j \in UpTo(j) /\ j \notin UpTo(i)
    BY <1>1, <1>4
  <2> HIDE DEF UpTo
  <2> QED
    BY <1>1, <1>3, <2>1, Larger
<1>5. \A i \in Rest : PlaceInRest(i) = Cardinality(UpTo(i))
  BY DEF PlaceInRest
<1> HIDE DEF UpTo
<1>6. \A i \in Rest : PlaceInRest(i) \in 1 .. Cardinality(Rest)
  BY <1>3, <1>5
<1>7. \A i, j \in Rest : PlaceInRest(i) = PlaceInRest(j) => i = j
  <2> TAKE i, j \in Rest
  <2>1. i < j \/ j < i \/ i = j
    BY <1>1
  <2>2. Cardinality(UpTo(i)) \in Nat /\ Cardinality(UpTo(j)) \in Nat
    BY <1>2, <1>3
  <2> QED
    BY <1>4, <1>5, <2>1, <2>2
<1>8. \A k \in 1 .. Cardinality(Rest) : \E i \in Rest : PlaceInRest(i) = k
  <2> DEFINE f == [i \in Rest |-> PlaceInRest(i)]
  <2>1. f \in [Rest -> 1 .. Cardinality(Rest)] /\ \A i, j \in Rest : f[i] = f[j] => i = j
    BY <1>6, <1>7
  <2>2. \A k \in 1 .. Cardinality(Rest) : \E i \in Rest : f[i] = k
    <3> HIDE DEF f
    <3> QED
      BY <1>1, <2>1, AllGiven
  <2> QED
    BY <2>2
<1> QED
  BY <1>2, <1>6, <1>7, <1>8

\* The canary is part of the plan.
LEMMA CanarySizeType == CanarySize \in 0 .. Len(Plan)
<1>1. \A a, b \in Nat : Max({a, b}) \in Nat
  <2> TAKE a, b \in Nat
  <2>1. \E x \in {a, b} : \A y \in {a, b} : x >= y
    OBVIOUS
  <2> QED
    BY <2>1 DEF Max
<1>2. \A a, b, c \in Nat : Min({a, b, c}) \in 0 .. a
  <2> TAKE a, b, c \in Nat
  <2>1. \E x \in {a, b, c} : \A y \in {a, b, c} : x <= y
    OBVIOUS
  <2>2. /\ Min({a, b, c}) \in {a, b, c}
        /\ \A y \in {a, b, c} : Min({a, b, c}) <= y
    BY <2>1 DEF Min
  <2> QED
    BY <2>2
<1> DEFINE share == (Len(Plan) * CanaryPercent + 99) \div 100
<1>3. share \in Nat
  <2>1. Len(Plan) \in Nat /\ CanaryPercent \in Nat
    BY PlanType, CanaryAssumption
  <2>2. Len(Plan) * CanaryPercent \in Nat
    BY <2>1
  <2> QED
    BY <2>2
<1> HIDE DEF share
<1>4. Max({CanaryMin, share}) \in Nat /\ CanaryMax \in Nat
  BY <1>1, <1>3, CanaryAssumption
<1>5. CanarySize = IF CanaryPercent = 0 THEN 0
                   ELSE Min({Len(Plan), CanaryMax, Max({CanaryMin, share})})
  BY DEF CanarySize, share
<1>6. Len(Plan) \in Nat
  BY PlanType
<1>7. Min({Len(Plan), CanaryMax, Max({CanaryMin, share})}) \in 0 .. Len(Plan)
  BY <1>2, <1>4, <1>6
<1> QED
  BY <1>5, <1>6, <1>7

\* What a schedule is: every operation once, those of the canary first.
InTurn ==
  /\ Schedule \in Seq(DOMAIN Plan) /\ Len(Schedule) \in Nat
  /\ CanarySize \in 0 .. Len(Schedule)
  /\ \A j, k \in 1 .. Len(Schedule) : Schedule[j] = Schedule[k] => j = k
  /\ \A i \in DOMAIN Plan : \E k \in 1 .. Len(Schedule) : Schedule[k] = i
  /\ \A k \in 1 .. Len(Schedule) :
       target(Schedule[k]) \in CanaryTargets <=> k <= CanarySize

LEMMA ScheduleIsInTurn == OneEach => InTurn
<1> SUFFICES ASSUME OneEach PROVE InTurn
  OBVIOUS
<1> DEFINE m == CanarySize
           r == Cardinality(Rest)
           First(k) == CHOOSE i \in DOMAIN Plan : Place(i) = k
           Later(k) == CHOOSE i \in Rest : PlaceInRest(i) = k
<1>1. m \in 0 .. Len(Plan) /\ r \in Nat /\ Len(Plan) \in Nat
  BY CanarySizeType, RestIsPlaced, PlanType
<1>2. \A i \in DOMAIN Plan : OpOf(target(i)) = i
  <2> TAKE i \in DOMAIN Plan
  <2>1. {j \in DOMAIN Plan : target(j) = target(i)} = {i}
    BY DEF OneEach
  <2>2. i >= i
    BY PlanType
  <2> QED
    BY <2>1, <2>2 DEF OpOf, Max
<1>3. \A k \in 1 .. m : First(k) \in DOMAIN Plan /\ Place(First(k)) = k
  <2> TAKE k \in 1 .. m
  <2>1. \E i \in DOMAIN Plan : Place(i) = k
    BY <1>1, PlacesAreGiven
  <2> QED
    BY <2>1
<1>4. \A k \in 1 .. r : Later(k) \in Rest /\ PlaceInRest(Later(k)) = k
  BY RestIsPlaced
<1>5. \A i \in DOMAIN Plan : /\ target(i) \in CanaryTargets <=> Place(i) <= m
                             /\ i \in Rest <=> Place(i) > m
  <2> TAKE i \in DOMAIN Plan
  <2>1. target(i) \in CanaryTargets <=> Place(i) <= m
    BY DEF CanaryTargets, OneEach
  <2> QED
    BY <1>1, <2>1, PlacesAreGiven DEF Rest
<1>6. \A k \in 1 .. m + r :
        Schedule[k] = IF k <= m THEN First(k) ELSE Later(k - m)
  BY <1>1, <1>2, <1>3 DEF Schedule
<1>7. Rest \subseteq DOMAIN Plan
  BY DEF Rest
<1> HIDE DEF First, Later, m, r
<1>8. \A k \in 1 .. m + r : Schedule[k] \in DOMAIN Plan
  BY <1>1, <1>3, <1>4, <1>6, <1>7
<1>9. Schedule \in Seq(DOMAIN Plan) /\ Len(Schedule) = m + r
  <2> DEFINE Turn(k) == IF k <= CanarySize
                        THEN OpOf(target(CHOOSE i \in DOMAIN Plan : Place(i) = k))
                        ELSE CHOOSE i \in Rest : PlaceInRest(i) = k - CanarySize
  <2>0. Schedule = [k \in 1 .. m + r |-> Turn(k)]
    BY Zenon DEF Schedule, m, r
  <2> HIDE DEF Turn
  <2>1. Schedule = [k \in 1 .. m + r |-> Schedule[k]] /\ m + r \in Nat
    BY <1>1, <2>0
  <2>2. [k \in 1 .. m + r |-> Schedule[k]] \in Seq(DOMAIN Plan)
    BY <1>8, <2>1
  <2> QED
    BY <2>1, <2>2
<1>10. \A k \in 1 .. m + r :
         IF k <= m THEN Place(Schedule[k]) = k
         ELSE Schedule[k] \in Rest /\ PlaceInRest(Schedule[k]) = k - m
  BY <1>1, <1>3, <1>4, <1>6
<1>11. \A k \in 1 .. m + r : target(Schedule[k]) \in CanaryTargets <=> k <= m
  BY <1>1, <1>5, <1>8, <1>10, PlacesAreGiven
<1>12. \A j, k \in 1 .. m + r : Schedule[j] = Schedule[k] => j = k
  BY <1>1, <1>10, <1>11
<1>13. \A i \in DOMAIN Plan : \E k \in 1 .. m + r : Schedule[k] = i
  <2> TAKE i \in DOMAIN Plan
  <2>1. CASE i \in Rest
    <3>1. PlaceInRest(i) \in 1 .. r
      BY <2>1, RestIsPlaced DEF r
    <3> DEFINE k == m + PlaceInRest(i)
    <3>2. k \in 1 .. m + r /\ ~(k <= m) /\ k - m = PlaceInRest(i)
      BY <1>1, <3>1
    <3>3. Schedule[k] = i
      BY <1>10, <2>1, <3>2, RestIsPlaced
    <3> QED
      BY <3>2, <3>3
  <2>2. CASE i \notin Rest
    <3>1. Place(i) \in 1 .. m /\ Place(i) \in 1 .. m + r
      BY <1>1, <1>5, <2>2, PlacesAreGiven
    <3>2. Schedule[Place(i)] = i
      BY <1>8, <1>10, <3>1, PlacesAreGiven
    <3> QED
      BY <3>1, <3>2
  <2> QED
    BY <2>1, <2>2
<1> QED
  BY <1>1, <1>9, <1>11, <1>12, <1>13 DEF InTurn, m
----------------------------------------------------------------------------
(* Types, and what a change of one column leaves alone.                    *)

LEMMA RecType ==
  ASSUME NEW i \in DOMAIN Plan, NEW status \in OperationStatus,
         NEW verified \in {"yes", "no", "unread"}
  PROVE  /\ Rec(i, status, verified) \in Record
         /\ Rec(i, status, verified).op = i
         /\ Rec(i, status, verified).status = status
         /\ Rec(i, status, verified).verified = verified
BY DEF Rec, Record

LEMMA WantsType ==
  ASSUME NEW i \in DOMAIN Plan
  PROVE  /\ Plan[i].wants \in Governance /\ target(i) \in Column
         /\ Statements(i) \in 1 .. 2
BY PlanType DEF Operation, Governance, Statements

\* A list and one more.
LEMMA OneMore ==
  ASSUME NEW S, NEW s \in Seq(S), NEW x \in S
  PROVE  /\ Append(s, x) \in Seq(S)
         /\ Len(s) \in Nat /\ Len(Append(s, x)) = Len(s) + 1
         /\ Append(s, x)[Len(s) + 1] = x
         /\ \A k \in 1 .. Len(s) : Append(s, x)[k] = s[k]
OBVIOUS

\* What a record says stands while nobody touches its column.
LEMMA StaysHonest ==
  ASSUME NEW r \in Record, Honest(r), UNCHANGED <<before, prestate>>,
         governs'[target(r.op)] = governs[target(r.op)],
         target(r.op) \in unmoved' <=> target(r.op) \in unmoved
  PROVE  Honest(r)'
BY DEF Honest, InForce

\* What the verdict of a receipt says stands while nobody touches a column
\* that it kept.
LEMMA StaysStanding ==
  ASSUME NEW r \in Receipt, Stands(r), UNCHANGED before, NEW C \in SUBSET Column,
         \A d \in Column \ C : governs'[d] = governs[d],
         r.verdict = "HALTED_AT_CANARY" => C \subseteq CanaryTargets,
         C # {} => \E k \in DOMAIN r.operations : ~Kept(r.operations[k])
  PROVE  Stands(r)'
<1>1. ASSUME \A k \in DOMAIN r.operations : Kept(r.operations[k]),
             \A i \in DOMAIN Plan : InForce(i)
      PROVE  \A i \in DOMAIN Plan : InForce(i)'
  <2> TAKE i \in DOMAIN Plan
  <2>1. target(i) \in Column /\ C = {}
    BY <1>1, PlanType
  <2> QED
    BY <1>1, <2>1 DEF InForce
<1>2. ASSUME r.verdict = "HALTED_AT_CANARY", NEW c \in Column \ CanaryTargets
      PROVE  governs'[c] = before'[c]
  BY <1>2 DEF Stands
<1> QED
  BY <1>1, <1>2 DEF Stands, Kept, Some

\* So does what the recorded receipt says.
LEMMA SavedStays ==
  ASSUME OneEach, Sound, saved # None, UNCHANGED <<before, prestate, saved>>,
         NEW C \in SUBSET Column,
         \A d \in Column \ C : governs'[d] = governs[d] /\ (d \in unmoved' <=> d \in unmoved),
         \A k \in DOMAIN saved.operations :
           Kept(saved.operations[k]) => target(saved.operations[k].op) \notin C,
         C # {} => /\ \E k \in DOMAIN saved.operations : ~Kept(saved.operations[k])
                   /\ saved.verdict = "HALTED_AT_CANARY" => C \subseteq CanaryTargets
  PROVE  /\ saved \in Receipt /\ OpsDiffer(saved.operations) /\ Stands(saved)'
         /\ \A k \in DOMAIN saved.operations :
              /\ saved.operations[k] \in Record
              /\ Kept(saved.operations[k]) => Honest(saved.operations[k])'
<1>1. PICK r \in Receipt : r = saved
  BY DEF Sound, SavedStands
<1>2. OpsDiffer(r.operations) /\ Stands(r)
  BY <1>1 DEF Sound, SavedStands
<1>3. Stands(r)'
  <2>1. C # {} => \E k \in DOMAIN r.operations : ~Kept(r.operations[k])
    BY <1>1
  <2>2. r.verdict = "HALTED_AT_CANARY" => C \subseteq CanaryTargets
    BY <1>1
  <2> QED
    BY <1>2, <2>1, <2>2, StaysStanding
<1>4. ASSUME NEW k \in DOMAIN r.operations
      PROVE  /\ r.operations[k] \in Record
             /\ Kept(r.operations[k]) => Honest(r.operations[k])'
  <2>1. PICK q \in Record : q = r.operations[k]
    BY <1>1, <1>4 DEF Receipt
  <2>2. ASSUME Kept(q) PROVE Honest(q)'
    <3>1. q.op \in DOMAIN Plan
      BY DEF Record
    <3>2. Honest(q) /\ target(q.op) \in Column \ C
      BY <1>1, <1>4, <2>1, <2>2, <3>1, PlanType DEF Sound, SavedStands
    <3>3. /\ governs'[target(q.op)] = governs[target(q.op)]
          /\ target(q.op) \in unmoved' <=> target(q.op) \in unmoved
      BY <3>2
    <3> QED
      BY <3>2, <3>3, StaysHonest
  <2> QED
    BY <2>1, <2>2
<1> QED
  BY <1>1, <1>2, <1>3, <1>4

\* Nothing else touches a column once a receipt is recorded.
LEMMA SavedUntouched ==
  ASSUME OneEach, Sound, saved # None,
         UNCHANGED <<governs, before, prestate, saved, unmoved>>
  PROVE  /\ saved \in Receipt /\ OpsDiffer(saved.operations) /\ Stands(saved)'
         /\ \A k \in DOMAIN saved.operations :
              /\ saved.operations[k] \in Record
              /\ Kept(saved.operations[k]) => Honest(saved.operations[k])'
<1>1. {} \in SUBSET Column
  OBVIOUS
<1>2. PICK C \in SUBSET Column : C = {}
  BY <1>1
<1> QED
  BY <1>2, SavedStays

LEMMA NothingStarted == Init => Sound
<1> SUFFICES ASSUME Init PROVE Sound
  OBVIOUS
<1>1. records = <<>> /\ records \in Seq(Record) /\ DOMAIN records = {}
  BY DEF Init
<1>2. governs \in [Column -> Policy \cup {Bare}] /\ before = governs /\ at = "idle"
  BY DEF Init
<1>3. TypeOK
  BY <1>1, <1>2 DEF Init, TypeOK, Governance, OperationStatus
<1>4. Staged
  BY <1>1, <1>2, <1>3 DEF Init, Staged, UndoStatus
<1> QED
  BY <1>1, <1>2, <1>4 DEF Init, Sound, AllHonest, RunInOrder, UndoneInOrder,
                          VerdictStands, SavedStands

\* A plan that is refused leaves a receipt of what was not attempted.
LEMMA RefuseIsSound ==
  ASSUME OneEach, Sound, Refuse
  PROVE  Sound'
<1> USE DEF Sound, Staged
<1> DEFINE recs == [k \in DOMAIN Plan |-> Rec(k, "not_attempted", "unread")]
<1>1. /\ recs \in Seq(Record) /\ DOMAIN recs = DOMAIN Plan
      /\ \A k \in DOMAIN recs : /\ recs[k] \in Record /\ recs[k].op = k
                                /\ recs[k].status = "not_attempted"
                                /\ recs[k].verified = "unread"
  <2>1. \A k \in DOMAIN Plan :
          /\ Rec(k, "not_attempted", "unread") \in Record
          /\ Rec(k, "not_attempted", "unread").op = k
          /\ Rec(k, "not_attempted", "unread").status = "not_attempted"
          /\ Rec(k, "not_attempted", "unread").verified = "unread"
    BY RecType DEF OperationStatus
  <2> QED
    BY <2>1, PlanType
<1> HIDE DEF recs
<1>2. /\ records' = recs /\ at' = "done"
      /\ receipt' = [verdict |-> "REFUSED", operations |-> recs, reconciled |-> FALSE]
      /\ UNCHANGED <<governs, before, on_failure, prestate, step, undone,
                     saved, unmoved>>
      /\ governs = before /\ step = 1 /\ saved = None
  BY DEF Refuse, recs
<1>3. receipt' \in Receipt /\ receipt'.verdict = "REFUSED" /\ receipt'.operations = recs
  BY <1>1, <1>2 DEF Receipt, Verdict
<1>4. OpsDiffer(recs)
  BY <1>1 DEF OpsDiffer
<1>5. Staged'
  BY <1>1, <1>2, <1>3, <1>4 DEF TypeOK, OpsDiffer
<1>6. AllHonest'
  BY <1>1, <1>2 DEF AllHonest, Honest
<1> QED
  BY <1>2, <1>3, <1>5, <1>6 DEF RunInOrder, UndoneInOrder, VerdictStands, Stands,
                                SavedStands

LEMMA BeginIsSound ==
  ASSUME InTurn, Sound, NEW unreadable \in SUBSET Column, Begin(unreadable)
  PROVE  Sound'
<1> USE DEF Sound, Staged
<1>1. /\ at' = "running" /\ records = <<>> /\ governs = before /\ step = 1
      /\ saved = None
      /\ UNCHANGED <<governs, before, on_failure, records, step, undone, receipt,
                     saved, unmoved>>
  BY DEF Begin
<1>2. \A c \in Column : prestate'[c] \in {None, before[c]}
  BY <1>1 DEF Begin
<1>3. prestate' \in [Column -> Governance \cup {None}]
  <2>1. \A c \in Column : governs[c] \in Governance
    BY DEF TypeOK
  <2> QED
    BY <2>1 DEF Begin
<1>4. Staged'
  BY <1>1, <1>2, <1>3 DEF TypeOK
<1>5. Len(records) = 0 /\ \A k \in DOMAIN records : FALSE
  BY <1>1
<1>6. RunInOrder'
  <2>1. ~(Stopped /\ step # 1)
    BY <1>1
  <2>2. 0 < Len(Schedule) => 1 <= Statements(Schedule[1]) + 1
    <3> SUFFICES ASSUME 0 < Len(Schedule) PROVE 1 <= Statements(Schedule[1]) + 1
      OBVIOUS
    <3>1. Schedule[1] \in DOMAIN Plan
      BY DEF InTurn
    <3> QED
      BY <3>1, WantsType
  <2> QED
    BY <1>1, <1>5, <2>2 DEF RunInOrder, InTurn, InHand
<1> QED
  BY <1>1, <1>4, <1>5, <1>6 DEF AllHonest, UndoneInOrder, VerdictStands, SavedStands

LEMMA CrashIsSound ==
  ASSUME OneEach, Sound, Crash
  PROVE  Sound'
<1>1. /\ records' = <<>> /\ at' = "crashed" /\ step' = 1 /\ receipt' = None
      /\ undone' = "rolled_back"
      /\ UNCHANGED <<governs, before, on_failure, prestate,
                     saved, unmoved>>
  BY DEF Crash
<1>2. records' \in Seq(Record) /\ DOMAIN records' = {}
  BY <1>1
<1>3. Staged'
  BY <1>1, <1>2 DEF Sound, Staged, TypeOK, UndoStatus, OperationStatus
<1>4. SavedStands'
  <2>1. CASE saved = None
    BY <1>1, <2>1 DEF SavedStands
  <2>2. CASE saved # None
    <3>1. /\ saved \in Receipt /\ OpsDiffer(saved.operations) /\ Stands(saved)'
          /\ \A k \in DOMAIN saved.operations :
               Kept(saved.operations[k]) => Honest(saved.operations[k])'
      BY <1>1, <2>2, SavedUntouched
    <3> QED
      BY <1>1, <3>1 DEF SavedStands, OpsDiffer, Kept, Stands, Honest, Some
  <2> QED
    BY <2>1, <2>2
<1> QED
  BY <1>1, <1>2, <1>3, <1>4 DEF Sound, AllHonest, RunInOrder, UndoneInOrder, VerdictStands

\* reconcile() reads the engine, so what it records is what is so.
LEMMA ReconcileIsSound ==
  ASSUME OneEach, Sound, NEW unreadable \in SUBSET Column, Reconcile(unreadable)
  PROVE  Sound'
<1> USE DEF Sound, Staged
<1> DEFINE Answer(i) == CHOOSE a \in Answers(i) : (a = "unread") = (target(i) \in unreadable)
           recs == [i \in DOMAIN Plan |-> Observed(i, Answer(i))]
<1>1. \A i \in DOMAIN Plan : Answer(i) \in Answers(i)
  <2> TAKE i \in DOMAIN Plan
  <2>1. \E a \in Answers(i) : (a = "unread") = (target(i) \in unreadable)
    BY DEF Answers
  <2> QED
    BY <2>1, Zenon
<1>2. /\ records' = recs /\ at' = "done"
      /\ receipt' = [verdict |-> ReconcileVerdict(recs), operations |-> recs,
                     reconciled |-> TRUE]
      /\ prestate' = [c \in Column |-> None]
      /\ UNCHANGED <<governs, before, on_failure, step, undone,
                     saved, unmoved>> /\ step = 1
  BY DEF Reconcile
<1> HIDE DEF Answer
<1>3. \A i \in DOMAIN Plan :
        /\ recs[i] \in Record /\ recs[i].op = i
        /\ recs[i].status \in {"applied", "not_attempted", "unknown"}
        /\ recs[i].verified = "yes" => InForce(i)
        /\ recs[i].verified = "no" => ~InForce(i)
        /\ recs[i].status = "not_attempted" => recs[i].verified = "no"
        /\ recs[i].status = "applied" => recs[i].verified = "yes"
  <2> TAKE i \in DOMAIN Plan
  <2>1. PICK a \in Answers(i) : a = Answer(i)
    BY <1>1
  <2>2. recs[i] = Observed(i, a)
    BY <2>1
  <2>3. CASE a = "yes"
    <3>1. recs[i] = Rec(i, "applied", "yes") /\ InForce(i)
      BY <2>2, <2>3 DEF Observed, Answers, InForce
    <3> QED
      BY <3>1, RecType DEF OperationStatus
  <2>4. CASE a = "no"
    <3>1. recs[i] = Rec(i, "not_attempted", "no") /\ ~InForce(i)
      BY <2>2, <2>4 DEF Observed, Answers, InForce
    <3> QED
      BY <3>1, RecType DEF OperationStatus
  <2>5. CASE a = "unread"
    <3>1. recs[i] = Rec(i, "unknown", "unread")
      BY <2>2, <2>5 DEF Observed
    <3> QED
      BY <3>1, RecType DEF OperationStatus
  <2> QED
    BY <2>3, <2>4, <2>5 DEF Answers
<1>4. DOMAIN recs = DOMAIN Plan /\ recs \in Seq(Record)
  BY <1>3, PlanType
<1> HIDE DEF recs
<1>5. /\ receipt' \in Receipt /\ receipt'.operations = recs
      /\ receipt'.verdict = ReconcileVerdict(recs)
      /\ receipt'.verdict # "HALTED_AT_CANARY"
  BY <1>2, <1>4 DEF Receipt, ReconcileVerdict, Verdict
<1>6. OpsDiffer(recs)
  BY <1>3, <1>4 DEF OpsDiffer
<1>7. Staged'
  BY <1>2, <1>4, <1>5, <1>6 DEF TypeOK, OpsDiffer
<1>8. AllHonest'
  BY <1>2, <1>3, <1>4, WantsType DEF AllHonest, Honest, InForce
<1>9. VerdictStands'
  <2> SUFFICES ASSUME ReconcileVerdict(recs) = "COMPLETE"
               PROVE  /\ ~Some(recs, {"rolled_back", "unknown"})
                      /\ \A i \in DOMAIN Plan : InForce(i)'
    BY <1>2, <1>5 DEF VerdictStands, Stands
  <2>1. ~Some(recs, {"unknown"}) /\ ~Some(recs, {"not_attempted"})
    BY DEF ReconcileVerdict
  <2>2. \A i \in DOMAIN Plan : recs[i].status = "applied"
    BY <1>3, <1>4, <2>1 DEF Some
  <2> QED
    BY <1>2, <1>3, <1>4, <2>2 DEF Some, InForce
<1>10. saved' = None
  BY <1>2 DEF Reconcile
<1> QED
  BY <1>2, <1>7, <1>8, <1>9, <1>10 DEF RunInOrder, UndoneInOrder, SavedStands
----------------------------------------------------------------------------
(* A run.                                                                  *)

\* The records of a run are of other columns than the operation in hand.
LEMMA OthersInHand ==
  ASSUME OneEach, InTurn, Sound, at = "running", Len(records) < Len(Schedule)
  PROVE  /\ InHand \in DOMAIN Plan
         /\ Len(records) + 1 \in 1 .. Len(Schedule)
         /\ \A k \in 1 .. Len(Schedule) :
              target(Schedule[k]) = target(InHand) => k = Len(records) + 1
         /\ \A k \in DOMAIN records :
              /\ records[k] \in Record /\ records[k].op = Schedule[k]
              /\ target(records[k].op) # target(InHand)
<1>1. /\ records \in Seq(Record) /\ Len(records) \in Nat
      /\ DOMAIN records = 1 .. Len(records)
  BY DEF Sound, Staged, TypeOK
<1>2. Len(records) + 1 \in 1 .. Len(Schedule) /\ InHand = Schedule[Len(records) + 1]
  BY <1>1 DEF InTurn, InHand
<1>3. \A k \in 1 .. Len(Schedule) : Schedule[k] \in DOMAIN Plan
  BY DEF InTurn
<1>4. \A k \in 1 .. Len(Schedule) :
        target(Schedule[k]) = target(InHand) => k = Len(records) + 1
  BY <1>2, <1>3 DEF OneEach, InTurn
<1>5. \A k \in DOMAIN records : k \in 1 .. Len(Schedule) /\ k # Len(records) + 1
  BY <1>1, <1>2
<1>6. \A k \in DOMAIN records : records[k] \in Record /\ records[k].op = Schedule[k]
  BY <1>1 DEF Sound, RunInOrder
<1> QED
  BY <1>2, <1>3, <1>4, <1>5, <1>6

\* Nothing has been done to the column of the operation in hand before its
\* last statement.
LEMMA InHandUntouched ==
  ASSUME OneEach, InTurn, Sound, at = "running", Len(records) < Len(Schedule),
         step <= Statements(InHand)
  PROVE  governs[target(InHand)] = before[target(InHand)]
<1> DEFINE c == target(InHand)
<1>1. InHand \in DOMAIN Plan /\ c \in Column
  BY OthersInHand, WantsType
<1> SUFFICES ASSUME governs[c] # before[c] PROVE FALSE
  OBVIOUS
<1>2. PICK k \in 1 .. Len(Schedule) :
        /\ target(Schedule[k]) = c
        /\ \/ k <= Len(records)
           \/ k = Len(records) + 1 /\ step > Statements(Schedule[k])
  BY <1>1 DEF Sound, RunInOrder
<1>3. k = Len(records) + 1
  BY <1>2, OthersInHand
<1>4. step > Statements(InHand)
  BY <1>2, <1>3 DEF InHand, Sound, Staged, TypeOK
<1>5. step \in Nat /\ Statements(InHand) \in Nat
  BY <1>1, WantsType DEF Sound, Staged, TypeOK
<1> QED
  BY <1>4, <1>5

\* A statement reaches the column of its operation, if it is the last one.
LEMMA LandType ==
  ASSUME OneEach, InTurn, Sound, Issuing, governs' \in {Land, governs}
  PROVE  /\ governs' \in [Column -> Governance]
         /\ \A c \in Column :
              governs'[c] # governs[c] => c = target(InHand) /\ step = Statements(InHand)
<1>1. InHand \in DOMAIN Plan
  BY OthersInHand DEF Issuing
<1>2. governs \in [Column -> Governance]
  BY DEF Sound, Staged, TypeOK
<1>3. CASE governs' = governs
  BY <1>2, <1>3
<1>4. CASE governs' # governs
  <2>1. /\ step = Statements(InHand)
        /\ governs' = [governs EXCEPT ![target(InHand)] = Plan[InHand].wants]
    BY <1>4 DEF Land
  <2> QED
    BY <1>1, <1>2, <2>1, WantsType
<1> QED
  BY <1>3, <1>4

\* The records of other columns than one stay honest while that one changes.
LEMMA RecordsStayHonest ==
  ASSUME Sound, NEW c, UNCHANGED <<before, prestate>>,
         \A d \in Column :
           d # c => governs'[d] = governs[d] /\ (d \in unmoved' <=> d \in unmoved),
         NEW r \in Record, Honest(r), target(r.op) # c
  PROVE  Honest(r)'
<1>1. r.op \in DOMAIN Plan
  BY DEF Record
<1>2. target(r.op) \in Column
  BY <1>1, WantsType
<1>3. /\ governs'[target(r.op)] = governs[target(r.op)]
      /\ target(r.op) \in unmoved' <=> target(r.op) \in unmoved
  BY <1>2
<1> QED
  BY <1>3, StaysHonest

LEMMA AcceptedIsSound ==
  ASSUME OneEach, InTurn, Sound, StatementAccepted
  PROVE  Sound'
<1>1. /\ Issuing /\ step' = step + 1
      /\ governs' \in {Land, governs}
      /\ UNCHANGED <<before, at, on_failure, prestate, records, undone, receipt,
                     saved, unmoved>>
      /\ at = "running" /\ Len(records) < Len(Schedule) /\ ~Stopped
      /\ step <= Statements(InHand)
  BY DEF StatementAccepted, Issuing
<1>2. InHand \in DOMAIN Plan /\ Statements(InHand) \in 1 .. 2 /\ step \in 1 .. 3
      /\ Len(records) \in Nat
  BY <1>1, OthersInHand, WantsType DEF Sound, Staged, TypeOK
<1>3. /\ governs' \in [Column -> Governance]
      /\ \A c \in Column :
           governs'[c] # governs[c] => c = target(InHand) /\ step = Statements(InHand)
  BY <1>1, LandType
<1>4. Staged'
  BY <1>1, <1>2, <1>3 DEF Sound, Staged, TypeOK, OpsDiffer
<1>5. AllHonest'
  <2> SUFFICES ASSUME NEW k \in DOMAIN records PROVE Honest(records[k])'
    BY <1>1 DEF AllHonest
  <2>1. PICK r \in Record : r = records[k]
    BY <1>1, OthersInHand
  <2>2. Honest(r) /\ target(r.op) # target(InHand)
    BY <1>1, <2>1, OthersInHand DEF Sound, AllHonest
  <2>3. \A c \in Column : c # target(InHand) => governs'[c] = governs[c]
    BY <1>3
  <2>4. Honest(r)'
    BY <1>1, <2>2, <2>3, RecordsStayHonest
  <2> QED
    BY <1>1, <2>1, <2>4
<1>6. RunInOrder'
  <2>1. \A c \in Column :
          governs'[c] # before[c] =>
            \E k \in 1 .. Len(Schedule) :
              /\ target(Schedule[k]) = c
              /\ \/ k <= Len(records)
                 \/ k = Len(records) + 1 /\ step + 1 > Statements(Schedule[k])
    <3> SUFFICES ASSUME NEW c \in Column, governs'[c] # before[c]
                 PROVE  \E k \in 1 .. Len(Schedule) :
                          /\ target(Schedule[k]) = c
                          /\ \/ k <= Len(records)
                             \/ k = Len(records) + 1 /\ step + 1 > Statements(Schedule[k])
      OBVIOUS
    <3>1. CASE governs[c] # before[c]
      <4>1. PICK k \in 1 .. Len(Schedule) :
              /\ target(Schedule[k]) = c
              /\ \/ k <= Len(records)
                 \/ k = Len(records) + 1 /\ step > Statements(Schedule[k])
        BY <1>1, <3>1 DEF Sound, RunInOrder
      <4>2. k = Len(records) + 1 => ~(step > Statements(Schedule[k]))
        BY <1>1, <1>2 DEF InHand
      <4> QED
        BY <4>1, <4>2
    <3>2. CASE governs'[c] # governs[c]
      <4>1. c = target(InHand) /\ step = Statements(InHand)
        BY <1>3, <3>2
      <4>2. Len(records) + 1 \in 1 .. Len(Schedule)
        BY <1>1, OthersInHand
      <4> QED
        BY <1>2, <4>1, <4>2 DEF InHand
    <3> QED
      BY <3>1, <3>2
  <2>2. step + 1 <= Statements(InHand) + 1
    BY <1>1, <1>2
  <2>3. Stopped' = Stopped /\ CanaryBad' = CanaryBad
    BY <1>1 DEF Stopped, CanaryBad
  <2> QED
    BY <1>1, <2>1, <2>2, <2>3 DEF Sound, RunInOrder, InHand
<1> QED
  BY <1>1, <1>4, <1>5, <1>6 DEF Sound, UndoneInOrder, VerdictStands, Staged, SavedStands

\* Recording what became of the operation in hand.
LEMMA RecordedIsSound ==
  ASSUME OneEach, InTurn, Sound, at = "running", Len(records) < Len(Schedule),
         ~Stopped, NEW r \in Record, r.op = InHand, Append1(r), Honest(r)',
         governs' \in [Column -> Governance],
         \A c \in Column : c # target(InHand) => governs'[c] = governs[c],
         UNCHANGED <<before, at, on_failure, prestate, undone, receipt,
                     saved, unmoved>>
  PROVE  Sound'
<1> DEFINE n == Len(records)
<1>1. records' = Append(records, r) /\ step' = 1
  BY DEF Append1
<1>2. records \in Seq(Record)
  BY DEF Sound, Staged, TypeOK
<1>3. /\ records' \in Seq(Record) /\ n \in Nat /\ Len(records') = n + 1
      /\ records'[n + 1] = r /\ \A k \in 1 .. n : records'[k] = records[k]
  BY <1>1, <1>2, OneMore
<1>4. n + 1 \in 1 .. Len(Schedule) /\ Schedule[n + 1] = InHand
      /\ InHand \in DOMAIN Plan
  BY OthersInHand DEF InHand
<1>5. Staged'
  BY <1>1, <1>3 DEF Sound, Staged, TypeOK, OpsDiffer
<1>6. AllHonest'
  <2> SUFFICES ASSUME NEW k \in 1 .. n + 1 PROVE Honest(records[k])'
    BY <1>3 DEF AllHonest
  <2>1. CASE k = n + 1
    BY <1>3, <2>1
  <2>2. CASE k \in 1 .. n
    <3>1. PICK q \in Record : q = records[k]
      BY <1>2, <2>2
    <3>2. Honest(q) /\ target(q.op) # target(InHand)
      BY <1>2, <2>2, <3>1, OthersInHand DEF Sound, AllHonest
    <3>3. Honest(q)'
      BY <3>2, RecordsStayHonest
    <3> QED
      BY <1>3, <2>2, <3>1, <3>3
  <2> QED
    BY <1>3, <2>1, <2>2
<1>7. RunInOrder'
  <2>1. \A k \in 1 .. n + 1 : records'[k].op = Schedule[k]
    BY <1>3, <1>4 DEF Sound, RunInOrder
  <2>2. \A c \in Column :
          governs'[c] # before[c] =>
            \E k \in 1 .. Len(Schedule) : target(Schedule[k]) = c /\ k <= n + 1
    <3> SUFFICES ASSUME NEW c \in Column, governs'[c] # before[c]
                 PROVE  \E k \in 1 .. Len(Schedule) : target(Schedule[k]) = c /\ k <= n + 1
      OBVIOUS
    <3>1. CASE c = target(InHand)
      BY <1>3, <1>4, <3>1
    <3>2. CASE c # target(InHand)
      <4>1. governs[c] # before[c]
        BY <3>2
      <4>2. PICK k \in 1 .. Len(Schedule) : target(Schedule[k]) = c /\ (k <= n \/ k = n + 1)
        BY <4>1 DEF Sound, RunInOrder
      <4> QED
        BY <1>3, <4>2
    <3> QED
      BY <3>1, <3>2
  <2>3. n + 1 < Len(Schedule) => 1 <= Statements(Schedule[n + 1 + 1]) + 1
    <3> SUFFICES ASSUME n + 1 < Len(Schedule)
                 PROVE  1 <= Statements(Schedule[n + 1 + 1]) + 1
      OBVIOUS
    <3>1. Schedule[n + 1 + 1] \in DOMAIN Plan
      BY <1>3 DEF InTurn
    <3> QED
      BY <3>1, WantsType
  <2>4. n + 1 > CanarySize => ~CanaryBad'
    <3> SUFFICES ASSUME n + 1 > CanarySize PROVE ~CanaryBad'
      OBVIOUS
    <3>1. n >= CanarySize /\ CanarySize \in Nat
      BY <1>3 DEF InTurn
    <3>2. ~CanaryBad
      BY <3>1 DEF Stopped
    <3> QED
      BY <1>3, <3>1, <3>2 DEF CanaryBad
  <2>5. n + 1 <= Len(Schedule)
    BY <1>4
  <2> QED
    BY <1>1, <1>3, <2>1, <2>2, <2>3, <2>4, <2>5 DEF RunInOrder, InHand
<1> QED
  BY <1>1, <1>5, <1>6, <1>7 DEF Sound, UndoneInOrder, VerdictStands, Staged, SavedStands

LEMMA RejectedIsSound ==
  ASSUME OneEach, InTurn, Sound, StatementRejected
  PROVE  Sound'
<1> DEFINE status == IF step = 1 THEN "failed" ELSE "partially_applied"
<1>1. /\ at = "running" /\ Len(records) < Len(Schedule) /\ ~Stopped
      /\ step <= Statements(InHand) /\ Append1(Rec(InHand, status, "unread"))
      /\ UNCHANGED <<governs, before, at, on_failure, prestate, undone, receipt,
                     saved, unmoved>>
  BY DEF StatementRejected, Issuing
<1>2. InHand \in DOMAIN Plan
  BY <1>1, OthersInHand
<1>3. PICK r \in Record : /\ r = Rec(InHand, status, "unread") /\ r.op = InHand
                          /\ r.status \in {"failed", "partially_applied"}
  BY <1>2, RecType DEF OperationStatus
<1>4. governs[target(InHand)] = before[target(InHand)]
  BY <1>1, InHandUntouched
<1>5. governs \in [Column -> Governance]
  BY DEF Sound, Staged, TypeOK
<1>6. Honest(r)'
  BY <1>1, <1>3, <1>4, RecType DEF Honest, Rec
<1> QED
  BY <1>1, <1>3, <1>5, <1>6, RecordedIsSound

LEMMA LostIsSound ==
  ASSUME OneEach, InTurn, Sound, StatementLost
  PROVE  Sound'
<1>1. /\ Issuing /\ governs' \in {Land, governs}
      /\ at = "running" /\ Len(records) < Len(Schedule) /\ ~Stopped
      /\ Append1(Rec(InHand, "unknown", "unread"))
      /\ UNCHANGED <<before, at, on_failure, prestate, undone, receipt,
                     saved, unmoved>>
  BY DEF StatementLost, Issuing
<1>2. InHand \in DOMAIN Plan
  BY <1>1, OthersInHand
<1>3. PICK r \in Record : /\ r = Rec(InHand, "unknown", "unread") /\ r.op = InHand
                          /\ r.status = "unknown" /\ r.verified = "unread"
  BY <1>2, RecType DEF OperationStatus
<1>4. /\ governs' \in [Column -> Governance]
      /\ \A c \in Column : c # target(InHand) => governs'[c] = governs[c]
  BY <1>1, LandType
<1>5. Honest(r)'
  BY <1>3 DEF Honest
<1> QED
  BY <1>1, <1>3, <1>4, <1>5, RecordedIsSound

LEMMA VerifyIsSound ==
  ASSUME OneEach, InTurn, Sound, Verify
  PROVE  Sound'
<1>1. /\ at = "running" /\ Len(records) < Len(Schedule) /\ step > Statements(InHand)
      /\ UNCHANGED <<governs, before, at, on_failure, prestate, undone, receipt,
                     saved, unmoved>>
  BY DEF Verify
<1>2. PICK verified \in Answers(InHand) : Append1(Rec(InHand, "applied", verified))
  BY DEF Verify
<1>3. InHand \in DOMAIN Plan /\ Statements(InHand) \in 1 .. 2
  BY <1>1, OthersInHand, WantsType
<1>4. PICK r \in Record : /\ r = Rec(InHand, "applied", verified) /\ r.op = InHand
                          /\ r.status = "applied" /\ r.verified = verified
  BY <1>3, RecType DEF OperationStatus, Answers
<1>5. ~Stopped
  BY <1>1, <1>3 DEF Sound, RunInOrder
<1>6. Honest(r)'
  BY <1>1, <1>4 DEF Honest, InForce, Answers
<1>7. governs \in [Column -> Governance]
  BY DEF Sound, Staged, TypeOK
<1> QED
  BY <1>1, <1>2, <1>4, <1>5, <1>6, <1>7, RecordedIsSound
\* What a run reached is recorded already, and what it did not reach is as it
\* was, so the receipt is honest, and so is its verdict.
LEMMA FinishIsSound ==
  ASSUME OneEach, InTurn, Sound, Finish
  PROVE  Sound'
<1> DEFINE n == Len(records)
           Entry(k) == IF k <= n THEN records[k]
                       ELSE Rec(Schedule[k], "not_attempted", "unread")
<1>0. /\ records \in Seq(Record) /\ n \in Nat /\ DOMAIN records = 1 .. n
      /\ n <= Len(Schedule) /\ at = "running"
      /\ DOMAIN Schedule = 1 .. Len(Schedule) /\ Len(Schedule) \in Nat
  BY DEF Sound, Staged, TypeOK, RunInOrder, Finish, InTurn
<1>1. n = Len(Schedule) \/ step = 1
  BY DEF Finish, Sound, RunInOrder
<1>2. PICK all : all = [k \in DOMAIN Schedule |-> Entry(k)]
  OBVIOUS
<1>3. /\ UNCHANGED <<governs, before, on_failure, prestate, undone,
                     saved, unmoved>> /\ step' = 1
      /\ receipt' = [verdict |-> RunVerdict(all), operations |-> all, reconciled |-> FALSE]
      /\ \/ at' = "undoing" /\ records' = <<>>
         \/ at' = "done" /\ records' = all
  BY <1>2 DEF Finish
<1>4. \A k \in 1 .. Len(Schedule) :
        /\ all[k] \in Record /\ all[k].op = Schedule[k]
        /\ k > n => all[k].status = "not_attempted" /\ all[k].verified = "unread"
        /\ k <= n => all[k] = records[k]
  <2> TAKE k \in 1 .. Len(Schedule)
  <2>1. CASE k <= n
    BY <1>0, <1>2, <2>1 DEF Sound, RunInOrder
  <2>2. CASE k > n
    <3>1. all[k] = Rec(Schedule[k], "not_attempted", "unread") /\ Schedule[k] \in DOMAIN Plan
      BY <1>0, <1>2, <2>2 DEF InTurn
    <3> QED
      BY <1>0, <2>2, <3>1, RecType DEF OperationStatus
  <2> QED
    BY <1>0, <2>1, <2>2
<1>5. /\ all \in Seq(Record) /\ Len(all) = Len(Schedule)
      /\ DOMAIN all = 1 .. Len(Schedule)
  <2>1. all = [k \in 1 .. Len(Schedule) |-> all[k]]
    BY <1>0, <1>2
  <2> QED
    BY <1>0, <1>4, <2>1
<1> HIDE DEF Entry
<1>6. OpsDiffer(all)
  BY <1>4, <1>5 DEF OpsDiffer, InTurn
<1>7. \A c \in Column :
        governs[c] # before[c] => \E k \in 1 .. n : target(Schedule[k]) = c
  <2> SUFFICES ASSUME NEW c \in Column, governs[c] # before[c]
               PROVE  \E k \in 1 .. n : target(Schedule[k]) = c
    OBVIOUS
  <2>1. PICK k \in 1 .. Len(Schedule) :
          /\ target(Schedule[k]) = c
          /\ \/ k <= n
             \/ k = n + 1 /\ step > Statements(Schedule[k])
    BY <1>0 DEF Sound, RunInOrder
  <2>2. Statements(Schedule[k]) \in 1 .. 2
    BY WantsType DEF InTurn
  <2>3. CASE n = Len(Schedule)
    BY <1>0, <2>1, <2>3
  <2>4. CASE step = 1
    <3>1. ~(step > Statements(Schedule[k]))
      BY <2>2, <2>4
    <3>2. k \in 1 .. n
      BY <1>0, <2>1, <3>1
    <3> QED
      BY <2>1, <3>2
  <2> QED
    BY <1>1, <2>3, <2>4
<1>8. \A k \in 1 .. Len(Schedule) : Honest(all[k])
  <2> TAKE k \in 1 .. Len(Schedule)
  <2>1. CASE k <= n
    BY <1>0, <1>4, <2>1 DEF Sound, AllHonest
  <2>2. CASE k > n
    <3>1. Schedule[k] \in DOMAIN Plan /\ target(Schedule[k]) \in Column
      BY WantsType DEF InTurn
    <3>2. governs[target(Schedule[k])] = before[target(Schedule[k])]
      <4> SUFFICES ASSUME governs[target(Schedule[k])] # before[target(Schedule[k])]
                   PROVE  FALSE
        OBVIOUS
      <4>1. PICK j \in 1 .. n : target(Schedule[j]) = target(Schedule[k])
        BY <1>7, <3>1
      <4>2. j \in 1 .. Len(Schedule) /\ j # k
        <5>1. j <= n /\ n <= Len(Schedule) /\ n \in Nat /\ Len(Schedule) \in Nat
          BY <1>0
        <5> QED
          BY <2>2, <5>1
      <4>3. Schedule[j] = Schedule[k]
        <5>1. Schedule[j] \in DOMAIN Plan
          BY <4>2 DEF InTurn
        <5> QED
          BY <3>1, <4>1, <5>1 DEF OneEach
      <4> QED
        BY <4>2, <4>3 DEF InTurn
    <3> QED
      BY <1>4, <2>2, <3>2 DEF Honest
  <2> QED
    BY <1>0, <2>1, <2>2
<1>9. \A k \in 1 .. Len(Schedule) : Honest(all[k])'
  <2> TAKE k \in 1 .. Len(Schedule)
  <2>1. PICK r \in Record : r = all[k]
    BY <1>4
  <2>2. Honest(r)'
    BY <1>3, <1>8, <2>1, StaysHonest
  <2> QED
    BY <2>1, <2>2
<1>10. /\ receipt' \in Receipt /\ receipt'.operations = all
       /\ receipt'.verdict = RunVerdict(all)
  <2>1. RunVerdict(all) \in Verdict
    BY DEF RunVerdict, Verdict
  <2> QED
    BY <1>3, <1>5, <2>1 DEF Receipt
<1>11. Staged'
  <2>1. records' \in Seq(Record) /\ at' \in {"undoing", "done"}
    <3>1. <<>> \in Seq(Record)
      OBVIOUS
    <3> QED
      BY <1>3, <1>5, <3>1
  <2> QED
    BY <1>3, <1>6, <1>10, <2>1 DEF Sound, Staged, TypeOK, OpsDiffer
<1>12. AllHonest'
  BY <1>3, <1>5, <1>9 DEF AllHonest
<1>13. UndoneInOrder'
  BY <1>3, <1>5, <1>9, <1>10 DEF UndoneInOrder
<1>14. VerdictStands'
  <2>1. ASSUME RunVerdict(all) = "COMPLETE"
        PROVE  /\ ~Some(all, {"rolled_back", "unknown"})
               /\ \A i \in DOMAIN Plan : InForce(i)'
    <3>1. \A k \in 1 .. Len(Schedule) : effective_ok(all[k])
      BY <1>5, <2>1 DEF RunVerdict
    <3>2. \A k \in 1 .. Len(Schedule) : InForce(Schedule[k])
      BY <1>4, <1>8, <3>1 DEF Honest, effective_ok
    <3>3. \A i \in DOMAIN Plan : InForce(i)
      BY <3>2 DEF InTurn
    <3> QED
      BY <1>3, <1>5, <3>1, <3>3 DEF Some, effective_ok, InForce
  <2>2. ASSUME RunVerdict(all) = "HALTED_AT_CANARY"
        PROVE  /\ \A c \in Column \ CanaryTargets : governs[c] = before[c]
               /\ \A k \in 1 .. Len(Schedule) :
                    all[k].status # "not_attempted" =>
                      target(all[k].op) \in CanaryTargets
    <3>1. CanaryBad
      BY <2>2 DEF RunVerdict
    <3>2. n <= CanarySize
      BY <1>0, <3>1 DEF Sound, RunInOrder, InTurn
    <3>3. \A k \in 1 .. Len(Schedule) : k <= n => target(Schedule[k]) \in CanaryTargets
      BY <1>0, <3>2 DEF InTurn
    <3> QED
      BY <1>0, <1>4, <1>7, <3>3
  <2> QED
    BY <1>3, <1>5, <1>10, <2>1, <2>2 DEF VerdictStands, Stands
<1>15. saved' = None
  BY <1>0, <1>3 DEF Sound, Staged
<1> QED
  BY <1>3, <1>11, <1>12, <1>13, <1>14, <1>15 DEF Sound, RunInOrder, SavedStands

----------------------------------------------------------------------------
(* A rollback.                                                             *)

\* The receipt being undone, and that what is left of it is of other columns.
LEMMA OthersToUndo ==
  ASSUME OneEach, Sound, Undoing
  PROVE  /\ receipt \in Receipt /\ receipt.operations \in Seq(Record)
         /\ records \in Seq(Record) /\ Len(records) \in Nat
         /\ Len(records) + 1 \in 1 .. Len(receipt.operations)
         /\ ToUndo \in Record /\ ToUndo.op \in DOMAIN Plan
         /\ \A k \in 1 .. Len(receipt.operations) :
              /\ receipt.operations[k] \in Record
              /\ k # Len(records) + 1 =>
                   target(receipt.operations[k].op) # target(ToUndo.op)
         /\ \A k \in 1 .. Len(records) :
              /\ records[k] \in Record
              /\ target(records[k].op) # target(ToUndo.op)
<1>1. /\ at = "undoing" /\ Len(records) < Len(receipt.operations)
      /\ receipt \in Receipt /\ OpsDiffer(receipt.operations)
      /\ records \in Seq(Record)
  BY DEF Undoing, Sound, Staged, TypeOK
<1>2. receipt.operations \in Seq(Record)
  BY <1>1 DEF Receipt
<1>3. Len(records) \in Nat /\ Len(records) + 1 \in 1 .. Len(receipt.operations)
  BY <1>1, <1>2
<1>4. \A k \in 1 .. Len(receipt.operations) :
        receipt.operations[k] \in Record /\ receipt.operations[k].op \in DOMAIN Plan
  <2> TAKE k \in 1 .. Len(receipt.operations)
  <2>1. receipt.operations[k] \in Record
    BY <1>2
  <2> QED
    BY <2>1 DEF Record
<1>5. ToUndo = receipt.operations[Len(records) + 1]
  BY DEF ToUndo
<1>6. \A k \in 1 .. Len(receipt.operations) :
        k # Len(records) + 1 => target(receipt.operations[k].op) # target(ToUndo.op)
  BY <1>1, <1>2, <1>3, <1>4, <1>5 DEF OpsDiffer, OneEach
<1>7. \A k \in 1 .. Len(records) :
        records[k] \in Record /\ records[k].op = receipt.operations[k].op
  BY <1>1 DEF Sound, UndoneInOrder
<1>8. \A k \in 1 .. Len(records) :
        k \in 1 .. Len(receipt.operations) /\ k # Len(records) + 1
  BY <1>3
<1> QED
  BY <1>1, <1>2, <1>3, <1>4, <1>5, <1>6, <1>7, <1>8

\* The receipt returned is recorded as it is.
LEMMA SaveIsSound ==
  ASSUME Sound, Save
  PROVE  Sound'
<1>1. /\ at = "done" /\ saved' = receipt /\ receipt \in Receipt
      /\ receipt.operations = records /\ OpsDiffer(receipt.operations)
      /\ UNCHANGED <<governs, before, at, on_failure, prestate, records, step,
                     undone, receipt, unmoved>>
  BY DEF Save, Sound, Staged
<1>2. Staged'
  BY <1>1 DEF Sound, Staged, TypeOK, OpsDiffer
<1>3. AllHonest' /\ RunInOrder' /\ UndoneInOrder'
  BY <1>1 DEF Sound, AllHonest, Honest, InForce, RunInOrder, UndoneInOrder
<1>4. VerdictStands'
  BY <1>1 DEF Sound, VerdictStands, Stands, InForce, Some, Kept
<1>5. SavedStands'
  <2>1. PICK r \in Receipt : r = receipt /\ r.operations = records
    BY <1>1
  <2>2. Stands(r)'
    BY <1>1, <2>1 DEF Sound, VerdictStands, Stands, InForce, Some, Kept
  <2>3. \A k \in DOMAIN r.operations : Honest(r.operations[k])'
    BY <1>1, <2>1 DEF Sound, AllHonest, Honest, InForce
  <2>4. saved' = r /\ receipt' = r
    BY <1>1, <2>1
  <2>5. OpsDiffer(r.operations)
    BY <1>1, <2>1
  <2> QED
    BY <2>2, <2>3, <2>4, <2>5 DEF SavedStands, OpsDiffer
<1> QED
  BY <1>2, <1>3, <1>4, <1>5 DEF Sound

\* A rollback starts from the receipt last returned, or from the recorded one.
LEMMA RollbackIsSound ==
  ASSUME OneEach, Sound, Rollback
  PROVE  Sound'
<1>1. /\ at \in {"done", "crashed"} /\ at' = "undoing" /\ records' = <<>> /\ step = 1
      /\ records' \in Seq(Record) /\ Len(records') = 0
      /\ UNCHANGED <<governs, before, on_failure, prestate, step, undone, saved,
                     unmoved>>
  BY DEF Rollback, Sound, Staged
<1>2. PICK r \in Receipt :
        /\ receipt' = r /\ OpsDiffer(r.operations) /\ Stands(r)
        /\ \A k \in DOMAIN r.operations : Kept(r.operations[k]) => Honest(r.operations[k])
        /\ \/ at = "done" /\ r = receipt
           \/ saved # None /\ r = saved
  <2>1. receipt' \in {receipt, saved} /\ receipt' # None
    BY DEF Rollback
  <2>2. CASE receipt' = receipt
    <3>1. at = "done" /\ receipt \in Receipt /\ OpsDiffer(receipt.operations)
      BY <1>1, <2>1, <2>2 DEF Sound, Staged
    <3>2. Stands(receipt) /\ receipt.operations = records
      BY <3>1 DEF Sound, Staged, VerdictStands
    <3>3. \A k \in DOMAIN receipt.operations : Honest(receipt.operations[k])
      BY <3>2 DEF Sound, AllHonest
    <3> QED
      BY <2>2, <3>1, <3>2, <3>3
  <2>3. CASE receipt' = saved
    BY <2>1, <2>3 DEF Sound, SavedStands
  <2> QED
    BY <2>1, <2>2, <2>3
<1>3. /\ r.operations \in Seq(Record) /\ Len(r.operations) \in Nat
      /\ DOMAIN r.operations = 1 .. Len(r.operations)
  BY DEF Receipt
<1>4. \A k \in 1 .. Len(r.operations) :
        Kept(r.operations[k]) => Honest(r.operations[k])'
  <2> TAKE k \in 1 .. Len(r.operations)
  <2>1. PICK q \in Record : q = r.operations[k]
    BY <1>3
  <2>2. Kept(q) => Honest(q)'
    BY <1>1, <1>2, <1>3, <2>1, StaysHonest
  <2> QED
    BY <2>1, <2>2
<1>5. Staged'
  BY <1>1, <1>2 DEF Sound, Staged, TypeOK, OpsDiffer
<1>6. UndoneInOrder'
  BY <1>1, <1>2, <1>3, <1>4 DEF UndoneInOrder, Kept
<1>7. VerdictStands'
  <2>1. Stands(r)'
    BY <1>1, <1>2 DEF Stands, InForce, Some, Kept
  <2> QED
    BY <1>1, <1>2, <2>1 DEF VerdictStands
<1>8. SavedStands'
  <2>1. CASE saved = None
    BY <1>1, <2>1 DEF SavedStands
  <2>2. CASE saved # None
    <3>1. PICK q \in Receipt : q = saved
      BY <2>2 DEF Sound, SavedStands
    <3>2. /\ OpsDiffer(q.operations) /\ Stands(q)'
          /\ \A k \in DOMAIN q.operations : Kept(q.operations[k]) => Honest(q.operations[k])'
      BY <1>1, <2>2, <3>1, SavedUntouched
    <3>3. /\ DOMAIN r.operations = DOMAIN q.operations
          /\ \A k \in DOMAIN q.operations :
               /\ r.operations[k].op = q.operations[k].op
               /\ Kept(q.operations[k]) => Kept(r.operations[k])
      BY <1>2, <2>2, <3>1 DEF Sound, SavedStands
    <3>4. saved' = q /\ receipt' = r
      BY <1>1, <1>2, <3>1
    <3> QED
      BY <3>2, <3>3, <3>4 DEF SavedStands, OpsDiffer, Kept
  <2> QED
    BY <2>1, <2>2
<1> QED
  BY <1>1, <1>5, <1>6, <1>7, <1>8 DEF Sound, AllHonest, RunInOrder

\* A step of a rollback that touches one column, or none, leaves the recorded
\* receipt and the one being undone as good as they were.
LEMMA BothStand ==
  ASSUME OneEach, Sound, Undoing, UNCHANGED <<before, prestate, saved, receipt>>,
         at' = at,
         NEW C \in SUBSET {target(ToUndo.op)}, Kept(ToUndo) => C = {},
         \A d \in Column \ C : governs'[d] = governs[d] /\ (d \in unmoved' <=> d \in unmoved)
  PROVE  VerdictStands' /\ SavedStands'
<1> DEFINE n == Len(records)
           ops == receipt.operations
           c == target(ToUndo.op)
<1>1. /\ receipt \in Receipt /\ n + 1 \in DOMAIN ops /\ ToUndo = ops[n + 1]
      /\ ToUndo.op \in DOMAIN Plan /\ c \in Column /\ C \in SUBSET Column
      /\ at = "undoing"
  <2>1. /\ receipt \in Receipt /\ ops \in Seq(Record) /\ n + 1 \in 1 .. Len(ops)
        /\ ToUndo.op \in DOMAIN Plan
    BY OthersToUndo
  <2> QED
    BY <2>1, PlanType DEF ToUndo, Undoing
<1>2. VerdictStands'
  <2>1. PICK r \in Receipt : r = receipt
    BY <1>1
  <2>2. Stands(r)
    BY <1>1, <2>1 DEF Sound, VerdictStands
  <2>3. C # {} => \E k \in DOMAIN r.operations : ~Kept(r.operations[k])
    BY <1>1, <2>1
  <2>4. r.verdict = "HALTED_AT_CANARY" => C \subseteq CanaryTargets
    <3>1. C # {} => ToUndo.status # "not_attempted"
      BY DEF Kept
    <3> QED
      BY <1>1, <2>1, <2>2, <3>1 DEF Stands
  <2>5. Stands(r)'
    BY <1>1, <2>2, <2>3, <2>4, StaysStanding
  <2>6. receipt' = r /\ at' = "undoing"
    BY <1>1, <2>1
  <2> QED
    BY <2>5, <2>6 DEF VerdictStands
<1>3. CASE saved = None
  BY <1>2, <1>3 DEF SavedStands
<1>4. CASE saved # None
  <2>1. PICK q \in Receipt : q = saved
    BY <1>4 DEF Sound, SavedStands
  <2>2. /\ OpsDiffer(q.operations) /\ Stands(q)
        /\ DOMAIN ops = DOMAIN q.operations
        /\ \A k \in DOMAIN q.operations :
             /\ ops[k].op = q.operations[k].op
             /\ Kept(q.operations[k]) => Kept(ops[k])
    BY <1>1, <1>4, <2>1 DEF Sound, SavedStands
  <2>3. C # {} => n + 1 \in DOMAIN q.operations /\ ~Kept(q.operations[n + 1])
    BY <1>1, <2>2
  <2>4. ASSUME NEW k \in DOMAIN q.operations, Kept(q.operations[k])
        PROVE  target(q.operations[k].op) \notin C
    <3> SUFFICES ASSUME C # {}, target(q.operations[k].op) = c PROVE FALSE
      OBVIOUS
    <3>1. k # n + 1 /\ ops[k].op = q.operations[k].op /\ k \in 1 .. Len(ops)
      <4>1. DOMAIN ops = 1 .. Len(ops)
        BY <1>1 DEF Receipt
      <4> QED
        BY <2>2, <2>3, <2>4, <4>1
    <3> QED
      BY <3>1, OthersToUndo
  <2>5. q.verdict = "HALTED_AT_CANARY" => C \subseteq CanaryTargets
    <3>1. C # {} => q.operations[n + 1].status # "not_attempted"
      BY <2>3 DEF Kept
    <3> QED
      BY <1>1, <2>2, <2>3, <3>1 DEF Stands
  <2>6. /\ Stands(q)'
        /\ \A k \in DOMAIN q.operations : Kept(q.operations[k]) => Honest(q.operations[k])'
    BY <1>1, <1>4, <2>1, <2>3, <2>4, <2>5, SavedStays
  <2>7. saved' = q /\ receipt' = receipt
    BY <2>1
  <2>8. SavedStands'
    BY <2>2, <2>6, <2>7 DEF SavedStands, OpsDiffer, Kept
  <2> QED
    BY <1>2, <2>8
<1> QED
  BY <1>3, <1>4

LEMMA KeepIsSound ==
  ASSUME OneEach, Sound, KeepRecord
  PROVE  Sound'
<1> DEFINE n == Len(records)
           ops == receipt.operations
<1>1. /\ Undoing /\ at = "undoing" /\ Kept(ToUndo) /\ records' = Append(records, ToUndo)
      /\ UNCHANGED <<governs, before, at, on_failure, prestate, step, undone, receipt,
                     saved, unmoved>>
  BY DEF KeepRecord, Undoing
<1>2. /\ receipt \in Receipt /\ ops \in Seq(Record) /\ records \in Seq(Record)
      /\ n \in Nat /\ n + 1 \in 1 .. Len(ops) /\ ToUndo = ops[n + 1]
      /\ ToUndo \in Record
  BY <1>1, OthersToUndo DEF ToUndo
<1>3. /\ records' \in Seq(Record) /\ Len(records') = n + 1 /\ records'[n + 1] = ops[n + 1]
      /\ \A k \in 1 .. n : records'[k] = records[k]
  BY <1>1, <1>2, OneMore
<1>4. step = 1
  BY <1>1 DEF Sound, UndoneInOrder
<1>5. \A k \in 1 .. Len(ops) : k > n /\ Kept(ops[k]) => Honest(ops[k])
  BY <1>1, <1>2 DEF Sound, UndoneInOrder
<1>6. \A k \in 1 .. Len(ops) : k > n /\ Kept(ops[k]) => Honest(ops[k])'
  <2> TAKE k \in 1 .. Len(ops)
  <2>1. PICK r \in Record : r = ops[k]
    BY <1>2
  <2>2. k > n /\ Kept(r) => Honest(r)'
    BY <1>1, <1>5, <2>1, StaysHonest
  <2> QED
    BY <1>1, <2>1, <2>2
<1>7. AllHonest'
  <2> SUFFICES ASSUME NEW k \in 1 .. n + 1 PROVE Honest(records[k])'
    BY <1>3 DEF AllHonest
  <2>1. CASE k = n + 1
    <3>1. PICK r \in Record : r = ops[n + 1]
      BY <1>2
    <3>2. Honest(r)
      BY <1>1, <1>2, <1>5, <3>1
    <3>3. Honest(r)'
      BY <1>1, <3>2, StaysHonest
    <3> QED
      BY <1>3, <2>1, <3>1, <3>3
  <2>2. CASE k \in 1 .. n
    <3>1. PICK r \in Record : r = records[k]
      BY <1>2, <2>2
    <3>2. Honest(r)'
      BY <1>1, <1>2, <2>2, <3>1, StaysHonest DEF Sound, AllHonest
    <3> QED
      BY <1>3, <2>2, <3>1, <3>2
  <2> QED
    BY <1>2, <2>1, <2>2
<1>8. Staged'
  BY <1>1, <1>2, <1>3 DEF Sound, Staged, TypeOK, OpsDiffer
<1>9. UndoneInOrder'
  <2>1. n + 1 <= Len(ops)
    BY <1>2
  <2>2. \A k \in 1 .. n + 1 :
          \/ Kept(ops[k]) /\ records'[k] = ops[k]
          \/ ~Kept(ops[k]) /\ records'[k].op = ops[k].op /\ records'[k].status \in UndoStatus
    BY <1>1, <1>2, <1>3 DEF Sound, UndoneInOrder
  <2>3. \A k \in n + 1 + 1 .. Len(ops) : Kept(ops[k]) => Honest(ops[k])'
    BY <1>2, <1>6
  <2> QED
    BY <1>1, <1>3, <1>4, <2>1, <2>2, <2>3 DEF UndoneInOrder, Kept
<1>10. VerdictStands' /\ SavedStands'
  <2>1. PICK C \in SUBSET {target(ToUndo.op)} : C = {}
    OBVIOUS
  <2> QED
    BY <1>1, <2>1, BothStand
<1> QED
  BY <1>1, <1>7, <1>8, <1>9, <1>10 DEF Sound, RunInOrder
\* A statement of the rollback changes the column it undoes; the last one
\* that is accepted, with no failure before it, leaves what preview read.
LEMMA UndoReaches ==
  ASSUME OneEach, Sound, NEW effect \in SUBSET BOOLEAN, NEW status \in UndoStatus,
         UndoStatement(effect, status)
  PROVE  /\ step \in 1 .. Len(UndoStatements(ToUndo.op))
         /\ Len(UndoStatements(ToUndo.op)) \in 1 .. 2
         /\ step = 1 \/ step = Len(UndoStatements(ToUndo.op))
         /\ governs' \in [Column -> Governance] /\ unmoved' \in SUBSET Column
         /\ \A c \in Column :
              c # target(ToUndo.op) =>
                governs'[c] = governs[c] /\ (c \in unmoved' <=> c \in unmoved)
         /\ /\ target(ToUndo.op) \notin unmoved'
            /\ ~(step < Len(UndoStatements(ToUndo.op)))
            /\ prestate[target(ToUndo.op)] \notin {None, Plan[ToUndo.op].wants}
            => governs'[target(ToUndo.op)] = before[target(ToUndo.op)]
<1> DEFINE i == ToUndo.op
           c == target(ToUndo.op)
           todo == UndoStatements(ToUndo.op)
<1>1. Undoing /\ at = "undoing" /\ i \in DOMAIN Plan /\ c \in Column
  BY OthersToUndo, WantsType DEF UndoStatement, Undoing
<1>2. /\ governs \in [Column -> Governance]
      /\ before[c] \in Policy \cup {Bare} /\ prestate[c] \in {None, before[c]}
      /\ prestate[c] \in Governance \cup {None} /\ Bare \in Governance
  BY <1>1 DEF Sound, Staged, TypeOK, Governance
<1>3. PICK e \in effect :
        /\ governs' = IF e THEN [governs EXCEPT ![c] = todo[step]] ELSE governs
        /\ unmoved' = IF e THEN unmoved \ {c} ELSE unmoved \cup {c}
  BY DEF UndoStatement
<1>4. \/ todo = <<Bare>> /\ prestate[c] \in {None, Bare, Gone, Plan[i].wants}
      \/ todo = <<Bare, prestate[c]>> /\ prestate[c] \notin {None, Bare, Gone, Plan[i].wants}
  BY DEF UndoStatements
<1>5. /\ Len(todo) \in 1 .. 2 /\ todo[1] = Bare
      /\ Len(todo) = 1 => prestate[c] \in {None, Bare, Gone, Plan[i].wants}
      /\ Len(todo) = 2 => todo[2] = prestate[c] /\ prestate[c] \in Governance
  BY <1>2, <1>4
<1>6. \/ step = 1
      \/ step = 2 /\ Len(todo) = 2
  BY <1>1 DEF Sound, UndoneInOrder
<1>7. step \in 1 .. Len(todo) /\ (step = 1 \/ step = Len(todo))
  <2>1. Len(todo) = 1 \/ Len(todo) = 2
    BY <1>5
  <2>2. step = 1 \/ (step = 2 /\ Len(todo) = 2)
    BY <1>6
  <2>3. CASE step = 1
    BY <2>1, <2>3
  <2>4. CASE step = 2 /\ Len(todo) = 2
    BY <2>4
  <2> QED
    BY <2>2, <2>3, <2>4
<1>8. todo[step] \in Governance
  BY <1>2, <1>5, <1>6
<1> HIDE DEF todo
<1>9. /\ governs' \in [Column -> Governance] /\ unmoved' \in SUBSET Column
      /\ \A d \in Column :
           d # c => governs'[d] = governs[d] /\ (d \in unmoved' <=> d \in unmoved)
  <2>1. unmoved \in SUBSET Column
    BY DEF Sound, Staged, TypeOK
  <2>2. governs' \in [Column -> Governance] /\ \A d \in Column : d # c => governs'[d] = governs[d]
    BY <1>2, <1>3, <1>8
  <2>3. /\ unmoved' \in SUBSET Column
        /\ \A d \in Column : d # c => (d \in unmoved' <=> d \in unmoved)
    BY <1>1, <1>3, <2>1
  <2> QED
    BY <2>2, <2>3
<1>10. ASSUME c \notin unmoved', ~(step < Len(todo)),
              prestate[c] \notin {None, Plan[i].wants}
       PROVE  governs'[c] = before[c]
  <2>1. step = Len(todo) /\ governs'[c] = todo[step] /\ prestate[c] = before[c]
    <3>1. e
      BY <1>3, <1>10
    <3> QED
      BY <1>1, <1>2, <1>3, <1>5, <1>7, <1>10, <3>1
  <2>2. before[c] # Gone
    BY <1>2, DistinctAssumption
  <2>3. CASE Len(todo) = 1
    BY <1>5, <1>10, <2>1, <2>2, <2>3
  <2>4. CASE Len(todo) = 2
    BY <1>5, <2>1, <2>4
  <2> QED
    BY <1>5, <2>3, <2>4
<1> QED
  BY <1>5, <1>7, <1>9, <1>10 DEF todo

\* While a column is undone, the records of the others stand.
LEMMA OthersStayHonest ==
  ASSUME OneEach, Sound, Undoing, UNCHANGED <<before, prestate>>,
         \A c \in Column :
           c # target(ToUndo.op) =>
             governs'[c] = governs[c] /\ (c \in unmoved' <=> c \in unmoved)
  PROVE  /\ \A k \in 1 .. Len(records) : \A r \in Record : r = records[k] => Honest(r)'
         /\ \A k \in Len(records) + 2 .. Len(receipt.operations) :
              \A r \in Record : r = receipt.operations[k] /\ Kept(r) => Honest(r)'
<1>1. \A k \in 1 .. Len(records) :
        \A r \in Record : r = records[k] => Honest(r)'
  <2> TAKE k \in 1 .. Len(records)
  <2>1. Honest(records[k]) /\ target(records[k].op) # target(ToUndo.op)
    BY OthersToUndo DEF Sound, AllHonest
  <2> SUFFICES ASSUME NEW r \in Record, r = records[k] PROVE Honest(r)'
    BY <2>1
  <2> QED
    BY <2>1, RecordsStayHonest
<1>2. ASSUME NEW k \in Len(records) + 2 .. Len(receipt.operations),
             NEW r \in Record, r = receipt.operations[k], Kept(r)
      PROVE  Honest(r)'
  <2>1. /\ k \in 1 .. Len(receipt.operations) /\ k > Len(records) + 1
        /\ k \in Len(records) + 1 .. Len(receipt.operations)
    BY OthersToUndo
  <2>2. Honest(r) /\ target(r.op) # target(ToUndo.op)
    BY <1>2, <2>1, OthersToUndo DEF Sound, UndoneInOrder, Undoing
  <2> QED
    BY <2>2, RecordsStayHonest
<1> QED
  BY <1>1, <1>2

LEMMA BeforeTheLast ==
  ASSUME NEW m \in 1 .. 2, NEW k \in 1 .. m, k < m
  PROVE  k = 1 /\ m = 2
OBVIOUS

LEMMA UndoIsSound ==
  ASSUME OneEach, Sound, NEW effect \in SUBSET BOOLEAN, NEW status \in UndoStatus,
         UndoStatement(effect, status)
  PROVE  Sound'
<1> DEFINE n == Len(records)
           ops == receipt.operations
           c == target(ToUndo.op)
           todo == UndoStatements(ToUndo.op)
<1>1. /\ Undoing /\ at = "undoing" /\ ~Kept(ToUndo)
      /\ UNCHANGED <<before, at, on_failure, prestate, receipt, saved>>
  BY DEF UndoStatement, Undoing
<1>2. /\ receipt \in Receipt /\ ops \in Seq(Record) /\ records \in Seq(Record)
      /\ n \in Nat /\ n + 1 \in 1 .. Len(ops) /\ ToUndo = ops[n + 1]
      /\ ToUndo \in Record /\ ToUndo.op \in DOMAIN Plan /\ c \in Column
  BY <1>1, OthersToUndo, WantsType DEF ToUndo
<1>3. /\ step \in 1 .. Len(todo) /\ Len(todo) \in 1 .. 2
      /\ step = 1 \/ step = Len(todo)
      /\ governs' \in [Column -> Governance] /\ unmoved' \in SUBSET Column
      /\ \A d \in Column :
           d # c => governs'[d] = governs[d] /\ (d \in unmoved' <=> d \in unmoved)
      /\ c \notin unmoved' /\ ~(step < Len(todo))
           /\ prestate[c] \notin {None, Plan[ToUndo.op].wants}
         => governs'[c] = before[c]
  BY UndoReaches
<1>4. /\ \A k \in 1 .. n : \A r \in Record : r = records[k] => Honest(r)'
      /\ \A k \in n + 2 .. Len(ops) : \A r \in Record : r = ops[k] /\ Kept(r) => Honest(r)'
  BY <1>1, <1>3, OthersStayHonest
<1>5. \A k \in 1 .. n :
        \/ Kept(ops[k]) /\ records[k] = ops[k]
        \/ ~Kept(ops[k]) /\ records[k].op = ops[k].op /\ records[k].status \in UndoStatus
  BY <1>1 DEF Sound, UndoneInOrder
<1>6. VerdictStands' /\ SavedStands'
  <2>1. PICK C \in SUBSET {target(ToUndo.op)} : C = {c}
    OBVIOUS
  <2>2. \A d \in Column \ C : governs'[d] = governs[d] /\ (d \in unmoved' <=> d \in unmoved)
    BY <1>3, <2>1
  <2> QED
    BY <1>1, <2>1, <2>2, BothStand
<1>7. CASE step < Len(todo)
  <2>1. records' = records /\ step' = step + 1 /\ undone' = status
    BY <1>7 DEF UndoStatement
  <2>2. step' = 2 /\ Len(todo) = 2
    <3> HIDE DEF todo
    <3>1. step = 1 /\ Len(todo) = 2
      <4>1. step \in 1 .. Len(todo) /\ Len(todo) \in 1 .. 2 /\ step < Len(todo)
        BY <1>3, <1>7
      <4> QED
        BY <4>1, BeforeTheLast
    <3> QED
      BY <2>1, <3>1
  <2>3. Staged'
    BY <1>1, <1>3, <2>1, <2>2 DEF Sound, Staged, TypeOK, OpsDiffer, UndoStatus, OperationStatus
  <2>4. AllHonest'
    <3> SUFFICES ASSUME NEW k \in 1 .. n PROVE Honest(records[k])'
      BY <1>2, <2>1 DEF AllHonest
    <3> QED
      BY <1>2, <1>4, <2>1
  <2>5. UndoneInOrder'
    <3>1. \A k \in n + 1 .. Len(ops) : Kept(ops[k]) => Honest(ops[k])'
      <4> SUFFICES ASSUME NEW k \in n + 1 .. Len(ops), Kept(ops[k])
                   PROVE  Honest(ops[k])'
        OBVIOUS
      <4>1. k \in n + 2 .. Len(ops) /\ k \in 1 .. Len(ops)
        BY <1>1, <1>2
      <4>2. PICK q \in Record : q = ops[k]
        BY <1>2, <4>1
      <4>3. Honest(q)'
        BY <1>4, <4>1, <4>2
      <4> QED
        BY <1>1, <4>2, <4>3
    <3>2. Undoing' /\ ToUndo' = ToUndo /\ ~Kept(ToUndo)' /\ UndoStatements(ToUndo.op)' = todo
      BY <1>1, <2>1 DEF Undoing, ToUndo, Kept, UndoStatements
    <3> QED
      BY <1>1, <1>2, <1>5, <2>1, <2>2, <3>1, <3>2 DEF UndoneInOrder, Kept
  <2> QED
    BY <1>1, <1>6, <2>3, <2>4, <2>5 DEF Sound, RunInOrder
<1>8. CASE ~(step < Len(todo))
  <2>1. Append1(Rec(ToUndo.op, status, "unread")) /\ undone' = "rolled_back"
    BY <1>8 DEF UndoStatement
  <2>2. PICK r \in Record : /\ r = Rec(ToUndo.op, status, "unread")
                            /\ r.op = ToUndo.op /\ r.status = status
                            /\ r.verified = "unread"
    BY <1>2, RecType DEF UndoStatus, OperationStatus
  <2>3. records' = Append(records, r) /\ step' = 1
    BY <2>1, <2>2 DEF Append1
  <2>4. /\ records' \in Seq(Record) /\ Len(records') = n + 1 /\ records'[n + 1] = r
        /\ \A k \in 1 .. n : records'[k] = records[k]
    BY <1>2, <2>3, OneMore
  <2>5. Honest(r)'
    BY <1>1, <1>3, <1>8, <2>2 DEF Honest, UndoStatus
  <2>6. Staged'
    BY <1>1, <1>3, <2>1, <2>3, <2>4 DEF Sound, Staged, TypeOK, OpsDiffer, UndoStatus, OperationStatus
  <2>7. AllHonest'
    <3> SUFFICES ASSUME NEW k \in 1 .. n + 1 PROVE Honest(records[k])'
      BY <2>4 DEF AllHonest
    <3>1. CASE k = n + 1
      BY <2>4, <2>5, <3>1
    <3>2. CASE k \in 1 .. n
      <4>1. PICK q \in Record : q = records[k]
        BY <1>2, <3>2
      <4>2. Honest(q)'
        BY <1>4, <3>2, <4>1
      <4> QED
        BY <2>4, <3>2, <4>1, <4>2
    <3> QED
      BY <1>2, <3>1, <3>2
  <2>8. UndoneInOrder'
    <3>1. \A k \in n + 1 + 1 .. Len(ops) : Kept(ops[k]) => Honest(ops[k])'
      <4> SUFFICES ASSUME NEW k \in n + 1 + 1 .. Len(ops), Kept(ops[k])
                   PROVE  Honest(ops[k])'
        OBVIOUS
      <4>1. k \in n + 2 .. Len(ops) /\ k \in 1 .. Len(ops)
        BY <1>2
      <4>2. PICK q \in Record : q = ops[k]
        BY <1>2, <4>1
      <4>3. Honest(q)'
        BY <1>4, <4>1, <4>2
      <4> QED
        BY <1>1, <4>2, <4>3
    <3>2. \A k \in 1 .. n + 1 :
            \/ Kept(ops[k]) /\ records'[k] = ops[k]
            \/ ~Kept(ops[k]) /\ records'[k].op = ops[k].op /\ records'[k].status \in UndoStatus
      BY <1>1, <1>2, <1>5, <2>2, <2>4
    <3>3. n + 1 <= Len(ops)
      BY <1>2
    <3> QED
      BY <1>1, <2>3, <2>4, <3>1, <3>2, <3>3 DEF UndoneInOrder, Kept
  <2> QED
    BY <1>1, <1>6, <2>6, <2>7, <2>8 DEF Sound, RunInOrder
<1> QED
  BY <1>7, <1>8

LEMMA FinishUndoIsSound ==
  ASSUME OneEach, Sound, FinishUndo
  PROVE  Sound'
<1> DEFINE n == Len(records)
           ops == receipt.operations
<1>1. /\ at = "undoing" /\ at' = "done" /\ n = Len(ops)
      /\ UNCHANGED <<governs, before, on_failure, prestate, records, step, undone,
                     saved, unmoved>>
      /\ receipt' = [verdict |-> IF Some(records, {"unknown"}) THEN "INCONCLUSIVE"
                                 ELSE IF Some(records, {"rolled_back"}) THEN "ROLLED_BACK"
                                 ELSE receipt.verdict,
                     operations |-> records, reconciled |-> FALSE]
  BY DEF FinishUndo
<1>2. /\ receipt \in Receipt /\ ops \in Seq(Record) /\ records \in Seq(Record)
      /\ n \in Nat /\ DOMAIN records = 1 .. n /\ DOMAIN ops = 1 .. n
      /\ OpsDiffer(ops)
  BY <1>1 DEF Sound, Staged, TypeOK, Receipt
<1>3. step = 1
  <2>1. ~Undoing
    BY <1>1, <1>2 DEF Undoing
  <2> QED
    BY <1>1, <2>1 DEF Sound, UndoneInOrder
<1>4. \A k \in 1 .. n :
        \/ Kept(ops[k]) /\ records[k] = ops[k]
        \/ ~Kept(ops[k]) /\ records[k].op = ops[k].op /\ records[k].status \in UndoStatus
  BY <1>1 DEF Sound, UndoneInOrder
<1>5. OpsDiffer(records)
  BY <1>2, <1>4 DEF OpsDiffer
<1>6. receipt' \in Receipt /\ receipt'.operations = records
  BY <1>1, <1>2 DEF Receipt, Verdict
<1>7. Staged'
  BY <1>1, <1>3, <1>5, <1>6 DEF Sound, Staged, TypeOK, OpsDiffer
<1>8. AllHonest'
  <2> SUFFICES ASSUME NEW k \in 1 .. n PROVE Honest(records[k])'
    BY <1>1, <1>2 DEF AllHonest
  <2>1. PICK r \in Record : r = records[k]
    BY <1>2
  <2>2. Honest(r)'
    BY <1>1, <1>2, <2>1, StaysHonest DEF Sound, AllHonest
  <2> QED
    BY <1>1, <2>1, <2>2
<1>9. VerdictStands'
  <2>1. ASSUME receipt'.verdict = "COMPLETE"
        PROVE  /\ ~Some(records, {"rolled_back", "unknown"})
               /\ ~Some(records, {"partially_applied"}) =>
                    \A i \in DOMAIN Plan : InForce(i)
    <3>1. receipt.verdict = "COMPLETE" /\ ~Some(records, {"rolled_back", "unknown"})
      BY <1>1, <2>1 DEF Some
    <3>2. ~Some(records, {"partially_applied"}) => \A k \in 1 .. n : Kept(ops[k]) /\ records[k] = ops[k]
      BY <1>2, <1>4, <3>1 DEF Some, UndoStatus
    <3>3. ~Some(records, {"partially_applied"}) => ~Some(ops, {"partially_applied"})
      BY <1>2, <3>2 DEF Some
    <3> QED
      BY <1>1, <1>2, <3>1, <3>2, <3>3 DEF Sound, VerdictStands, Stands
  <2>2. ASSUME receipt'.verdict = "HALTED_AT_CANARY"
        PROVE  /\ \A c \in Column \ CanaryTargets : governs[c] = before[c]
               /\ \A k \in 1 .. n : records[k].status # "not_attempted" =>
                                      target(records[k].op) \in CanaryTargets
    <3>1. receipt.verdict = "HALTED_AT_CANARY"
      BY <1>1, <2>2
    <3> QED
      BY <1>1, <1>2, <1>4, <3>1 DEF Sound, VerdictStands, Stands, Kept
  <2> QED
    BY <1>1, <1>2, <1>6, <2>1, <2>2 DEF VerdictStands, Stands, InForce
<1>10. SavedStands'
  <2>1. CASE saved = None
    BY <1>1, <2>1 DEF SavedStands
  <2>2. CASE saved # None
    <3>1. PICK q \in Receipt : q = saved
      BY <2>2 DEF Sound, SavedStands
    <3>2. /\ OpsDiffer(q.operations) /\ Stands(q)'
          /\ \A k \in DOMAIN q.operations : Kept(q.operations[k]) => Honest(q.operations[k])'
      BY <1>1, <2>2, <3>1, SavedUntouched
    <3>3. /\ DOMAIN records = DOMAIN q.operations
          /\ \A k \in DOMAIN q.operations :
               /\ records[k].op = q.operations[k].op
               /\ Kept(q.operations[k]) => Kept(records[k])
      BY <1>1, <1>2, <1>4, <2>2, <3>1 DEF Sound, SavedStands
    <3>4. saved' = q /\ receipt'.operations = records
      BY <1>1, <1>6, <3>1
    <3> QED
      BY <3>2, <3>3, <3>4 DEF SavedStands, OpsDiffer, Kept
  <2> QED
    BY <2>1, <2>2
<1> QED
  BY <1>1, <1>7, <1>8, <1>9, <1>10 DEF Sound, RunInOrder, UndoneInOrder
----------------------------------------------------------------------------
(* What a receipt is worth.                                                *)

LEMMA StepIsSound ==
  ASSUME OneEach, Sound, [Next]_vars
  PROVE  Sound'
<1>0. InTurn
  BY ScheduleIsInTurn
<1>1. ASSUME NEW unreadable \in SUBSET Column, Begin(unreadable) \/ Reconcile(unreadable)
      PROVE  Sound'
  BY <1>0, <1>1, BeginIsSound, ReconcileIsSound
<1>2. ASSUME UndoAccepted PROVE Sound'
  <2>1. undone \in UndoStatus
    BY DEF Sound, Staged
  <2> QED
    BY <1>2, <2>1, UndoIsSound DEF UndoAccepted
<1>3. ASSUME UndoRejected \/ UndoLost PROVE Sound'
  BY <1>3, UndoIsSound DEF UndoRejected, UndoLost, UndoStatus
<1>4. ASSUME UNCHANGED vars PROVE Sound'
  <2>1. /\ UNCHANGED <<governs, before, at, on_failure, prestate, records, step,
                       undone, receipt, saved, unmoved>>
    BY <1>4 DEF vars
  <2>2. Staged'
    BY <2>1 DEF Sound, Staged, TypeOK, OpsDiffer
  <2>3. AllHonest'
    BY <2>1 DEF Sound, AllHonest, Honest, InForce
  <2>4. RunInOrder'
    BY <2>1 DEF Sound, RunInOrder, InHand, Stopped, CanaryBad
  <2>5. UndoneInOrder'
    BY <2>1 DEF Sound, UndoneInOrder, Undoing, ToUndo, Kept, Honest, InForce, UndoStatements
  <2>6. VerdictStands'
    BY <2>1 DEF Sound, VerdictStands, Stands, Some, Kept, InForce
  <2>7. SavedStands'
    BY <2>1 DEF Sound, SavedStands, OpsDiffer, Stands, Some, Kept, Honest, InForce
  <2> QED
    BY <2>2, <2>3, <2>4, <2>5, <2>6, <2>7 DEF Sound
<1> QED
  BY <1>0, <1>1, <1>2, <1>3, <1>4, RefuseIsSound, AcceptedIsSound, RejectedIsSound,
     LostIsSound, VerifyIsSound, FinishIsSound, SaveIsSound, RollbackIsSound, KeepIsSound,
     FinishUndoIsSound, CrashIsSound
     DEF Next

LEMMA ExecutorIsSound ==
  ASSUME OneEach
  PROVE  Spec => []Sound
<1>1. Sound /\ [Next]_vars => Sound'
  BY StepIsSound
<1> QED
  BY <1>1, NothingStarted, PTL DEF Spec

\* Every variable of the executor has its type.
THEOREM ExecutorTypeCorrect ==
  ASSUME OneEach
  PROVE  Spec => []TypeOK
<1>1. Sound => TypeOK
  BY DEF Sound, Staged
<1> QED
  BY <1>1, ExecutorIsSound, PTL

\* No record, of a run, of a rollback or of reconcile(), says more than what
\* is so (base.py:11-16).
THEOREM RecordsAreHonest ==
  ASSUME OneEach
  PROVE  Spec => []RecordsAreTrue
<1>1. Sound => RecordsAreTrue
  BY DEF Sound, AllHonest, Honest, RecordsAreTrue
<1> QED
  BY <1>1, ExecutorIsSound, PTL

\* COMPLETE means that the whole plan is in force, HALTED_AT_CANARY that
\* nothing outside the canary was touched.
THEOREM VerdictIsHonest ==
  ASSUME OneEach
  PROVE  Spec => []VerdictIsTrue
<1>1. Sound => VerdictIsTrue
  BY DEF Sound, Staged, VerdictStands, Stands, VerdictIsTrue
<1> QED
  BY <1>1, ExecutorIsSound, PTL

\* rolled_back means that the column is as preview read it, also when the
\* rollback is repeated, or begun again after a crash from the receipt that
\* was recorded, if the last statement sent for the column took effect.
THEOREM RolledBackIsRestored ==
  ASSUME OneEach
  PROVE  Spec => []RollbackRestores
<1>1. Sound => RollbackRestores
  BY DEF Sound, AllHonest, Honest, RollbackRestores
<1> QED
  BY <1>1, ExecutorIsSound, PTL

LEMMA NoDoubtBehind ==
  ASSUME OneEach, Sound, [Next]_vars, at = "running",
         NEW c \in Column \ CanaryTargets, governs'[c] # governs[c]
  PROVE  /\ \A i \in DOMAIN Plan : target(i) \in CanaryTargets => InForce(i)
         /\ on_failure = "halt" => \A k \in DOMAIN records : InForce(records[k].op)
<1>0. InTurn
  BY ScheduleIsInTurn
<1>1. Issuing /\ governs' \in {Land, governs}
  BY DEF Next, vars, Refuse, Begin, Reconcile, StatementAccepted, StatementRejected,
         StatementLost, Verify, Finish, Save, Rollback, KeepRecord, UndoAccepted,
         UndoRejected, UndoLost, UndoStatement, Undoing, FinishUndo, Crash
<1>2. c = target(InHand)
  BY <1>0, <1>1, LandType
<1>3. /\ Len(records) < Len(Schedule) /\ ~Stopped
      /\ Len(records) \in Nat /\ DOMAIN records = 1 .. Len(records)
      /\ Len(records) + 1 \in 1 .. Len(Schedule)
      /\ InHand = Schedule[Len(records) + 1]
      /\ \A k \in DOMAIN records : records[k].op = Schedule[k] /\ Honest(records[k])
  BY <1>0, <1>1, OthersInHand DEF Issuing, InHand, Sound, Staged, TypeOK, AllHonest
<1>4. CanarySize <= Len(records) /\ CanarySize \in Nat
  BY <1>0, <1>2, <1>3 DEF InTurn
<1>5. \A k \in 1 .. CanarySize : effective_ok(records[k])
  BY <1>3, <1>4 DEF Stopped, CanaryBad
<1>6. \A k \in DOMAIN records : effective_ok(records[k]) => InForce(Schedule[k])
  BY <1>3 DEF Honest, effective_ok
<1>7. ASSUME NEW i \in DOMAIN Plan, target(i) \in CanaryTargets
      PROVE  InForce(i)
  <2>1. PICK k \in 1 .. Len(Schedule) : Schedule[k] = i
    BY <1>0 DEF InTurn
  <2>2. k \in 1 .. CanarySize /\ k \in DOMAIN records
    <3>1. k \in 1 .. CanarySize
      BY <1>0, <1>7, <2>1 DEF InTurn
    <3> QED
      BY <1>3, <1>4, <3>1
  <2>3. InForce(Schedule[k])
    BY <1>5, <1>6, <2>2
  <2> QED
    BY <2>1, <2>3
<1>8. ASSUME on_failure = "halt", NEW k \in DOMAIN records
      PROVE  InForce(records[k].op)
  <2>1. effective_ok(records[k])
    BY <1>3, <1>4, <1>5, <1>8 DEF Stopped
  <2> QED
    BY <1>3, <1>6, <2>1
<1> QED
  BY <1>7, <1>8

\* A run changes a column outside the canary only when all of the canary is
\* in force and, under HALT, everything it did before is.
THEOREM NoStepPastADoubt ==
  ASSUME OneEach
  PROVE  Spec => StopsAtTheFirstDoubt
<1>1. Sound /\ [Next]_vars =>
        [at = "running" =>
           \A c \in Column \ CanaryTargets :
             governs'[c] # governs[c] =>
               /\ \A i \in DOMAIN Plan : target(i) \in CanaryTargets => InForce(i)
               /\ on_failure = "halt" => \A k \in DOMAIN records : InForce(records[k].op)
        ]_vars
  BY NoDoubtBehind
<1> QED
  BY <1>1, ExecutorIsSound, PTL DEF Spec, StopsAtTheFirstDoubt
=============================================================================
