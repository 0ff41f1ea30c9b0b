------------------------------ MODULE Executor ------------------------------
(***************************************************************************)
(* aagcp.core.executors.base with the Snowflake hooks: one plan run on one *)
(* engine by preview, execute_staged, rollback and reconcile.              *)
(*                                                                         *)
(* The engine is what governs each column.  An operation is two statements *)
(* (create the policy, attach it) or one (drop the column); only the last  *)
(* changes what governs the column.  A statement is accepted, accepted     *)
(* without effect, rejected (StatementError), or lost (TransportError: it  *)
(* may have landed).  Any other error, like a crash, ends the run with no  *)
(* receipt, and the engine is then read again by reconcile(), unless the   *)
(* receipt had been recorded: a rollback can then start again from that.   *)
(***************************************************************************)
EXTENDS Integers, Sequences, FiniteSets, FiniteSetsExt

CONSTANTS
  Column,
  Policy,         \* masking policies: the plan's own, and others
  Bare,           \* governed by no policy
  Gone,           \* dropped
  Plan,           \* a sequence of [target, wants, reversible, size]
  FailurePolicy,  \* the on_failure policies a run may be started with
  CanaryPercent, CanaryMin, CanaryMax,
  None

Governance == Policy \cup {Bare, Gone}

Operation == [target: Column, wants: Policy \cup {Gone},
              reversible: BOOLEAN, size: Nat]

ASSUME PlanAssumption ==
  /\ Plan \in Seq(Operation)
  /\ \A i \in DOMAIN Plan : Plan[i].wants = Gone => ~Plan[i].reversible

ASSUME DistinctAssumption ==
  /\ Bare # Gone /\ {Bare, Gone, None} \cap Policy = {} /\ None \notin {Bare, Gone}

ASSUME CanaryAssumption ==
  CanaryPercent \in 0 .. 100 /\ CanaryMin \in Nat /\ CanaryMax \in Nat

ASSUME PolicyAssumption == FailurePolicy \subseteq {"halt", "continue", "rollback"}

VARIABLES
  governs,     \* governs[c]: what the engine has on column c
  before,      \* what it had when execute_staged began
  at,          \* idle, running, undoing, done, or crashed
  on_failure,  \* the failure policy of the run
  prestate,    \* prestate[c]: what preview read on c, or None
  records,     \* the operation records appended so far
  step,        \* the next statement of the operation in hand
  undone,      \* status so far of the operation being undone
  receipt,     \* the receipt returned, or None
  saved,       \* the receipt recorded with its pre-state, or None
  unmoved      \* the columns whose last undo statement changed nothing

vars == <<governs, before, at, on_failure, prestate, records, step, undone,
          receipt, saved, unmoved>>

OperationStatus == {"applied", "partially_applied", "failed", "not_attempted",
                    "unknown", "rolled_back"}

Record == [op: DOMAIN Plan, status: OperationStatus,
           verified: {"yes", "no", "unread"}]

Verdict == {"COMPLETE", "PARTIAL", "HALTED_AT_CANARY", "FAILED",
            "INCONCLUSIVE", "REFUSED", "ROLLED_BACK"}

Receipt == [verdict: Verdict, operations: Seq(Record), reconciled: BOOLEAN]

target(i) == Plan[i].target

Rec(i, status, verified) == [op |-> i, status |-> status, verified |-> verified]

----------------------------------------------------------------------------
(* The stages of a run.                                                    *)

Smaller(i, j) == \/ Plan[i].size < Plan[j].size
                 \/ Plan[i].size = Plan[j].size /\ i < j

Place(i) == 1 + Cardinality({j \in DOMAIN Plan : Smaller(j, i)})

\* select_canary(): the smallest operations, a share of the plan rounded up.
CanarySize ==
  IF CanaryPercent = 0 THEN 0
  ELSE Min({Len(Plan), CanaryMax,
            Max({CanaryMin, (Len(Plan) * CanaryPercent + 99) \div 100})})

CanaryTargets == {target(i) : i \in {j \in DOMAIN Plan : Place(j) <= CanarySize}}

\* ops_by_target keeps the last operation of a target.
OpOf(c) == Max({i \in DOMAIN Plan : target(i) = c})

\* The operations whose target is not in the canary, in the plan's order.
Rest == {i \in DOMAIN Plan : target(i) \notin CanaryTargets}

PlaceInRest(i) == Cardinality({j \in Rest : j <= i})

\* The operations in the order a run takes them: the canary smallest first,
\* then the rest.
Schedule ==
  [k \in 1 .. CanarySize + Cardinality(Rest) |->
     IF k <= CanarySize
     THEN OpOf(target(CHOOSE i \in DOMAIN Plan : Place(i) = k))
     ELSE CHOOSE i \in Rest : PlaceInRest(i) = k - CanarySize]

Statements(i) == IF Plan[i].wants = Gone THEN 1 ELSE 2

FaultOk(r) == r.status = "applied"
effective_ok(r) == r.status = "applied" /\ r.verified = "yes"

CanaryBad == \E k \in 1 .. Len(records) : k <= CanarySize /\ ~effective_ok(records[k])

\* No statement is issued any more: the canary failed, or HALT after a bad one.
FaultStopped == Len(records) > CanarySize /\ CanaryBad
Stopped ==
  /\ Len(records) >= CanarySize
  /\ \/ CanaryBad
     \/ /\ on_failure = "halt"
        /\ \E k \in CanarySize + 1 .. Len(records) : ~effective_ok(records[k])

\* _verdict(): the floor over the parts, the unobserved first.
Some(recs, statuses) == \E k \in DOMAIN recs : recs[k].status \in statuses

Unobserved(recs) ==
  \/ Some(recs, {"unknown"})
  \/ \E k \in DOMAIN recs : recs[k].status = "applied" /\ recs[k].verified = "unread"

RunVerdict(recs) ==
  IF recs = <<>> THEN "COMPLETE"
  ELSE IF Unobserved(recs) THEN "INCONCLUSIVE"
  ELSE IF \A k \in DOMAIN recs : effective_ok(recs[k]) THEN "COMPLETE"
  ELSE IF CanaryBad THEN "HALTED_AT_CANARY"
  ELSE IF Some(recs, {"applied", "partially_applied"}) THEN "PARTIAL"
  ELSE "FAILED"

----------------------------------------------------------------------------

Init ==
  /\ governs \in [Column -> Policy \cup {Bare}]
  /\ before = governs
  /\ at = "idle"
  /\ on_failure \in FailurePolicy
  /\ prestate = [c \in Column |-> None]
  /\ records = <<>>
  /\ step = 1
  /\ undone = "rolled_back"
  /\ receipt = None
  /\ saved = None
  /\ unmoved = {}

\* preview() finds that the plan is for another dialect, or holds an
\* operation this executor does not support.
Refuse ==
  /\ at = "idle"
  /\ at' = "done"
  /\ records' = [k \in DOMAIN Plan |-> Rec(k, "not_attempted", "unread")]
  /\ receipt' = [verdict |-> "REFUSED", operations |-> records',
                 reconciled |-> FALSE]
  /\ UNCHANGED <<governs, before, on_failure, prestate, step, undone, saved,
                unmoved>>

\* preview() reads the pre-state of every column it can.  Snowflake needs
\* none to run: what cannot be read is a warning.
Begin(unreadable) ==
  /\ at = "idle"
  /\ at' = "running"
  /\ prestate' = [c \in Column |->
       IF c \in unreadable \/ Plan[OpOf(c)].wants = Gone THEN None ELSE governs[c]]
  /\ UNCHANGED <<governs, before, on_failure, records, step, undone, receipt,
                saved, unmoved>>

InHand == Schedule[Len(records) + 1]

Append1(r) == records' = Append(records, r) /\ step' = 1

Issuing ==
  /\ at = "running"
  /\ Len(records) < Len(Schedule)
  /\ ~Stopped
  /\ step <= Statements(InHand)

Land == IF step = Statements(InHand)
        THEN [governs EXCEPT ![target(InHand)] = Plan[InHand].wants]
        ELSE governs

StatementAccepted ==
  /\ Issuing
  /\ governs' \in {Land, governs}
  /\ step' = step + 1
  /\ UNCHANGED <<before, at, on_failure, prestate, records, undone, receipt,
                saved, unmoved>>

StatementRejected ==
  /\ Issuing
  /\ Append1(Rec(InHand, IF step = 1 THEN "failed" ELSE "partially_applied", "unread"))
  /\ UNCHANGED <<governs, before, at, on_failure, prestate, undone, receipt,
                saved, unmoved>>

FaultStatementLost ==
  /\ Issuing
  /\ governs' \in {Land, governs}
  /\ Append1(Rec(InHand, "failed", "unread"))
  /\ UNCHANGED <<before, at, on_failure, prestate, undone, receipt, saved,
                unmoved>>

StatementLost ==
  /\ Issuing
  /\ governs' \in {Land, governs}
  /\ Append1(Rec(InHand, "unknown", "unread"))
  /\ UNCHANGED <<before, at, on_failure, prestate, undone, receipt, saved,
                unmoved>>

\* _verify_operation(): what the engine answers, or that it cannot be asked.
Answers(i) == {IF governs[target(i)] = Plan[i].wants THEN "yes" ELSE "no", "unread"}

Verify ==
  /\ at = "running"
  /\ Len(records) < Len(Schedule)
  /\ step > Statements(InHand)
  /\ \E verified \in Answers(InHand) : Append1(Rec(InHand, "applied", verified))
  /\ UNCHANGED <<governs, before, at, on_failure, prestate, undone, receipt,
                saved, unmoved>>

\* What was not reached is recorded so, and under ROLLBACK a run that is not
\* complete goes on to undo itself.
Finish ==
  /\ at = "running"
  /\ Len(records) = Len(Schedule) \/ Stopped
  /\ LET all == [k \in DOMAIN Schedule |->
                  IF k <= Len(records) THEN records[k]
                  ELSE Rec(Schedule[k], "not_attempted", "unread")]
         undo == on_failure = "rollback" /\ RunVerdict(all) # "COMPLETE"
     IN /\ receipt' = [verdict |-> RunVerdict(all), operations |-> all,
                       reconciled |-> FALSE]
        /\ at' = IF undo THEN "undoing" ELSE "done"
        /\ records' = IF undo THEN <<>> ELSE all
  /\ step' = 1
  /\ UNCHANGED <<governs, before, on_failure, prestate, undone, saved,
                unmoved>>

----------------------------------------------------------------------------
(* rollback(): every record of a receipt in turn, whether the receipt is   *)
(* the last one returned or the one recorded.                              *)

\* The journal takes the receipt whole, its pre-state with it.
Save ==
  /\ at = "done"
  /\ saved = None
  /\ saved' = receipt
  /\ UNCHANGED <<governs, before, at, on_failure, prestate, records, step,
                 undone, receipt, unmoved>>

Rollback ==
  /\ at \in {"done", "crashed"}
  /\ receipt' \in {receipt, saved} \ {None}
  /\ at' = "undoing"
  /\ records' = <<>>
  /\ UNCHANGED <<governs, before, on_failure, prestate, step, undone, saved,
                 unmoved>>

Undoing == at = "undoing" /\ Len(records) < Len(receipt.operations)

ToUndo == receipt.operations[Len(records) + 1]

\* Nothing to undo, or nothing that can honestly be undone.
Kept(r) ==
  \/ r.status \in {"not_attempted", "failed", "unknown"}
  \/ ~Plan[r.op].reversible

KeepRecord ==
  /\ Undoing
  /\ Kept(ToUndo)
  /\ records' = Append(records, ToUndo)
  /\ UNCHANGED <<governs, before, at, on_failure, prestate, step, undone,
                receipt, saved, unmoved>>

\* The column's policy is unset; what the run displaced is set again, unless
\* it is the operation's own policy or was not read.
FaultUnsetOnly(i) == <<Bare>>
UndoStatements(i) ==
  IF prestate[target(i)] \in {None, Bare, Gone, Plan[i].wants} THEN <<Bare>>
  ELSE <<Bare, prestate[target(i)]>>

\* Every statement is tried, whatever became of the one before it, and the
\* last failure names the record's status.  Nothing reads the column again,
\* so that a statement accepted without effect leaves no trace.
UndoStatement(effect, status) ==
  /\ Undoing
  /\ ~Kept(ToUndo)
  /\ LET todo == UndoStatements(ToUndo.op)
         c == target(ToUndo.op)
     IN /\ \E e \in effect :
             /\ governs' = IF e THEN [governs EXCEPT ![c] = todo[step]] ELSE governs
             /\ unmoved' = IF e THEN unmoved \ {c} ELSE unmoved \cup {c}
        /\ IF step < Len(todo)
           THEN /\ step' = step + 1
                /\ undone' = status
                /\ UNCHANGED records
           ELSE /\ Append1(Rec(ToUndo.op, status, "unread"))
                /\ undone' = "rolled_back"
  /\ UNCHANGED <<before, at, on_failure, prestate, receipt, saved>>

UndoAccepted == UndoStatement(BOOLEAN, undone)
UndoRejected == UndoStatement({FALSE}, "partially_applied")
UndoLost     == UndoStatement(BOOLEAN, "unknown")

FinishUndo ==
  /\ at = "undoing"
  /\ Len(records) = Len(receipt.operations)
  /\ at' = "done"
  /\ receipt' = [verdict |-> IF Some(records, {"unknown"}) THEN "INCONCLUSIVE"
                             ELSE IF Some(records, {"rolled_back"}) THEN "ROLLED_BACK"
                             ELSE receipt.verdict,
                 operations |-> records, reconciled |-> FALSE]
  /\ UNCHANGED <<governs, before, on_failure, prestate, records, step,
                undone, saved, unmoved>>

----------------------------------------------------------------------------

\* The process dies, or an error escapes: the receipt never reaches anyone.
Crash ==
  /\ at \notin {"idle", "crashed"}
  /\ at' = "crashed"
  /\ records' = <<>>
  /\ step' = 1
  /\ undone' = "rolled_back"
  /\ receipt' = None
  /\ UNCHANGED <<governs, before, on_failure, prestate, saved, unmoved>>

ReconcileVerdict(recs) ==
  IF Some(recs, {"unknown"}) THEN "INCONCLUSIVE"
  ELSE IF Some(recs, {"applied"})
       THEN IF Some(recs, {"not_attempted"}) THEN "PARTIAL" ELSE "COMPLETE"
       ELSE "FAILED"

\* reconcile(), of an attempt with no recorded receipt: the plan is not run,
\* and each operation is what the engine says.
Observed(i, answer) ==
  Rec(i, CASE answer = "yes" -> "applied"
           [] answer = "no"  -> "not_attempted"
           [] OTHER          -> "unknown", answer)

Reconcile(unreadable) ==
  /\ at = "crashed"
  /\ saved = None
  /\ at' = "done"
  /\ records' = [i \in DOMAIN Plan |->
       Observed(i, CHOOSE a \in Answers(i) : (a = "unread") = (target(i) \in unreadable))]
  /\ receipt' = [verdict |-> ReconcileVerdict(records'), operations |-> records',
                 reconciled |-> TRUE]
  /\ prestate' = [c \in Column |-> None]
  /\ UNCHANGED <<governs, before, on_failure, step, undone, saved, unmoved>>

Next ==
  \/ Refuse
  \/ \E unreadable \in SUBSET Column : Begin(unreadable) \/ Reconcile(unreadable)
  \/ StatementAccepted \/ StatementRejected \/ StatementLost
  \/ Verify
  \/ Finish
  \/ Save
  \/ Rollback
  \/ KeepRecord
  \/ UndoAccepted \/ UndoRejected \/ UndoLost
  \/ FinishUndo
  \/ Crash

Spec == Init /\ [][Next]_vars

----------------------------------------------------------------------------
(* What a receipt is worth.  These hold for a plan that names no column    *)
(* twice.                                                                  *)

\* Every variable has its type.
TypeOK ==
  /\ governs \in [Column -> Governance]
  /\ before \in [Column -> Policy \cup {Bare}]
  /\ at \in {"idle", "running", "undoing", "done", "crashed"}
  /\ on_failure \in FailurePolicy
  /\ prestate \in [Column -> Governance \cup {None}]
  /\ records \in Seq(Record)
  /\ step \in 1 .. 3
  /\ undone \in OperationStatus
  /\ receipt \in Receipt \cup {None}
  /\ saved \in Receipt \cup {None}
  /\ unmoved \in SUBSET Column

InForce(i) == governs[target(i)] = Plan[i].wants

\* No record says more than what is so (base.py:11-16): what a run did not
\* attempt, or saw rejected, is as it was before the run, also when later
\* statements were lost or undone; what reconcile found not applied is not
\* in force; and what was verified is.
RecordsAreTrue ==
  \A k \in DOMAIN records :
    LET r == records[k] IN
      /\ r.verified = "yes" => InForce(r.op)
      /\ r.status = "not_attempted" /\ r.verified = "no" => ~InForce(r.op)
      /\ r.status \in {"not_attempted", "failed"} /\ r.verified = "unread" =>
           governs[target(r.op)] = before[target(r.op)]

\* COMPLETE, run or reconciled, means the whole plan is in force on the
\* engine; HALTED_AT_CANARY that nothing outside the canary was touched.
\* (A rollback in which every undo was rejected returns the verdict it began
\* with, COMPLETE too, beside records that are partially applied.)
VerdictIsTrue ==
  at = "done" =>
    /\ receipt.verdict = "COMPLETE" /\ ~Some(records, {"partially_applied"}) =>
         \A i \in DOMAIN Plan : InForce(i)
    /\ receipt.verdict = "HALTED_AT_CANARY" =>
         \A c \in Column \ CanaryTargets : governs[c] = before[c]

\* A record that says rolled_back, of a column whose pre-state was read and
\* was not the operation's own policy, means the column is as it was, however
\* often the rollback is repeated or restarted from the recorded receipt,
\* also over columns undone before, unless the last statement sent for the
\* column was accepted and changed nothing: rollback() asks the engine for
\* nothing (base.py:716-731), so that case is beyond it.  See the findings.
RollbackRestores ==
  \A k \in DOMAIN records :
    LET c == target(records[k].op) IN
      records[k].status = "rolled_back" /\ c \notin unmoved
        /\ prestate[c] \notin {None, Plan[records[k].op].wants} =>
      governs[c] = before[c]

\* A run changes a column outside the canary only when all of the canary is
\* in force and, under HALT, everything it did before is.
StopsAtTheFirstDoubt ==
  [][at = "running" =>
      \A c \in Column \ CanaryTargets :
        governs'[c] # governs[c] =>
          /\ \A i \in DOMAIN Plan : target(i) \in CanaryTargets => InForce(i)
          /\ on_failure = "halt" => \A k \in DOMAIN records : InForce(records[k].op)
    ]_vars

\* "our rollback must not leave the column bare" (snowflake.py:67-69), for a
\* column that an earlier run, or someone else, had governed.  The code
\* does not keep it: see the findings.
RollbackNeverBares ==
  \A k \in DOMAIN records :
    LET c == target(records[k].op) IN
      records[k].status = "rolled_back" /\ before[c] # Bare => governs[c] # Bare
=============================================================================
