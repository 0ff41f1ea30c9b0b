------------------------------ MODULE Postgres ------------------------------
(***************************************************************************)
(* aagcp.core.executors.base with the Postgres hooks: a column is governed *)
(* by a view of its table and a REVOKE from PUBLIC, and a rollback grants  *)
(* again what the preview saw granted.                                     *)
(*                                                                         *)
(* The stages of a run are those of module Executor; here a run takes the  *)
(* plan's operations in order and may end after any of them, as a canary   *)
(* or HALT would have it.  All operations mask; a dropped column is the    *)
(* same under either dialect, and a rollback taken up again from the       *)
(* recorded receipt is module Executor's.  Outside the run, somebody may   *)
(* grant or revoke a role's access at any time.                            *)
(***************************************************************************)
EXTENDS Integers, Sequences, FiniteSets

CONSTANTS
  Column, Table, TableOf,
  Grantee, Public,
  Plan,        \* a sequence of [column, audience, reversible]
  MaxOutside,  \* grants and revokes by others
  Nothing

ASSUME PostgresAssumption ==
  /\ TableOf \in [Column -> Table]
  /\ Public \in Grantee
  /\ Plan \in Seq([column : Column, audience : Seq(Grantee), reversible : BOOLEAN])
  /\ \A i, j \in DOMAIN Plan : Plan[i].column = Plan[j].column => i = j
  /\ MaxOutside \in Nat
  /\ Nothing \notin Column

VARIABLES
  view,      \* view[t]: the column <t>_governed masks, or Nothing if there is none
  grants,    \* grants[c]: who may SELECT the column itself
  at,        \* idle, running, undoing, done, or crashed
  prestate,  \* prestate[c]: the grants preview read, or Nothing
  records,   \* the operation records appended so far
  step,      \* the next statement of the operation in hand
  left,      \* the grants the operation being undone has still to give back
  undone,    \* its status so far
  receipt,   \* the records of the receipt, or Nothing
  before,    \* the grants when the plan was previewed
  touched,   \* the columns whose grants others have changed since
  dropped,   \* the tables whose view a rollback has dropped since the last reading
  unmoved    \* the [column, grantee] whose last GRANT of a rollback changed nothing

pgVars == <<view, grants, at, prestate, records, step, left, undone, receipt,
            before, touched, dropped, unmoved>>

column(i) == Plan[i].column
table(i) == TableOf[column(i)]
AudienceOf(i) == {Plan[i].audience[k] : k \in DOMAIN Plan[i].audience}

Rec(i, status, verified, residual) ==
  [op |-> i, status |-> status, verified |-> verified, residual |-> residual]

PgInit ==
  /\ view \in [Table -> Column \cup {Nothing}]
  /\ grants \in [Column -> SUBSET Grantee]
  /\ at = "idle"
  /\ prestate = [c \in Column |-> Nothing]
  /\ records = <<>>
  /\ step = 1
  /\ left = {}
  /\ undone = "rolled_back"
  /\ receipt = Nothing
  /\ before = grants
  /\ touched = {}
  /\ dropped = {}
  /\ unmoved = {}

\* preview() could not read the grants of some column: nothing is run.
Refuse ==
  /\ at = "idle"
  /\ at' = "done"
  /\ records' = [i \in DOMAIN Plan |-> Rec(i, "not_attempted", "unread", FALSE)]
  /\ receipt' = records'
  /\ UNCHANGED <<view, grants, prestate, step, left, undone, before, touched, dropped, unmoved>>

\* An answer of no rows, or none where the query returns nothing, is taken for
\* a snapshot in which nobody holds the column.
Begin(blind) ==
  /\ at = "idle"
  /\ at' = "running"
  /\ prestate' = [c \in Column |-> IF c \in blind THEN {} ELSE grants[c]]
  /\ before' = grants
  /\ touched' = {}
  /\ dropped' = {}
  /\ UNCHANGED <<view, grants, records, step, left, undone, receipt, unmoved>>

----------------------------------------------------------------------------
(* One operation: create or replace the view, revoke from PUBLIC, grant to *)
(* each role of the audience.                                              *)

InHand == Len(records) + 1

Statements(i) == 2 + Len(Plan[i].audience)

Append1(r) == records' = Append(records, r) /\ step' = 1

Issuing == at = "running" /\ InHand \in DOMAIN Plan /\ step <= Statements(InHand)

Lands ==
  LET c == column(InHand) IN
    /\ view' = IF step = 1 THEN [view EXCEPT ![table(InHand)] = c] ELSE view
    /\ grants' = CASE step = 1 -> grants
                   [] step = 2 -> [grants EXCEPT ![c] = @ \ {Public}]
                   [] step > 2 -> [grants EXCEPT ![c] = @ \cup {Plan[InHand].audience[step - 2]}]

NoEffect == UNCHANGED <<view, grants>>

\* Accepted, perhaps without effect: a REVOKE from a column leaves what is
\* held of the whole table.
StatementAccepted ==
  /\ Issuing
  /\ Lands \/ NoEffect
  /\ step' = step + 1
  /\ UNCHANGED <<at, prestate, records, left, undone, receipt, before, touched, dropped, unmoved>>

\* The view is there and the REVOKE was not accepted.
Residual == step = 2

StatementRejected ==
  /\ Issuing
  /\ NoEffect
  /\ Append1(Rec(InHand, IF step = 1 THEN "failed" ELSE "partially_applied",
                 "unread", Residual))
  /\ UNCHANGED <<at, prestate, left, undone, receipt, before, touched, dropped, unmoved>>

StatementLost ==
  /\ Issuing
  /\ Lands \/ NoEffect
  /\ Append1(Rec(InHand, "unknown", "unread", Residual))
  /\ UNCHANGED <<at, prestate, left, undone, receipt, before, touched, dropped, unmoved>>

\* Both conditions: the table has a governed view, and PUBLIC does not hold
\* the column.
FaultGoverned(i) == view[table(i)] # Nothing
Governed(i) == view[table(i)] # Nothing /\ Public \notin grants[column(i)]

Answers(i) == {IF Governed(i) THEN "yes" ELSE "no", "unread"}

Verify ==
  /\ at = "running"
  /\ InHand \in DOMAIN Plan
  /\ step > Statements(InHand)
  /\ \E verified \in Answers(InHand) : Append1(Rec(InHand, "applied", verified, FALSE))
  /\ UNCHANGED <<view, grants, at, prestate, left, undone, receipt, before, touched, dropped, unmoved>>

Finish ==
  /\ at = "running"
  /\ step = 1
  /\ at' = "done"
  /\ records' = [i \in DOMAIN Plan |->
       IF i <= Len(records) THEN records[i] ELSE Rec(i, "not_attempted", "unread", FALSE)]
  /\ receipt' = records'
  /\ UNCHANGED <<view, grants, prestate, step, left, undone, before, touched, dropped, unmoved>>

----------------------------------------------------------------------------
(* rollback(): DROP VIEW, then a GRANT for every SELECT of the snapshot.   *)

Rollback ==
  /\ at = "done"
  /\ at' = "undoing"
  /\ records' = <<>>
  /\ UNCHANGED <<view, grants, prestate, step, left, undone, receipt, before, touched, dropped, unmoved>>

Undoing == at = "undoing" /\ Len(records) < Len(receipt)

ToUndo == receipt[Len(records) + 1]

\* Without the snapshot _undo_statements() raises CapabilityError.
Kept(r) ==
  \/ r.status \in {"not_attempted", "failed", "unknown"}
  \/ ~Plan[r.op].reversible
  \/ prestate[column(r.op)] = Nothing

KeepRecord ==
  /\ Undoing
  /\ Kept(ToUndo)
  /\ records' = Append(records, ToUndo)
  /\ UNCHANGED <<view, grants, at, prestate, step, left, undone, receipt, before, touched, dropped, unmoved>>

FaultRegrants(i) == {Public}
Regrants(i) == prestate[column(i)]

\* A statement with this outcome has left the operation in hand so far in
\* this status; after the last one it is recorded.
Undone(status, todo) ==
  IF todo = {}
  THEN /\ Append1(Rec(ToUndo.op, status, "unread", FALSE))
       /\ undone' = "rolled_back"
       /\ left' = {}
  ELSE /\ undone' = status
       /\ left' = todo
       /\ step' = 2
       /\ UNCHANGED records

UndoView(lands, status) ==
  /\ Undoing /\ ~Kept(ToUndo) /\ step = 1
  /\ view' = IF lands THEN [view EXCEPT ![table(ToUndo.op)] = Nothing] ELSE view
  /\ dropped' = IF lands THEN dropped \cup {table(ToUndo.op)} ELSE dropped
  /\ Undone(status, Regrants(ToUndo.op))
  /\ UNCHANGED <<grants, at, prestate, receipt, before, touched, unmoved>>

UndoRevoke(g, lands, status) ==
  /\ Undoing /\ ~Kept(ToUndo) /\ step = 2
  /\ g \in left
  /\ grants' = IF lands THEN [grants EXCEPT ![column(ToUndo.op)] = @ \cup {g}] ELSE grants
  /\ unmoved' = (unmoved \ {[column |-> column(ToUndo.op), grantee |-> g]}) \cup
                 (IF lands THEN {} ELSE {[column |-> column(ToUndo.op), grantee |-> g]})
  /\ Undone(status, left \ {g})
  /\ UNCHANGED <<view, at, prestate, receipt, before, touched, dropped>>

UndoStatement(lands, status) ==
  UndoView(lands, status) \/ \E g \in Grantee : UndoRevoke(g, lands, status)

\* Accepted is what is recorded: nothing is asked of the engine afterwards.
UndoAccepted == \E lands \in BOOLEAN : UndoStatement(lands, undone)
UndoRejected == UndoStatement(FALSE, "partially_applied")
UndoLost     == \E lands \in BOOLEAN : UndoStatement(lands, "unknown")

FinishUndo ==
  /\ at = "undoing"
  /\ Len(records) = Len(receipt)
  /\ at' = "done"
  /\ receipt' = records
  /\ UNCHANGED <<view, grants, prestate, records, step, left, undone, before, touched, dropped, unmoved>>

----------------------------------------------------------------------------

Crash ==
  /\ at \in {"running", "undoing", "done"}
  /\ at' = "crashed"
  /\ records' = <<>>
  /\ step' = 1
  /\ left' = {}
  /\ undone' = "rolled_back"
  /\ receipt' = Nothing
  /\ UNCHANGED <<view, grants, prestate, before, touched, dropped, unmoved>>

\* reconcile() asks the same questions, and its receipt has no snapshot.
Observed(i, answer) ==
  Rec(i, CASE answer = "yes" -> "applied"
           [] answer = "no" -> "not_attempted"
           [] answer = "unread" -> "unknown", answer, FALSE)

Reconcile ==
  /\ at = "crashed"
  /\ at' = "done"
  /\ \E unread \in SUBSET (DOMAIN Plan) :
       records' = [i \in DOMAIN Plan |->
         Observed(i, IF i \in unread THEN "unread"
                     ELSE IF Governed(i) THEN "yes" ELSE "no")]
  /\ receipt' = records'
  /\ prestate' = [c \in Column |-> Nothing]
  /\ dropped' = {}
  /\ UNCHANGED <<view, grants, step, left, undone, before, touched, unmoved>>

\* A database administrator grants or revokes.
Outside(c, g) ==
  /\ at # "idle"
  /\ Cardinality(touched) < MaxOutside
  /\ c \notin touched
  /\ grants' = [grants EXCEPT ![c] = IF g \in @ THEN @ \ {g} ELSE @ \cup {g}]
  /\ touched' = touched \cup {c}
  /\ UNCHANGED <<view, at, prestate, records, step, left, undone, receipt, before, dropped,
                 unmoved>>

PgNext ==
  \/ Refuse
  \/ \E blind \in SUBSET Column : Begin(blind)
  \/ StatementAccepted \/ StatementRejected \/ StatementLost
  \/ Verify
  \/ Finish
  \/ Rollback
  \/ KeepRecord
  \/ UndoAccepted \/ UndoRejected \/ UndoLost
  \/ FinishUndo
  \/ Crash \/ Reconcile
  \/ \E c \in Column, g \in Grantee : Outside(c, g)

PgSpec == PgInit /\ [][PgNext]_pgVars

----------------------------------------------------------------------------

\* The view belongs to the table (postgres.py:101): what a record of a run, or
\* of a reconciliation, says was verified stays so while nobody else grants the
\* column again and no rollback drops the view of its table.
VerifiedIsGoverned ==
  \A k \in DOMAIN records :
    LET i == records[k].op IN
      records[k].verified = "yes" /\ column(i) \notin touched /\ table(i) \notin dropped =>
        view[table(i)] # Nothing /\ Public \notin grants[column(i)]

\* "An executor that guessed the prior grants would either over-grant or
\* under-grant, and would report both as a clean revert" (postgres.py:8-14).
\* A record that says rolled_back means that every grantee of the snapshot whose
\* last GRANT the engine did not pass over has access again, and that nobody has
\* who had none before, but the audience, whom the run itself let in.  Neither
\* the snapshot nor the GRANTs are verified (postgres.py:52, base.py:716-731).
RollbackGivesBack ==
  \A k \in DOMAIN records :
    LET i == records[k].op
        c == column(i)
    IN records[k].status = "rolled_back" /\ c \notin touched =>
         /\ \A g \in before[c] :
              \/ g \in grants[c]
              \/ g \notin prestate[c]
              \/ [column |-> c, grantee |-> g] \in unmoved
         /\ grants[c] \subseteq before[c] \cup AudienceOf(i)
=============================================================================
