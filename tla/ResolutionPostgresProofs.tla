---------------------- MODULE ResolutionPostgresProofs ----------------------
(***************************************************************************)
(* Two components that share nothing: who is resolved, for any number of   *)
(* people, kinds and keys, and any history of the estate and of the        *)
(* indexes taken of it; and what the Postgres executor's records and       *)
(* rollbacks say of views and grants, for any plan, tables and audiences.  *)
(***************************************************************************)
EXTENDS Resolution, Postgres, FiniteSetTheorems, TLAPS

\* The index says of everybody it lists what the estate said when it was taken.
IndexIsTaken ==
  /\ Listed(index) \subseteq Person
  /\ \A p \in Listed(index) : index.records[p] = taken[p]
  /\ index.complete => Listed(index) = Person

\* What is resolved carries the keys of the record that is held.
LinkedIsHeld ==
  held # None /\ held.verdict = "RESOLVED" =>
    held.linked = Linked(held.records[held.subject])

IInv == IndexIsTaken /\ LinkedIsHeld /\ TheRightPerson

----------------------------------------------------------------------------
(* The answer, as a function of the index and the query.                   *)

\* Who gives the keys they are listed under is among those who match.
LEMMA AskerMatches ==
  ASSUME NEW asker, NEW query, IndexIsTaken, Current(asker, query),
         asker \in Listed(index)
  PROVE  asker \in Matching(index, query)
<1>1. \A i \in DOMAIN query : get(index.records[asker], query[i].kind) = query[i].value
  BY DEF IndexIsTaken, Current
<1>2. \A i \in DOMAIN query : asker \in lookup(index, query[i])
  BY <1>1 DEF lookup
<1>3. QED BY <1>2 DEF Matching

\* A resolved query has one match, in an index that is complete.
LEMMA ResolvedIsOne ==
  ASSUME NEW query, IndexIsTaken, Verdict(index, query) = "RESOLVED"
  PROVE  /\ index.complete
         /\ \A p \in Matching(index, query) : Only(Matching(index, query)) = p
         /\ Matching(index, query) # {}
<1> DEFINE M == Matching(index, query)
<1>1. /\ M # {} /\ ~(Cardinality(M) > 1) /\ index.complete
  BY DEF Verdict
<1>2. M \subseteq Listed(index)
  BY DEF Matching
<1>3. IsFiniteSet(M)
  BY <1>2, FS_Subset, ResolutionAssumption DEF IndexIsTaken
<1>4. Cardinality(M) \in Nat /\ Cardinality(M) # 0
  BY <1>1, <1>3, FS_CardinalityType, FS_EmptySet
<1>5. Cardinality(M) = 1
  BY <1>1, <1>4
<1>6. PICK x : M = {x}
  BY <1>3, <1>5, FS_Singleton
<1>7. Only(M) \in M
  BY <1>1 DEF Only
<1>8. \A p \in M : Only(M) = p
  BY <1>6, <1>7
<1>9. QED BY <1>1, <1>8

\* The fields of an answer that the invariant speaks of.
LEMMA Answered ==
  ASSUME NEW query
  PROVE  /\ resolve(index, query).verdict = Verdict(index, query)
         /\ resolve(index, query).by = "lookup"
         /\ Verdict(index, query) = "RESOLVED" =>
              resolve(index, query).subject = Only(Matching(index, query))
         /\ Verdict(index, query) # "INDEX_UNAVAILABLE" =>
              resolve(index, query).records =
                [p \in Matching(index, query) |-> index.records[p]]
<1> QED BY DEF resolve

\* An answer's linked keys are those of its record.
LEMMA AnswerLinks ==
  ASSUME NEW query, IndexIsTaken, Verdict(index, query) = "RESOLVED"
  PROVE  resolve(index, query).linked =
           Linked(resolve(index, query).records[resolve(index, query).subject])
<1> DEFINE x == Only(Matching(index, query))
<1>1. x \in Matching(index, query)
  BY ResolvedIsOne DEF Only
<1>2. x \in Person
  BY <1>1 DEF Matching, IndexIsTaken
<1>3. x # None
  BY <1>2, ResolutionAssumption
<1>4. resolve(index, query).subject = x
  BY Answered
<1>5. resolve(index, query).linked = Linked(index.records[x])
  BY <1>3 DEF resolve
<1>6. resolve(index, query).records[x] = index.records[x]
  BY <1>1, Answered
<1>7. QED BY <1>4, <1>5, <1>6

----------------------------------------------------------------------------
(* The invariant.                                                          *)

LEMMA InvInit == Init => IInv
<1> SUFFICES ASSUME Init PROVE IInv
  OBVIOUS
<1>1. Listed(index) = {}
  BY DEF Init, Listed
<1>2. IndexIsTaken
  BY <1>1 DEF Init, IndexIsTaken
<1>3. QED BY <1>2 DEF Init, IInv, LinkedIsHeld, TheRightPerson

\* A step that leaves the index, what was taken and the answer alone.
LEMMA Frame ==
  IInv /\ UNCHANGED <<index, taken, held, asked>> => IInv'
  BY DEF IInv, IndexIsTaken, Listed, LinkedIsHeld, TheRightPerson

LEMMA TakeStep ==
  ASSUME IInv, NEW listed \in SUBSET Person, NEW complete \in BOOLEAN,
         NEW unavailable, TakeIndex(listed, complete, unavailable)
  PROVE  IInv'
<1>1. index' = [records |-> [p \in listed |-> estate[p]],
                complete |-> complete, unavailable |-> unavailable]
      /\ taken' = estate
  BY DEF TakeIndex
<1>2. IndexIsTaken'
  BY <1>1 DEF TakeIndex, IndexIsTaken, Listed
<1>3. LinkedIsHeld' /\ TheRightPerson'
  BY DEF TakeIndex, IInv, LinkedIsHeld, TheRightPerson
<1>4. QED BY <1>2, <1>3 DEF IInv

LEMMA ResolveStep ==
  ASSUME IInv, NEW asker \in Person, NEW query, Resolve(asker, query)
  PROVE  IInv'
<1>1. IndexIsTaken
  BY DEF IInv
<1>2. IndexIsTaken'
  BY <1>1 DEF Resolve, IndexIsTaken, Listed
<1>3. /\ held' = resolve(index, query)
      /\ asked' = [by |-> asker, current |-> Current(asker, query),
                   complete |-> index.complete]
  BY DEF Resolve
<1>4. LinkedIsHeld'
  BY <1>1, <1>3, Answered, AnswerLinks DEF LinkedIsHeld
<1>5. TheRightPerson'
  <2> SUFFICES ASSUME Current(asker, query)
               PROVE  /\ held'.verdict = "RESOLVED" => held'.subject = asker
                      /\ index.complete /\ held'.verdict # "INDEX_UNAVAILABLE" =>
                           asker \in DOMAIN held'.records
    BY <1>3 DEF TheRightPerson
  <2>1. index.complete => asker \in Matching(index, query)
    BY <1>1, AskerMatches DEF IndexIsTaken
  <2>2. held'.verdict = "RESOLVED" => held'.subject = asker
    BY <1>1, <1>3, <2>1, Answered, ResolvedIsOne
  <2>3. index.complete /\ held'.verdict # "INDEX_UNAVAILABLE" =>
          asker \in DOMAIN held'.records
    BY <1>3, <2>1, Answered
  <2>4. QED BY <2>2, <2>3
<1>6. QED BY <1>2, <1>4, <1>5 DEF IInv

LEMMA SelectStep ==
  ASSUME IInv, NEW p \in Person, Select(p)
  PROVE  IInv'
<1>1. IndexIsTaken'
  BY DEF IInv, Select, IndexIsTaken, Listed
<1>2. /\ held'.by = "human" /\ held'.subject = p
      /\ held'.linked = Linked(held.records[p])
      /\ held'.records[p] = held.records[p]
  BY DEF Select, select
<1>3. LinkedIsHeld'
  BY <1>2 DEF LinkedIsHeld
<1>4. TheRightPerson'
  BY <1>2 DEF TheRightPerson
<1>5. QED BY <1>1, <1>3, <1>4 DEF IInv

LEMMA InvNext == IInv /\ [Next]_vars => IInv'
<1> SUFFICES ASSUME IInv, [Next]_vars PROVE IInv'
  OBVIOUS
<1>1. ASSUME NEW p \in Person, NEW k \in Kind, NEW v \in ValueOf[k], Gain(p, k, v)
      PROVE  IInv'
  BY <1>1, Frame DEF Gain
<1>2. ASSUME NEW p \in Person, NEW q \in Person, NEW k \in Kind, Reassign(p, q, k)
      PROVE  IInv'
  BY <1>2, Frame DEF Reassign
<1>3. CASE UNCHANGED vars
  BY <1>3, Frame DEF vars
<1>4. QED BY <1>1, <1>2, <1>3, TakeStep, ResolveStep, SelectStep DEF Next

LEMMA InvAlways == Spec => []IInv
  BY InvInit, InvNext, PTL DEF Spec

\* An answer nobody was asked to choose is the asker, and an index of
\* everybody leaves the asker out of no choice: subject_resolution.py:349-466.
THEOREM ResolvesTheAsker == Spec => []TheRightPerson
<1>1. IInv => TheRightPerson
  BY DEF IInv
<1>2. QED BY <1>1, InvAlways, PTL

\* No key of the person goes missing between the index and the request,
\* whoever chose: subject_resolution.py:295-313, erasure.py:516-529.
THEOREM NoKeyGoesMissing == Spec => []FragmentsShow
<1>1. IInv => FragmentsShow
  <2> SUFFICES ASSUME LinkedIsHeld, held # None, NEW covered \in SUBSET Value,
                      Admitted(held, covered), Uncovered(held, covered) = {},
                      NEW k \in Kind, NEW v \in Values(held.records[held.subject], k)
               PROVE  v \in covered
    BY DEF IInv, FragmentsShow
  <2>1. held.linked = Linked(held.records[held.subject])
    BY DEF LinkedIsHeld, Admitted
  <2>2. [kind |-> k, value |-> v] \in held.linked
    BY <2>1 DEF Linked
  <2>3. QED BY <2>2 DEF Uncovered
<1>2. QED BY <1>1, InvAlways, PTL

----------------------------------------------------------------------------
(* Postgres: a run in the order of its plan.                               *)

Status == {"applied", "partially_applied", "failed", "not_attempted", "unknown", "rolled_back"}

Answer == {"yes", "no", "unread"}

OpRecord == [op : DOMAIN Plan, status : Status, verified : Answer, residual : BOOLEAN]

Reported == at \in {"done", "undoing"}

RunType ==
  /\ view \in [Table -> Column \cup {Nothing}]
  /\ grants \in [Column -> SUBSET Grantee]
  /\ before \in [Column -> SUBSET Grantee]
  /\ prestate \in [Column -> (SUBSET Grantee) \cup {Nothing}]
  /\ at \in {"idle", "running", "undoing", "done", "crashed"}
  /\ records \in Seq(OpRecord)
  /\ step \in Nat \ {0}
  /\ undone \in {"rolled_back", "partially_applied", "unknown"}
  /\ Reported => receipt \in Seq(OpRecord)

\* The k-th record is of the k-th operation; a run has rolled nothing back.
InTurn ==
  /\ \A k \in DOMAIN records : records[k].op = k
  /\ Reported => \A k \in DOMAIN receipt : receipt[k].op = k
  /\ at = "done" => receipt = records
  /\ at \in {"idle", "crashed"} => records = <<>>
  /\ at \notin {"running", "undoing"} => step = 1
  /\ at = "running" => \A k \in DOMAIN records : records[k].status # "rolled_back"

\* The engine has given the grantee access again, or passed over the GRANT.
Returned(c, g) == g \in grants[c] \/ [column |-> c, grantee |-> g] \in unmoved

\* What is known of the operation a rollback has in hand.
UndoInHand ==
  at = "undoing" /\ step > 1 =>
    LET c == column(ToUndo.op) IN
    /\ Undoing /\ ~Kept(ToUndo)
    /\ left \subseteq prestate[c]
    /\ undone = "rolled_back" /\ c \notin touched =>
         \A g \in prestate[c] \ left : Returned(c, g)

\* Where nobody else interfered, nobody has access but by the snapshot or by
\* the run itself.
NobodyElse ==
  /\ \A c \in Column : prestate[c] # Nothing => prestate[c] \subseteq before[c]
  /\ \A i \in DOMAIN Plan :
       column(i) \notin touched => grants[column(i)] \subseteq before[column(i)] \cup AudienceOf(i)

\* What one record claims of the engine.
Stands(r) ==
  r.verified = "yes" /\ column(r.op) \notin touched /\ table(r.op) \notin dropped =>
    view[table(r.op)] # Nothing /\ Public \notin grants[column(r.op)]

GivenBack(r) ==
  r.status = "rolled_back" /\ column(r.op) \notin touched =>
    \A g \in before[column(r.op)] :
      g \in prestate[column(r.op)] => Returned(column(r.op), g)

\* The records a rollback has not come to yet claim it still.
Awaiting(j) == at = "undoing" /\ j > Len(records) /\ (j = Len(records) + 1 => step = 1)

ClaimsHold ==
  /\ \A k \in DOMAIN records : Stands(records[k]) /\ GivenBack(records[k])
  /\ Reported => \A j \in DOMAIN receipt : Awaiting(j) => Stands(receipt[j]) /\ GivenBack(receipt[j])

PgInv == RunType /\ InTurn /\ UndoInHand /\ NobodyElse /\ ClaimsHold

LEMMA PlanType ==
  /\ DOMAIN Plan = 1 .. Len(Plan) /\ Len(Plan) \in Nat
  /\ \A i \in DOMAIN Plan :
       /\ column(i) \in Column /\ table(i) \in Table
       /\ Plan[i].audience \in Seq(Grantee)
       /\ AudienceOf(i) \subseteq Grantee
  /\ \A i, j \in DOMAIN Plan : column(i) = column(j) => i = j
<1>1. DOMAIN Plan = 1 .. Len(Plan) /\ Len(Plan) \in Nat
  BY PostgresAssumption
<1>2. ASSUME NEW i \in DOMAIN Plan
      PROVE  /\ column(i) \in Column /\ table(i) \in Table
             /\ Plan[i].audience \in Seq(Grantee)
  <2> DEFINE Operation == [column : Column, audience : Seq(Grantee), reversible : BOOLEAN]
  <2>1. Plan \in Seq(Operation)
    BY PostgresAssumption
  <2> HIDE DEF Operation
  <2>2. Plan[i] \in Operation
    BY <2>1
  <2>3. Plan[i].column \in Column /\ Plan[i].audience \in Seq(Grantee)
    BY <2>2 DEF Operation
  <2>4. TableOf[Plan[i].column] \in Table
    BY <2>3, PostgresAssumption
  <2>5. QED BY <2>3, <2>4 DEF column, table
<1>3. ASSUME NEW i \in DOMAIN Plan
      PROVE  AudienceOf(i) \subseteq Grantee
  BY <1>2 DEF AudienceOf
<1>4. \A i, j \in DOMAIN Plan : column(i) = column(j) => i = j
  BY PostgresAssumption DEF column
<1>5. QED BY <1>1, <1>2, <1>3, <1>4

LEMMA RecType ==
  ASSUME NEW i \in DOMAIN Plan, NEW s \in Status, NEW v \in Answer, NEW b \in BOOLEAN
  PROVE  /\ Rec(i, s, v, b) \in OpRecord
         /\ Rec(i, s, v, b).op = i /\ Rec(i, s, v, b).status = s
         /\ Rec(i, s, v, b).verified = v
BY DEF Rec, OpRecord

\* A record of an operation that was not verified.
LEMMA UnreadType ==
  ASSUME NEW i \in DOMAIN Plan, NEW s \in Status, NEW b \in BOOLEAN
  PROVE  /\ Rec(i, s, "unread", b) \in OpRecord
         /\ Rec(i, s, "unread", b).op = i /\ Rec(i, s, "unread", b).status = s
         /\ Rec(i, s, "unread", b).verified = "unread"
<1>1. PICK v \in Answer : v = "unread"
  BY DEF Answer
<1>2. QED BY <1>1, RecType

LEMMA NotAttemptedType ==
  ASSUME NEW i \in DOMAIN Plan
  PROVE  /\ Rec(i, "not_attempted", "unread", FALSE) \in OpRecord
         /\ Rec(i, "not_attempted", "unread", FALSE).op = i
         /\ Rec(i, "not_attempted", "unread", FALSE).status = "not_attempted"
         /\ Rec(i, "not_attempted", "unread", FALSE).verified = "unread"
<1>1. PICK s \in Status : s = "not_attempted"
  BY DEF Status
<1>2. PICK b \in BOOLEAN : b = FALSE
  OBVIOUS
<1>3. QED BY <1>1, <1>2, UnreadType

LEMMA PgInvInit == PgInit => PgInv
<1> SUFFICES ASSUME PgInit PROVE PgInv
  OBVIOUS
<1>1. RunType
  <2>1. records \in Seq(OpRecord) /\ at = "idle" /\ step = 1 /\ undone = "rolled_back"
    BY DEF PgInit
  <2>2. prestate \in [Column -> (SUBSET Grantee) \cup {Nothing}]
    BY DEF PgInit
  <2>3. view \in [Table -> Column \cup {Nothing}] /\ grants \in [Column -> SUBSET Grantee]
        /\ before = grants
    BY DEF PgInit
  <2>4. QED BY <2>1, <2>2, <2>3 DEF RunType, Reported
<1>2. InTurn /\ UndoInHand
  BY DEF PgInit, InTurn, UndoInHand, Returned, Reported
<1>3. NobodyElse
  BY DEF PgInit, NobodyElse
<1>4. ClaimsHold
  BY DEF PgInit, ClaimsHold, Reported
<1>5. QED BY <1>1, <1>2, <1>3, <1>4 DEF PgInv

\* One more record, of the operation whose turn it is.
LEMMA AppendRecord ==
  ASSUME records \in Seq(OpRecord), \A k \in DOMAIN records : records[k].op = k,
         NEW r \in OpRecord, r.op = Len(records) + 1, records' = Append(records, r)
  PROVE  /\ records' \in Seq(OpRecord)
         /\ Len(records') = Len(records) + 1
         /\ \A k \in DOMAIN records' :
              /\ records'[k].op = k
              /\ records'[k] = r \/ (k \in DOMAIN records /\ records'[k] = records[k])
<1>1. records' \in Seq(OpRecord) /\ Len(records') = Len(records) + 1
  OBVIOUS
<1>2. ASSUME NEW k \in DOMAIN records'
      PROVE  /\ records'[k].op = k
             /\ records'[k] = r \/ (k \in DOMAIN records /\ records'[k] = records[k])
  <2>1. k \in 1 .. Len(records) + 1
    BY <1>1
  <2>2. CASE k = Len(records) + 1
    BY <2>2
  <2>3. CASE k \in 1 .. Len(records)
    BY <2>3
  <2>4. QED BY <2>1, <2>2, <2>3
<1>3. QED BY <1>1, <1>2

----------------------------------------------------------------------------
(* The steps before and between: nothing happens to the engine.            *)

\* A receipt that says, for each operation of the plan, what its record was,
\* or that it was not attempted, or what was observed.
LEMMA WholePlan ==
  ASSUME NEW f, \A i \in DOMAIN Plan : f[i] \in OpRecord /\ f[i].op = i,
         f = [i \in DOMAIN Plan |-> f[i]]
  PROVE  f \in Seq(OpRecord) /\ DOMAIN f = DOMAIN Plan /\ \A k \in DOMAIN f : f[k].op = k
<1>1. f \in [1 .. Len(Plan) -> OpRecord]
  BY PlanType
<1>2. QED BY <1>1, PlanType

LEMMA RefuseStep == PgInv /\ Refuse => PgInv'
<1> SUFFICES ASSUME PgInv, Refuse PROVE PgInv'
  OBVIOUS
<1> USE DEF PgInv
<1> DEFINE r(i) == Rec(i, "not_attempted", "unread", FALSE)
<1>0. at = "idle" /\ at' = "done" /\ records' = [i \in DOMAIN Plan |-> r(i)] /\ receipt' = records'
      /\ UNCHANGED <<view, grants, prestate, step, left, undone, before, touched, dropped, unmoved>>
  BY DEF Refuse
<1>1. \A i \in DOMAIN Plan : r(i) \in OpRecord /\ r(i).op = i /\ r(i).verified = "unread"
                            /\ r(i).status = "not_attempted"
  BY NotAttemptedType
<1> HIDE DEF r
<1>2. /\ records' \in Seq(OpRecord) /\ DOMAIN records' = DOMAIN Plan
      /\ \A k \in DOMAIN records' : records'[k].op = k /\ records'[k].verified = "unread"
                                  /\ records'[k].status = "not_attempted"
  BY <1>0, <1>1, WholePlan
<1>3. RunType'
  BY <1>0, <1>2 DEF RunType, Reported
<1>4. InTurn' /\ UndoInHand'
  BY <1>0, <1>2 DEF InTurn, UndoInHand, Returned, Reported
<1>5. NobodyElse'
  BY <1>0 DEF NobodyElse, column
<1>6. ClaimsHold'
  BY <1>0, <1>2 DEF ClaimsHold, Stands, GivenBack, Returned, Awaiting
<1>7. QED BY <1>3, <1>4, <1>5, <1>6

LEMMA BeginStep == ASSUME PgInv, NEW blind \in SUBSET Column, Begin(blind) PROVE PgInv'
<1> USE DEF PgInv
<1>0. /\ at = "idle" /\ at' = "running" /\ before' = grants
      /\ prestate' = [c \in Column |-> IF c \in blind THEN {} ELSE grants[c]]
      /\ UNCHANGED <<view, grants, records, step, left, undone, receipt, unmoved>>
  BY DEF Begin
<1>1. records' = <<>>
  BY <1>0 DEF InTurn
<1>2. RunType'
  BY <1>0 DEF RunType, Reported
<1>3. InTurn' /\ UndoInHand'
  BY <1>0, <1>1 DEF InTurn, UndoInHand, Returned, Reported
<1>4. NobodyElse'
  BY <1>0 DEF NobodyElse, column
<1>5. ClaimsHold'
  BY <1>0, <1>1 DEF ClaimsHold, Reported
<1>6. QED BY <1>2, <1>3, <1>4, <1>5

LEMMA FinishStep == PgInv /\ Finish => PgInv'
<1> SUFFICES ASSUME PgInv, Finish PROVE PgInv'
  OBVIOUS
<1> USE DEF PgInv
<1> DEFINE r(i) == IF i <= Len(records) THEN records[i]
                   ELSE Rec(i, "not_attempted", "unread", FALSE)
<1>0. /\ at = "running" /\ step = 1 /\ at' = "done"
      /\ records' = [i \in DOMAIN Plan |-> r(i)] /\ receipt' = records'
      /\ UNCHANGED <<view, grants, prestate, step, left, undone, before, touched, dropped, unmoved>>
  BY DEF Finish
<1>1. ASSUME NEW i \in DOMAIN Plan
      PROVE  r(i) \in OpRecord /\ r(i).op = i /\ Stands(r(i)) /\ GivenBack(r(i))
  <2>1. CASE i <= Len(records)
    <3>1. i \in DOMAIN records
      BY <2>1, PlanType DEF RunType
    <3>2. QED BY <2>1, <3>1 DEF RunType, InTurn, ClaimsHold
  <2>2. CASE ~(i <= Len(records))
    <3>1. /\ Rec(i, "not_attempted", "unread", FALSE) \in OpRecord
          /\ Rec(i, "not_attempted", "unread", FALSE).op = i
          /\ Rec(i, "not_attempted", "unread", FALSE).status = "not_attempted"
          /\ Rec(i, "not_attempted", "unread", FALSE).verified = "unread"
      BY NotAttemptedType
    <3>2. QED BY <2>2, <3>1 DEF Stands, GivenBack, Returned
  <2>3. QED BY <2>1, <2>2
<1> HIDE DEF r
<1>2. /\ records' \in Seq(OpRecord) /\ DOMAIN records' = DOMAIN Plan
      /\ \A k \in DOMAIN records' : records'[k].op = k /\ records'[k] = r(k)
  BY <1>0, <1>1, WholePlan
<1>3. RunType'
  BY <1>0, <1>2 DEF RunType, Reported
<1>4. InTurn' /\ UndoInHand'
  BY <1>0, <1>2 DEF InTurn, UndoInHand, Returned, Reported
<1>5. NobodyElse'
  BY <1>0 DEF NobodyElse, column
<1>6. ClaimsHold'
  <2>1. \A k \in DOMAIN records' : Stands(records[k])' /\ GivenBack(records[k])'
    BY <1>0, <1>1, <1>2 DEF Stands, GivenBack, Returned, column, table
  <2>2. QED BY <1>0, <2>1 DEF ClaimsHold, Awaiting
<1>7. QED BY <1>3, <1>4, <1>5, <1>6

LEMMA RollbackStep == PgInv /\ Rollback => PgInv'
<1> SUFFICES ASSUME PgInv, Rollback PROVE PgInv'
  OBVIOUS
<1> USE DEF PgInv
<1>0. /\ at = "done" /\ at' = "undoing" /\ records' = <<>>
      /\ UNCHANGED <<view, grants, prestate, step, left, undone, receipt, before, touched, dropped, unmoved>>
  BY DEF Rollback
<1>1. step = 1 /\ receipt = records /\ records \in Seq(OpRecord)
  BY <1>0 DEF InTurn, RunType
<1>2. RunType'
  BY <1>0, <1>1 DEF RunType, Reported
<1>3. InTurn' /\ UndoInHand'
  BY <1>0, <1>1 DEF InTurn, UndoInHand, Returned, Reported
<1>4. NobodyElse'
  BY <1>0 DEF NobodyElse, column
<1>5. ClaimsHold'
  <2>1. \A k \in DOMAIN receipt' : Stands(receipt[k])' /\ GivenBack(receipt[k])'
    BY <1>0, <1>1 DEF ClaimsHold, Stands, GivenBack, Returned, column, table
  <2>2. QED BY <1>0, <2>1 DEF ClaimsHold
<1>6. QED BY <1>2, <1>3, <1>4, <1>5

LEMMA FinishUndoStep == PgInv /\ FinishUndo => PgInv'
<1> SUFFICES ASSUME PgInv, FinishUndo PROVE PgInv'
  OBVIOUS
<1> USE DEF PgInv
<1>0. /\ at = "undoing" /\ Len(records) = Len(receipt) /\ at' = "done" /\ receipt' = records
      /\ UNCHANGED <<view, grants, prestate, records, step, left, undone, before, touched, dropped, unmoved>>
  BY DEF FinishUndo
<1>1. step = 1
  <2>1. ~(Len(records) < Len(receipt))
    BY <1>0 DEF RunType, Reported
  <2>2. QED BY <1>0, <2>1 DEF UndoInHand, Returned, Undoing, RunType
<1>2. RunType'
  BY <1>0 DEF RunType, Reported
<1>3. InTurn' /\ UndoInHand'
  BY <1>0, <1>1 DEF InTurn, UndoInHand, Returned, Reported
<1>4. NobodyElse'
  BY <1>0 DEF NobodyElse, column
<1>5. ClaimsHold'
  <2>1. \A k \in DOMAIN records' : Stands(records[k])' /\ GivenBack(records[k])'
    BY <1>0 DEF ClaimsHold, Stands, GivenBack, Returned, column, table
  <2>2. QED BY <1>0, <2>1 DEF ClaimsHold, Awaiting
<1>6. QED BY <1>2, <1>3, <1>4, <1>5

LEMMA CrashStep == PgInv /\ Crash => PgInv'
<1> SUFFICES ASSUME PgInv, Crash PROVE PgInv'
  OBVIOUS
<1> USE DEF PgInv
<1>0. /\ at' = "crashed" /\ records' = <<>> /\ step' = 1 /\ undone' = "rolled_back"
      /\ UNCHANGED <<view, grants, prestate, before, touched, dropped, unmoved>>
  BY DEF Crash
<1>1. RunType'
  BY <1>0 DEF RunType, Reported
<1>2. InTurn' /\ UndoInHand'
  BY <1>0 DEF InTurn, UndoInHand, Returned, Reported
<1>3. NobodyElse'
  BY <1>0 DEF NobodyElse, column
<1>4. ClaimsHold'
  BY <1>0 DEF ClaimsHold, Reported
<1>5. QED BY <1>1, <1>2, <1>3, <1>4

LEMMA ReconcileStep == PgInv /\ Reconcile => PgInv'
<1> SUFFICES ASSUME PgInv, Reconcile PROVE PgInv'
  OBVIOUS
<1> USE DEF PgInv
<1>0. /\ at = "crashed" /\ at' = "done" /\ receipt' = records'
      /\ prestate' = [c \in Column |-> Nothing]
      /\ UNCHANGED <<view, grants, step, left, undone, before, touched, unmoved>>
  BY DEF Reconcile
<1> DEFINE answer(i, unread) == IF i \in unread THEN "unread" ELSE IF Governed(i) THEN "yes" ELSE "no"
<1>1. PICK unread \in SUBSET (DOMAIN Plan) :
        records' = [i \in DOMAIN Plan |-> Observed(i, answer(i, unread))]
  BY DEF Reconcile
<1> DEFINE r(i) == Observed(i, answer(i, unread))
<1>2. ASSUME NEW i \in DOMAIN Plan
      PROVE  /\ r(i) \in OpRecord /\ r(i).op = i /\ r(i).status # "rolled_back"
             /\ r(i).verified = "yes" => Governed(i)
  <2>1. answer(i, unread) \in Answer /\ (answer(i, unread) = "yes" => Governed(i))
    BY DEF Answer
  <2> HIDE DEF answer
  <2>2. QED BY <2>1 DEF Observed, Rec, OpRecord, Status, Answer
<1> HIDE DEF r
<1>3. records' = [i \in DOMAIN Plan |-> r(i)]
  BY <1>1 DEF r
<1>4. /\ records' \in Seq(OpRecord) /\ DOMAIN records' = DOMAIN Plan
      /\ \A k \in DOMAIN records' : records'[k].op = k /\ records'[k] = r(k)
  <2>1. PICK f : f = [i \in DOMAIN Plan |-> r(i)]
    OBVIOUS
  <2>2. /\ \A i \in DOMAIN Plan : f[i] \in OpRecord /\ f[i].op = i /\ f[i] = r(i)
        /\ f = [i \in DOMAIN Plan |-> f[i]]
    BY <1>2, <2>1
  <2>3. f \in Seq(OpRecord) /\ DOMAIN f = DOMAIN Plan /\ \A k \in DOMAIN f : f[k].op = k
    BY <2>2, WholePlan
  <2>4. QED BY <1>3, <2>1, <2>2, <2>3
<1>5. RunType'
  BY <1>0, <1>4 DEF RunType, Reported
<1>6. InTurn' /\ UndoInHand'
  BY <1>0, <1>4 DEF InTurn, UndoInHand, Returned, Reported
<1>7. NobodyElse'
  BY <1>0 DEF NobodyElse, column
<1>8. ClaimsHold'
  <2>1. \A k \in DOMAIN records' : Stands(records[k])' /\ GivenBack(records[k])'
    BY <1>0, <1>2, <1>4 DEF Stands, GivenBack, Returned, column, table, Governed
  <2>2. QED BY <1>0, <2>1 DEF ClaimsHold, Awaiting
<1>9. QED BY <1>5, <1>6, <1>7, <1>8

LEMMA OutsideStep ==
  ASSUME PgInv, NEW c \in Column, NEW g \in Grantee, Outside(c, g) PROVE PgInv'
<1> USE DEF PgInv
<1>0. /\ at # "idle" /\ touched' = touched \cup {c}
      /\ grants' = [grants EXCEPT ![c] = IF g \in @ THEN @ \ {g} ELSE @ \cup {g}]
      /\ UNCHANGED <<view, at, prestate, records, step, left, undone, receipt, before, dropped, unmoved>>
  BY DEF Outside
<1>1. grants' \in [Column -> SUBSET Grantee] /\ \A d \in Column \ {c} : grants'[d] = grants[d]
  BY <1>0 DEF RunType
<1>2. RunType'
  BY <1>0, <1>1 DEF RunType, Reported
<1>3. InTurn'
  BY <1>0 DEF InTurn, Reported
<1>4. ASSUME NEW r \in OpRecord, Stands(r), GivenBack(r) PROVE Stands(r)' /\ GivenBack(r)'
  <2>1. column(r.op) \in Column
    BY PlanType DEF OpRecord
  <2>2. QED BY <1>0, <1>1, <1>4, <2>1 DEF Stands, GivenBack, Returned, column, table
<1>5. UndoInHand'
  <2>1. SUFFICES ASSUME at = "undoing", step > 1 PROVE UndoInHand'
    BY <1>0 DEF UndoInHand, Returned
  <2>2. ToUndo \in OpRecord
    BY <2>1 DEF UndoInHand, Returned, Undoing, ToUndo, RunType, Reported
  <2>3. column(ToUndo.op) \in Column
    BY <2>2, PlanType DEF OpRecord
  <2>4. QED BY <1>0, <1>1, <2>1, <2>3 DEF UndoInHand, Returned, Undoing, ToUndo, Kept, column
<1>6. NobodyElse'
  BY <1>0, <1>1, PlanType DEF NobodyElse, column, AudienceOf
<1>7. ClaimsHold'
  BY <1>0, <1>4 DEF ClaimsHold, RunType, Reported, Awaiting
<1>8. QED BY <1>2, <1>3, <1>5, <1>6, <1>7

----------------------------------------------------------------------------
(* The steps of a run.                                                     *)

\* What a statement can do spares the columns whose turn it is not.
LEMMA StatementSpares ==
  ASSUME PgInv, Issuing, Lands \/ NoEffect
  PROVE  /\ view' \in [Table -> Column \cup {Nothing}]
         /\ grants' \in [Column -> SUBSET Grantee]
         /\ \A t \in Table : view[t] # Nothing => view'[t] # Nothing
         /\ \A d \in Column \ {column(InHand)} : grants'[d] = grants[d]
         /\ grants'[column(InHand)] \subseteq grants[column(InHand)] \cup AudienceOf(InHand)
<1> DEFINE i == InHand
           c == column(i)
<1> USE DEF PgInv
<1>0. i \in DOMAIN Plan /\ step <= Statements(i) /\ step \in Nat \ {0}
  BY DEF Issuing, RunType
<1>1. c \in Column /\ table(i) \in Table /\ Plan[i].audience \in Seq(Grantee)
  BY <1>0, PlanType
<1>2. view \in [Table -> Column \cup {Nothing}] /\ grants \in [Column -> SUBSET Grantee]
  BY DEF RunType
<1>3. c # Nothing
  BY <1>1, PostgresAssumption
<1> HIDE DEF i
<1>4. CASE NoEffect
  BY <1>2, <1>4 DEF NoEffect, i
<1>5. CASE Lands
  <2>1. /\ view' = IF step = 1 THEN [view EXCEPT ![table(i)] = c] ELSE view
        /\ grants' = CASE step = 1 -> grants
                       [] step = 2 -> [grants EXCEPT ![c] = @ \ {Public}]
                       [] step > 2 -> [grants EXCEPT ![c] = @ \cup {Plan[i].audience[step - 2]}]
    BY <1>5 DEF Lands, i
  <2> HIDE DEF c
  <2>2. /\ view' \in [Table -> Column \cup {Nothing}]
        /\ \A t \in Table : view[t] # Nothing => view'[t] # Nothing
    BY <1>1, <1>2, <1>3, <2>1
  <2>3. CASE step = 1
    BY <1>2, <2>1, <2>2, <2>3 DEF c, i
  <2>4. CASE step = 2
    <3>1. grants' = [grants EXCEPT ![c] = @ \ {Public}]
      BY <2>1, <2>4
    <3>2. QED BY <1>1, <1>2, <2>2, <3>1 DEF c, i
  <2>5. CASE step > 2
    <3>1. grants' = [grants EXCEPT ![c] = @ \cup {Plan[i].audience[step - 2]}]
      BY <1>0, <2>1, <2>5
    <3>2. step - 2 \in DOMAIN Plan[i].audience
      BY <1>0, <1>1, <2>5 DEF Statements
    <3>3. Plan[i].audience[step - 2] \in AudienceOf(i) /\ Plan[i].audience[step - 2] \in Grantee
      BY <1>1, <3>2 DEF AudienceOf
    <3>4. QED BY <1>1, <1>2, <2>2, <3>1, <3>3 DEF c, i
  <2>6. QED BY <1>0, <2>3, <2>4, <2>5
<1>6. QED BY <1>4, <1>5

\* So what the records claim goes on to hold, and nobody else gets access.
LEMMA StatementKeepsClaims ==
  ASSUME PgInv, Issuing, Lands \/ NoEffect,
         UNCHANGED <<prestate, before, touched, dropped, unmoved>>
  PROVE  /\ NobodyElse'
         /\ \A r \in OpRecord :
              /\ r.op < InHand /\ r.status # "rolled_back" /\ Stands(r)
              => Stands(r)' /\ GivenBack(r)'
<1> USE DEF PgInv
<1>1. InHand \in DOMAIN Plan /\ at = "running"
  BY DEF Issuing
<1>2. NobodyElse'
  <2>1. \A c \in Column : prestate'[c] # Nothing => prestate'[c] \subseteq before'[c]
    BY DEF NobodyElse
  <2>2. ASSUME NEW i \in DOMAIN Plan, column(i) \notin touched
        PROVE  grants'[column(i)] \subseteq before[column(i)] \cup AudienceOf(i)
    <3>1. grants[column(i)] \subseteq before[column(i)] \cup AudienceOf(i)
      BY <2>2 DEF NobodyElse
    <3>2. CASE column(i) = column(InHand)
      <4>1. i = InHand
        BY <1>1, <3>2, PlanType
      <4>2. QED BY <3>1, <4>1, StatementSpares
    <3>3. CASE column(i) # column(InHand)
      BY <3>1, <3>3, StatementSpares, PlanType
    <3>4. QED BY <3>2, <3>3
  <2>3. QED BY <2>1, <2>2 DEF NobodyElse, column, AudienceOf
<1>3. ASSUME NEW r \in OpRecord, r.op < InHand, r.status # "rolled_back", Stands(r)
      PROVE  Stands(r)' /\ GivenBack(r)'
  <2>1. r.op \in DOMAIN Plan /\ r.op # InHand
    BY <1>1, <1>3, PlanType DEF OpRecord
  <2>2. column(r.op) # column(InHand)
    BY <1>1, <2>1, PlanType
  <2>3. column(r.op) \in Column /\ table(r.op) \in Table
    BY <2>1, PlanType
  <2>4. r.verified = "yes" /\ column(r.op) \notin touched /\ table(r.op) \notin dropped
          => view'[table(r.op)] # Nothing /\ Public \notin grants'[column(r.op)]
    BY <1>3, <2>2, <2>3, StatementSpares DEF Stands
  <2>5. QED BY <1>3, <2>4 DEF Stands, GivenBack, Returned, column, table
<1>4. QED BY <1>2, <1>3

\* A step of the run that appends one record.
LEMMA RunAppends ==
  ASSUME PgInv, at = "running", InHand \in DOMAIN Plan,
         NEW r \in OpRecord, r.op = InHand, r.status # "rolled_back",
         Append1(r), NobodyElse', Stands(r)',
         \A q \in OpRecord :
           /\ q.op < InHand /\ q.status # "rolled_back" /\ Stands(q)
           => Stands(q)' /\ GivenBack(q)',
         view' \in [Table -> Column \cup {Nothing}],
         grants' \in [Column -> SUBSET Grantee],
         UNCHANGED <<at, prestate, left, undone, receipt, before, touched, dropped, unmoved>>
  PROVE  PgInv'
<1> USE DEF PgInv
<1>1. records \in Seq(OpRecord) /\ \A k \in DOMAIN records : records[k].op = k
  BY DEF RunType, InTurn
<1>2. records' = Append(records, r) /\ step' = 1
  BY DEF Append1
<1>3. /\ records' \in Seq(OpRecord)
      /\ Len(records') = Len(records) + 1
      /\ \A k \in DOMAIN records' :
           /\ records'[k].op = k
           /\ records'[k] = r \/ (k \in DOMAIN records /\ records'[k] = records[k])
  BY <1>1, <1>2, AppendRecord DEF InHand
<1>4. RunType'
  BY <1>2, <1>3 DEF RunType, Reported
<1>5. InTurn'
  BY <1>2, <1>3 DEF InTurn, Reported
<1>6. UndoInHand'
  BY <1>2 DEF UndoInHand, Returned
<1>7. ClaimsHold'
  <2>1. GivenBack(r)'
    BY DEF GivenBack, Returned
  <2>2. ASSUME NEW k \in DOMAIN records'
        PROVE  Stands(records[k])' /\ GivenBack(records[k])'
    <3>1. CASE records'[k] = r
      BY <2>1, <3>1 DEF Stands, GivenBack, Returned
    <3>2. CASE k \in DOMAIN records /\ records'[k] = records[k]
      <4>1. PICK q \in OpRecord : q = records[k]
        BY <1>1, <3>2
      <4>2. q.op < InHand /\ q.status # "rolled_back" /\ Stands(q)
        BY <1>1, <3>2, <4>1 DEF InHand, InTurn, ClaimsHold
      <4>3. Stands(q)' /\ GivenBack(q)'
        BY <4>2
      <4>4. QED BY <3>2, <4>1, <4>3 DEF Stands, GivenBack, Returned
    <3>3. QED BY <1>3, <3>1, <3>2
  <2>3. QED BY <2>2 DEF ClaimsHold, Reported
<1>8. QED BY <1>4, <1>5, <1>6, <1>7

LEMMA AcceptedStep == PgInv /\ StatementAccepted => PgInv'
<1> SUFFICES ASSUME PgInv, StatementAccepted PROVE PgInv'
  OBVIOUS
<1> USE DEF PgInv
<1>0. /\ Issuing /\ (Lands \/ NoEffect) /\ step' = step + 1
      /\ UNCHANGED <<at, prestate, records, left, undone, receipt, before, touched, dropped, unmoved>>
  BY DEF StatementAccepted
<1>1. at = "running"
  BY <1>0 DEF Issuing
<1>2. RunType'
  BY <1>0, <1>1, StatementSpares DEF RunType, Reported
<1>3. InTurn' /\ UndoInHand'
  BY <1>0, <1>1 DEF InTurn, UndoInHand, Returned, Reported
<1>4. /\ NobodyElse'
      /\ \A r \in OpRecord : r.op < InHand /\ r.status # "rolled_back" /\ Stands(r)
                             => Stands(r)' /\ GivenBack(r)'
  BY <1>0, StatementKeepsClaims
<1>5. ClaimsHold'
  <2>1. ASSUME NEW k \in DOMAIN records
        PROVE  Stands(records[k])' /\ GivenBack(records[k])'
    <3>1. PICK q \in OpRecord : q = records[k]
      BY <2>1 DEF RunType
    <3>2. q.op < InHand /\ q.status # "rolled_back" /\ Stands(q)
      BY <1>1, <3>1 DEF InHand, InTurn, ClaimsHold, RunType
    <3>3. Stands(q)' /\ GivenBack(q)'
      BY <1>4, <3>2
    <3>4. QED BY <1>0, <3>1, <3>3 DEF Stands, GivenBack, Returned
  <2>2. QED BY <1>0, <1>1, <2>1 DEF ClaimsHold, Reported
<1>6. QED BY <1>2, <1>3, <1>4, <1>5

LEMMA RejectedStep == PgInv /\ (StatementRejected \/ StatementLost) => PgInv'
<1> SUFFICES ASSUME PgInv, StatementRejected \/ StatementLost PROVE PgInv'
  OBVIOUS
<1> USE DEF PgInv
<1>1. /\ Issuing /\ (Lands \/ NoEffect)
      /\ UNCHANGED <<at, prestate, left, undone, receipt, before, touched, dropped, unmoved>>
  BY DEF StatementRejected, StatementLost
<1>2. PICK s \in {"failed", "partially_applied", "unknown"} :
        Append1(Rec(InHand, s, "unread", Residual))
  BY DEF StatementRejected, StatementLost
<1>3. InHand \in DOMAIN Plan /\ at = "running"
  BY <1>1 DEF Issuing
<1>4. PICK r \in OpRecord : r = Rec(InHand, s, "unread", Residual)
  <2>1. s \in Status /\ Residual \in BOOLEAN
    BY DEF Status, Residual
  <2>2. QED BY <1>3, <2>1, UnreadType
<1>5. r.op = InHand /\ r.status # "rolled_back" /\ r.verified = "unread" /\ Append1(r)
  BY <1>2, <1>4 DEF Rec
<1>6. Stands(r)'
  BY <1>5 DEF Stands
<1>7. QED BY <1>1, <1>3, <1>5, <1>6, StatementSpares, StatementKeepsClaims, RunAppends

LEMMA VerifyStep == PgInv /\ Verify => PgInv'
<1> SUFFICES ASSUME PgInv, Verify PROVE PgInv'
  OBVIOUS
<1> USE DEF PgInv
<1>1. /\ at = "running" /\ InHand \in DOMAIN Plan
      /\ UNCHANGED <<view, grants, at, prestate, left, undone, receipt, before, touched, dropped, unmoved>>
  BY DEF Verify
<1>2. PICK v \in Answers(InHand) : Append1(Rec(InHand, "applied", v, FALSE))
  BY DEF Verify
<1>3. v \in Answer /\ (v = "yes" => Governed(InHand))
  BY DEF Answers, Answer
<1>4. PICK r \in OpRecord : r = Rec(InHand, "applied", v, FALSE)
  <2>1. PICK s \in Status : s = "applied"
    BY DEF Status
  <2>2. PICK b \in BOOLEAN : b = FALSE
    OBVIOUS
  <2>3. QED BY <1>1, <1>3, <2>1, <2>2, RecType
<1>5. r.op = InHand /\ r.status # "rolled_back" /\ r.verified = v /\ Append1(r)
  BY <1>2, <1>4 DEF Rec
<1>6. Stands(r)'
  BY <1>1, <1>3, <1>5 DEF Stands, Governed, column, table
<1>7. NobodyElse'
  BY <1>1 DEF NobodyElse, column
<1>8. ASSUME NEW q \in OpRecord, q.status # "rolled_back", Stands(q)
      PROVE  Stands(q)' /\ GivenBack(q)'
  BY <1>1, <1>8 DEF Stands, GivenBack, Returned, column, table
<1>9. view' \in [Table -> Column \cup {Nothing}] /\ grants' \in [Column -> SUBSET Grantee]
  BY <1>1 DEF RunType
<1>10. QED BY <1>1, <1>5, <1>6, <1>7, <1>8, <1>9, RunAppends

----------------------------------------------------------------------------
(* The steps of a rollback.                                                *)

LEMMA KeepStep == PgInv /\ KeepRecord => PgInv'
<1> SUFFICES ASSUME PgInv, KeepRecord PROVE PgInv'
  OBVIOUS
<1> USE DEF PgInv
<1> DEFINE n == Len(records) + 1
<1>0. /\ Undoing /\ Kept(ToUndo) /\ records' = Append(records, ToUndo)
      /\ UNCHANGED <<view, grants, at, prestate, step, left, undone, receipt, before, touched, dropped, unmoved>>
  BY DEF KeepRecord
<1>1. /\ at = "undoing" /\ n \in DOMAIN receipt /\ ToUndo = receipt[n] /\ step = 1
      /\ receipt \in Seq(OpRecord)
  BY <1>0 DEF Undoing, RunType, Reported, ToUndo, UndoInHand, Returned
<1>2. PICK r \in OpRecord : r = receipt[n]
  BY <1>1
<1>3. r.op = n /\ Stands(r) /\ GivenBack(r)
  BY <1>1, <1>2 DEF InTurn, Reported, ClaimsHold, Awaiting, RunType
<1>4. records \in Seq(OpRecord) /\ \A k \in DOMAIN records : records[k].op = k
  BY DEF RunType, InTurn
<1>5. /\ records' \in Seq(OpRecord)
      /\ Len(records') = Len(records) + 1
      /\ \A k \in DOMAIN records' :
           /\ records'[k].op = k
           /\ records'[k] = r \/ (k \in DOMAIN records /\ records'[k] = records[k])
  BY <1>0, <1>1, <1>2, <1>3, <1>4, AppendRecord
<1>6. RunType'
  BY <1>0, <1>5 DEF RunType, Reported
<1>7. InTurn' /\ UndoInHand'
  BY <1>0, <1>1, <1>5 DEF InTurn, UndoInHand, Returned, Reported
<1>8. NobodyElse'
  BY <1>0 DEF NobodyElse, column
<1>9. ClaimsHold'
  <2>0. ASSUME NEW q \in OpRecord, Stands(q), GivenBack(q) PROVE Stands(q)' /\ GivenBack(q)'
    BY <1>0, <2>0 DEF Stands, GivenBack, Returned, column, table
  <2>1. ASSUME NEW k \in DOMAIN records' PROVE Stands(records[k])' /\ GivenBack(records[k])'
    <3>1. PICK q \in OpRecord : q = records'[k]
      BY <1>5, <2>1
    <3>2. Stands(q) /\ GivenBack(q)
      BY <1>3, <1>5, <3>1 DEF ClaimsHold
    <3>3. Stands(q)' /\ GivenBack(q)'
      BY <2>0, <3>2
    <3>4. QED BY <3>1, <3>3 DEF Stands, GivenBack, Returned
  <2>2. ASSUME NEW j \in DOMAIN receipt, Awaiting(j)' PROVE Stands(receipt[j])' /\ GivenBack(receipt[j])'
    <3>1. PICK q \in OpRecord : q = receipt[j]
      BY <1>1
    <3>2. Awaiting(j)
      BY <1>0, <1>1, <1>5, <2>2 DEF Awaiting, RunType
    <3>3. Stands(q) /\ GivenBack(q)
      BY <1>1, <3>1, <3>2 DEF ClaimsHold, Reported
    <3>4. Stands(q)' /\ GivenBack(q)'
      BY <2>0, <3>3
    <3>5. QED BY <1>0, <3>1, <3>4 DEF Stands, GivenBack, Returned
  <2>3. QED BY <1>0, <2>1, <2>2 DEF ClaimsHold
<1>10. QED BY <1>6, <1>7, <1>8, <1>9

\* One undo statement: what it does to the engine, and to what is to do.
UndoEffect(todo, lands) ==
  \/ /\ step = 1
     /\ todo = Regrants(ToUndo.op)
     /\ view' = IF lands THEN [view EXCEPT ![table(ToUndo.op)] = Nothing] ELSE view
     /\ dropped' = IF lands THEN dropped \cup {table(ToUndo.op)} ELSE dropped
     /\ grants' = grants /\ unmoved' = unmoved
  \/ /\ step = 2
     /\ view' = view /\ dropped' = dropped
     /\ \E g \in left :
          /\ todo = left \ {g}
          /\ grants' = IF lands THEN [grants EXCEPT ![column(ToUndo.op)] = @ \cup {g}] ELSE grants
          /\ unmoved' = (unmoved \ {[column |-> column(ToUndo.op), grantee |-> g]}) \cup
               (IF lands THEN {} ELSE {[column |-> column(ToUndo.op), grantee |-> g]})

LEMMA UndoKeeps ==
  ASSUME PgInv, Undoing, ~Kept(ToUndo), NEW todo, NEW lands \in BOOLEAN, NEW status,
         UndoEffect(todo, lands), Undone(status, todo),
         status \in {"rolled_back", "partially_applied", "unknown"},
         status = "rolled_back" => undone = "rolled_back",
         UNCHANGED <<at, prestate, receipt, before, touched>>
  PROVE  PgInv'
<1> USE DEF PgInv
<1> DEFINE n == Len(records) + 1
           i == ToUndo.op
           c == column(i)
<1>1. /\ at = "undoing" /\ n \in DOMAIN receipt /\ ToUndo = receipt[n]
      /\ receipt \in Seq(OpRecord) /\ records \in Seq(OpRecord) /\ step \in Nat \ {0}
  BY DEF Undoing, RunType, Reported, ToUndo
<1>2. i = n /\ i \in DOMAIN Plan
  <2>1. ToUndo \in OpRecord
    BY <1>1
  <2>2. ToUndo.op \in DOMAIN Plan
    BY <2>1 DEF OpRecord
  <2>3. QED BY <1>1, <2>2 DEF InTurn, Reported
<1>3. c \in Column /\ table(i) \in Table /\ TableOf[c] = table(i)
  BY <1>2, PlanType DEF table
<1>4. prestate[c] \subseteq before[c] /\ prestate[c] \in SUBSET Grantee
  <2>1. prestate[c] # Nothing
    BY DEF Kept
  <2>2. QED BY <1>3, <2>1 DEF NobodyElse, RunType
<1>5. step = 2 => left \subseteq prestate[c]
  BY <1>1 DEF UndoInHand, Returned
<1>6. todo \subseteq prestate[c]
  BY <1>5 DEF UndoEffect, Regrants
<1>7. /\ view' \in [Table -> Column \cup {Nothing}]
      /\ grants' \in [Column -> SUBSET Grantee]
      /\ \A t \in Table : t \notin dropped' => t \notin dropped /\ view'[t] = view[t]
      /\ \A d \in Column \ {c} : grants'[d] = grants[d]
      /\ grants[c] \subseteq grants'[c] /\ grants'[c] \subseteq grants[c] \cup prestate[c]
  <2>1. view \in [Table -> Column \cup {Nothing}] /\ grants \in [Column -> SUBSET Grantee]
    BY DEF RunType
  <2> HIDE DEF i, c
  <2>2. CASE step = 1
    BY <1>3, <2>1, <2>2 DEF UndoEffect, i
  <2>3. CASE step = 2
    <3>1. PICK g \in left :
            grants' = IF lands THEN [grants EXCEPT ![c] = @ \cup {g}] ELSE grants
      BY <2>3 DEF UndoEffect, c, i
    <3>2. g \in prestate[c] /\ g \in Grantee
      BY <1>4, <1>5, <2>3
    <3>3. view' = view /\ dropped' = dropped
      BY <2>3 DEF UndoEffect
    <3>4. QED BY <1>3, <2>1, <3>1, <3>2, <3>3
  <2>4. QED BY <2>2, <2>3 DEF UndoEffect
\* What was accepted so far has been given back or passed over, but for what is
\* to do; of other columns nothing changes.
<1>8. /\ status = "rolled_back" /\ c \notin touched =>
           \A g \in prestate[c] \ todo :
             g \in grants'[c] \/ [column |-> c, grantee |-> g] \in unmoved'
      /\ \A d \in Column \ {c} : \A g \in Grantee : Returned(d, g) => Returned(d, g)'
  <2>1. CASE step = 1
    BY <1>7, <2>1 DEF UndoEffect, Regrants, Returned
  <2>2. CASE step = 2
    <3>1. PICK h \in left :
            /\ todo = left \ {h}
            /\ grants' = IF lands THEN [grants EXCEPT ![c] = @ \cup {h}] ELSE grants
            /\ unmoved' = (unmoved \ {[column |-> c, grantee |-> h]}) \cup
                 (IF lands THEN {} ELSE {[column |-> c, grantee |-> h]})
      BY <2>2 DEF UndoEffect
    <3> HIDE DEF i, c
    <3>2. h \in grants'[c] \/ [column |-> c, grantee |-> h] \in unmoved'
      BY <1>3, <3>1 DEF RunType
    <3>3. ASSUME NEW d \in Column, NEW g, d # c \/ g # h, Returned(d, g)
          PROVE  Returned(d, g)'
      <4>1. [column |-> d, grantee |-> g] # [column |-> c, grantee |-> h]
        BY <3>3
      <4>2. [column |-> d, grantee |-> g] \in unmoved => [column |-> d, grantee |-> g] \in unmoved'
        BY <3>1, <4>1
      <4>3. g \in grants[d] => g \in grants'[d]
        BY <1>7, <3>3 DEF c, i
      <4>4. QED BY <3>3, <4>2, <4>3 DEF Returned
    <3>4. ASSUME status = "rolled_back", c \notin touched, NEW g \in prestate[c] \ todo
          PROVE  g \in grants'[c] \/ [column |-> c, grantee |-> g] \in unmoved'
      <4>1. CASE g = h
        BY <3>2, <4>1
      <4>2. CASE g # h
        <5>1. g \in prestate[c] \ left
          BY <3>1, <3>4, <4>2
        <5>2. Returned(c, g)
          BY <1>1, <2>2, <3>4, <5>1 DEF UndoInHand, c, i
        <5>3. PICK d \in Column : d = c
          BY <1>3 DEF c, i
        <5>4. Returned(d, g)'
          BY <3>3, <4>2, <5>2, <5>3
        <5>5. QED BY <5>3, <5>4 DEF Returned
      <4>3. QED BY <4>1, <4>2
    <3>5. QED BY <3>3, <3>4
  <2>3. QED BY <2>1, <2>2 DEF UndoEffect
<1>9. NobodyElse'
  <2>1. ASSUME NEW j \in DOMAIN Plan, column(j) \notin touched
        PROVE  grants'[column(j)] \subseteq before[column(j)] \cup AudienceOf(j)
    <3>1. grants[column(j)] \subseteq before[column(j)] \cup AudienceOf(j) /\ column(j) \in Column
      BY <2>1, PlanType DEF NobodyElse
    <3>2. CASE column(j) = c
      BY <1>4, <1>7, <3>1, <3>2
    <3>3. CASE column(j) # c
      BY <1>7, <3>1, <3>3
    <3>4. QED BY <3>2, <3>3
  <2>2. QED BY <2>1 DEF NobodyElse, column, AudienceOf
<1>10. ASSUME NEW r \in OpRecord, r.op # i, Stands(r), GivenBack(r)
       PROVE  Stands(r)' /\ GivenBack(r)'
  <2>1. r.op \in DOMAIN Plan
    BY DEF OpRecord
  <2>2. column(r.op) \in Column /\ table(r.op) \in Table /\ column(r.op) # c
    BY <1>2, <1>10, <2>1, PlanType
  <2>3. grants'[column(r.op)] = grants[column(r.op)]
    BY <1>7, <2>2
  <2>4. table(r.op) \notin dropped' => table(r.op) \notin dropped /\ view'[table(r.op)] = view[table(r.op)]
    BY <1>7, <2>2
  <2>5. Stands(r)'
    BY <1>10, <2>3, <2>4 DEF Stands, column, table
  <2>6. before[column(r.op)] \in SUBSET Grantee
    BY <2>2 DEF RunType
  <2>7. GivenBack(r)'
    BY <1>8, <1>10, <2>2, <2>6 DEF GivenBack, column
  <2>8. QED BY <2>5, <2>7
<1>11. \A k \in DOMAIN records : records[k] \in OpRecord /\ records[k].op = k /\ k # i
                                /\ Stands(records[k]) /\ GivenBack(records[k])
  BY <1>1, <1>2 DEF InTurn, ClaimsHold
<1>12. \A j \in DOMAIN receipt : receipt[j] \in OpRecord /\ receipt[j].op = j
                               /\ (j > n => Stands(receipt[j]) /\ GivenBack(receipt[j]))
  BY <1>1 DEF InTurn, ClaimsHold, Reported, Awaiting
<1>13. CASE todo = {}
  <2>1. PICK r \in OpRecord : r = Rec(i, status, "unread", FALSE)
    <3>1. status \in Status
      BY DEF Status
    <3>2. PICK b \in BOOLEAN : b = FALSE
      OBVIOUS
    <3>3. QED BY <1>2, <3>1, <3>2, UnreadType
  <2>2. r.op = n /\ r.status = status /\ r.verified = "unread"
    BY <1>2, <2>1 DEF Rec
  <2>3. records' = Append(records, r) /\ step' = 1 /\ undone' = "rolled_back"
    BY <1>13, <2>1 DEF Undone, Append1
  <2> HIDE DEF i, c, n
  <2>4. /\ records' \in Seq(OpRecord)
        /\ Len(records') = Len(records) + 1
        /\ \A k \in DOMAIN records' :
             /\ records'[k].op = k
             /\ records'[k] = r \/ (k \in DOMAIN records /\ records'[k] = records[k])
    <3>1. \A k \in DOMAIN records : records[k].op = k
      BY <1>11
    <3>2. r.op = Len(records) + 1
      BY <2>2 DEF n
    <3>3. QED BY <1>1, <2>3, <3>1, <3>2, AppendRecord
  <2>5. RunType'
    BY <1>7, <2>3, <2>4 DEF RunType, Reported
  <2>6. InTurn' /\ UndoInHand'
    BY <1>1, <2>3, <2>4 DEF InTurn, UndoInHand, Returned, Reported
  <2>7. Stands(r)' /\ GivenBack(r)'
    <3>1. Stands(r)'
      BY <2>2 DEF Stands
    <3>2. column(r.op) = c
      BY <1>2, <2>2 DEF c
    <3>3. GivenBack(r)'
      BY <1>8, <1>13, <2>2, <3>2 DEF GivenBack, Returned, column
    <3>4. QED BY <3>1, <3>3
  <2>8. ASSUME NEW k \in DOMAIN records' PROVE Stands(records[k])' /\ GivenBack(records[k])'
    <3>1. CASE records'[k] = r
      BY <2>7, <3>1 DEF Stands, GivenBack, Returned
    <3>2. CASE k \in DOMAIN records /\ records'[k] = records[k]
      <4>1. PICK q \in OpRecord : q = records[k]
        BY <1>11, <3>2
      <4>2. Stands(q)' /\ GivenBack(q)'
        BY <1>10, <1>11, <3>2, <4>1
      <4>3. QED BY <3>2, <4>1, <4>2 DEF Stands, GivenBack, Returned
    <3>3. QED BY <2>4, <3>1, <3>2
  <2>9. ASSUME NEW j \in DOMAIN receipt, Awaiting(j)'
        PROVE  Stands(receipt[j])' /\ GivenBack(receipt[j])'
    <3>1. j > n
      BY <2>4, <2>9 DEF Awaiting, n
    <3>2. PICK q \in OpRecord : q = receipt[j]
      BY <1>12
    <3>3. q.op # i
      BY <1>1, <1>2, <1>12, <3>1, <3>2 DEF n
    <3>4. Stands(q)' /\ GivenBack(q)'
      BY <1>10, <1>12, <3>1, <3>2, <3>3
    <3>5. QED BY <3>2, <3>4 DEF Stands, GivenBack, Returned
  <2>10. ClaimsHold'
    BY <2>8, <2>9 DEF ClaimsHold
  <2>11. QED BY <1>9, <2>5, <2>6, <2>10
<1>14. CASE todo # {}
  <2>1. undone' = status /\ left' = todo /\ step' = 2 /\ records' = records
    BY <1>14 DEF Undone
  <2>2. RunType'
    BY <1>7, <2>1 DEF RunType, Reported
  <2>3. InTurn'
    BY <1>1, <2>1 DEF InTurn, Reported
  <2>4. UndoInHand'
    <3>1. ToUndo' = ToUndo /\ Undoing' /\ ~Kept(ToUndo)'
      BY <2>1 DEF ToUndo, Undoing, Kept, column
    <3>2. QED BY <1>6, <1>8, <2>1, <3>1 DEF UndoInHand, Returned, column
  <2>5. ASSUME NEW k \in DOMAIN records PROVE Stands(records[k])' /\ GivenBack(records[k])'
    <3>1. PICK q \in OpRecord : q = records[k]
      BY <1>11
    <3>2. Stands(q)' /\ GivenBack(q)'
      BY <1>10, <1>11, <3>1
    <3>3. QED BY <2>1, <3>1, <3>2 DEF Stands, GivenBack, Returned
  <2>6. ASSUME NEW j \in DOMAIN receipt, Awaiting(j)'
        PROVE  Stands(receipt[j])' /\ GivenBack(receipt[j])'
    <3>1. j > n
      BY <1>1, <2>1, <2>6 DEF Awaiting
    <3>2. PICK q \in OpRecord : q = receipt[j]
      BY <1>12
    <3>3. q.op # i
      BY <1>1, <1>2, <1>12, <3>1, <3>2
    <3>4. Stands(q)' /\ GivenBack(q)'
      BY <1>10, <1>12, <3>1, <3>2, <3>3
    <3>5. QED BY <3>2, <3>4 DEF Stands, GivenBack, Returned
  <2>7. ClaimsHold'
    BY <2>1, <2>5, <2>6 DEF ClaimsHold
  <2>8. QED BY <1>9, <2>2, <2>3, <2>4, <2>7
<1>15. QED BY <1>13, <1>14

LEMMA UndoStep == PgInv /\ (UndoAccepted \/ UndoRejected \/ UndoLost) => PgInv'
<1> SUFFICES ASSUME PgInv, UndoAccepted \/ UndoRejected \/ UndoLost PROVE PgInv'
  OBVIOUS
<1>1. ASSUME NEW lands \in BOOLEAN, NEW status, UndoStatement(lands, status),
             status = "rolled_back" => undone = "rolled_back",
             status \in {"rolled_back", "partially_applied", "unknown"}
      PROVE  PgInv'
  <2>1. CASE UndoView(lands, status)
    <3>1. /\ Undoing /\ ~Kept(ToUndo) /\ Undone(status, Regrants(ToUndo.op))
          /\ UNCHANGED <<at, prestate, receipt, before, touched>>
      BY <2>1 DEF UndoView
    <3>2. UndoEffect(Regrants(ToUndo.op), lands)
      BY <2>1 DEF UndoView, UndoEffect
    <3>3. PICK todo : todo = Regrants(ToUndo.op)
      OBVIOUS
    <3>4. Undone(status, todo) /\ UndoEffect(todo, lands)
      BY <3>1, <3>2, <3>3
    <3>5. QED BY <1>1, <3>1, <3>4, UndoKeeps
  <2>2. ASSUME NEW g \in Grantee, UndoRevoke(g, lands, status) PROVE PgInv'
    <3>1. PICK todo : todo = left \ {g}
      OBVIOUS
    <3>2. /\ Undoing /\ ~Kept(ToUndo) /\ Undone(status, todo)
          /\ UNCHANGED <<at, prestate, receipt, before, touched>>
      BY <2>2, <3>1 DEF UndoRevoke
    <3>3. UndoEffect(todo, lands)
      BY <2>2, <3>1 DEF UndoRevoke, UndoEffect
    <3>4. QED BY <1>1, <3>2, <3>3, UndoKeeps
  <2>3. QED BY <1>1, <2>1, <2>2 DEF UndoStatement
<1>2. CASE UndoAccepted
  <2>1. PICK status : status = undone
    OBVIOUS
  <2>2. PICK lands \in BOOLEAN : UndoStatement(lands, status)
    BY <1>2, <2>1 DEF UndoAccepted
  <2>3. status \in {"rolled_back", "partially_applied", "unknown"}
    BY <2>1 DEF PgInv, RunType
  <2>4. QED BY <1>1, <2>1, <2>2, <2>3
<1>3. CASE UndoRejected
  BY <1>1, <1>3 DEF UndoRejected
<1>4. CASE UndoLost
  BY <1>1, <1>4 DEF UndoLost
<1>5. QED BY <1>2, <1>3, <1>4

LEMMA PgInvAlways == PgSpec => []PgInv
<1>1. PgInv /\ [PgNext]_pgVars => PgInv'
  <2> SUFFICES ASSUME PgInv, [PgNext]_pgVars PROVE PgInv'
    OBVIOUS
  <2>1. CASE UNCHANGED pgVars
    <3> USE <2>1 DEF pgVars, PgInv
    <3>1. RunType' /\ InTurn'
      BY DEF RunType, InTurn, Reported
    <3>2. UndoInHand'
      BY DEF UndoInHand, Returned, Undoing, ToUndo, Kept, column
    <3>3. NobodyElse'
      BY DEF NobodyElse, column
    <3>4. ClaimsHold'
      BY DEF ClaimsHold, Reported, Awaiting, Stands, GivenBack, Returned, column, table
    <3>5. QED BY <3>1, <3>2, <3>3, <3>4
  <2>2. QED
    BY <2>1, RefuseStep, BeginStep, AcceptedStep, RejectedStep, VerifyStep, FinishStep,
       RollbackStep, KeepStep, UndoStep, FinishUndoStep, CrashStep, ReconcileStep,
       OutsideStep DEF PgNext
<1>2. QED BY <1>1, PgInvInit, PTL DEF PgSpec

\* What a record of the Postgres executor says was verified stays so for any
\* plan, tables and audiences, until others grant the column or a rollback
\* drops its table's view.
THEOREM VerifiedStaysGoverned == PgSpec => []VerifiedIsGoverned
<1>1. PgInv => VerifiedIsGoverned
  BY DEF PgInv, ClaimsHold, Stands, VerifiedIsGoverned
<1>2. QED BY <1>1, PgInvAlways, PTL

\* A record that says rolled_back gave everybody in its snapshot access again,
\* but those whose GRANT the engine passed over unnoticed, and let in nobody else
\* but whom the run had, however many rollbacks, losses and crashes:
\* base.py:671-747, postgres.py:43-107.
THEOREM RollbackIsExact == PgSpec => []RollbackGivesBack
<1>1. ASSUME PgInv, NEW k \in DOMAIN records, records[k].status = "rolled_back",
             column(records[k].op) \notin touched
      PROVE  /\ \A g \in before[column(records[k].op)] :
                  g \in prestate[column(records[k].op)] => Returned(column(records[k].op), g)
             /\ grants[column(records[k].op)] \subseteq
                  before[column(records[k].op)] \cup AudienceOf(records[k].op)
  <2>1. GivenBack(records[k])
    BY <1>1 DEF PgInv, ClaimsHold
  <2>2. records[k] \in OpRecord
    BY <1>1 DEF PgInv, RunType
  <2>3. records[k].op \in DOMAIN Plan
    BY <2>2 DEF OpRecord
  <2>4. QED BY <1>1, <2>1, <2>3 DEF PgInv, GivenBack, NobodyElse
<1>2. PgInv => RollbackGivesBack
  BY <1>1 DEF RollbackGivesBack, Returned
<1>3. QED BY <1>2, PgInvAlways, PTL
=============================================================================
