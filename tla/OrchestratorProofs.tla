------------------------- MODULE OrchestratorProofs -------------------------
(***************************************************************************)
(* Proofs about the orchestrator and its HTTP routes, for every set of     *)
(* requests, plans, forecasts, principals and receipts, and without the    *)
(* bounds TLC needs.                                                       *)
(*                                                                         *)
(* Every handler is a gate followed by an append, so one lemma, Gates,     *)
(* says what all gates let through; the theorems then follow from how a    *)
(* step that begins a call, appends, runs the executor or crashes changes  *)
(* the state.                                                              *)
(***************************************************************************)
EXTENDS Api, TLAPS

\* Only an attempt is followed by a run of the executor.
EngineFollowsAttempt ==
  \A w \in Worker :
    call[w].at = "append" /\ call[w].next = "engine"
      => call[w].entry.phase = "execute_attempt"

TypeInv == TypeOK /\ EngineFollowsAttempt

----------------------------------------------------------------------------
(* What the journal must hold for an entry to be rightly in it.            *)

\* An attempt acts on a recorded forecast of its own recorded plan, which was
\* autonomous or approved within the approver's tier.
Founded(r, a) ==
  /\ a.forecast.plan = a.plan
  /\ ForecastRecorded(r, a.forecast)
  /\ \E e \in Of(r, "plan") : e.plan = a.plan
  /\ \/ a.forecast.decision = "AUTONOMOUS"
     \/ \E e \in Of(r, "approve") : /\ e.forecast = a.forecast
                                    /\ a.forecast.tier <= Authority[e.by]

Backed(r, e) ==
  /\ e.phase = "simulate" => \E x \in Of(r, "plan") : x.plan = e.forecast.plan
  /\ e.phase = "approve" => /\ ForecastRecorded(r, e.forecast)
                            /\ e.forecast.tier <= Authority[e.by]
  /\ e.phase = "execute_attempt" => Founded(r, e.attempt)
  /\ e.phase = "execute" => e.attempt \in Attempts(r) /\ Founded(r, e.attempt)
  /\ e.phase = "verify" => \/ e.receipt \in HandedIn
                           \/ \E x \in Outcomes(r) : x.receipt = e.receipt
  /\ e.phase = "close" =>
       \E x \in Of(r, "verify") : x.passed /\ x.receipt = e.receipt

LastIsRecorded(r) ==
  /\ last[r].plan # None => \E e \in Of(r, "plan") : e.plan = last[r].plan
  /\ last[r].forecast # None => ForecastRecorded(r, last[r].forecast)
  /\ last[r].receipt # None =>
       \E x \in Outcomes(r) : x.receipt = last[r].receipt

\* The inductive invariant behind the audit and the authority of runs: each
\* entry, recorded or about to be, is backed by what was recorded before.
Grounded ==
  /\ \A r \in Request : LastIsRecorded(r)
  /\ \A r \in Request : \A e \in log[r] : Backed(r, e)
  /\ \A w \in Worker :
       call[w].at = "append" => Backed(call[w].req, call[w].entry)
  /\ \A w \in Worker : call[w].at = "engine" =>
       /\ call[w].attempt \in Attempts(call[w].req)
       /\ Founded(call[w].req, call[w].attempt)
  /\ \A r \in Request : \A i \in 1 .. Len(ran[r]) :
       ran[r][i] \in Attempts(r) /\ Founded(r, ran[r][i])

\* One call at a time: the single-threaded server that api.py describes, and
\* the programs of the tests.
OneAtATime == \A v, w \in Worker : v = w

\* The inductive invariant behind "at most once": until an attempt is written
\* nothing ran, and from the gate to the run there is no other attempt.
NothingRanYet ==
  /\ \A r \in Request : Len(ran[r]) <= 1
  /\ \A r \in Request : Attempts(r) = {} => ran[r] = <<>>
  /\ \A w \in Worker :
       /\ call[w].at = "append" /\ call[w].entry.phase = "execute_attempt"
            => Attempts(call[w].req) = {}
       /\ call[w].at = "engine" => ran[call[w].req] = <<>>

----------------------------------------------------------------------------
(* Lemmas.                                                                 *)

\* The fields that entries of a phase have.
LEMMA EntryFields ==
  ASSUME NEW e \in Entry
  PROVE  /\ e.phase \in Phase
         /\ e.phase = "plan" => e.plan \in PlanHash
         /\ e.phase = "simulate" => e.forecast \in Forecast
         /\ e.phase = "approve" => e.forecast \in Forecast /\ e.by \in Principal
         /\ e.phase = "execute_attempt" => e.attempt \in Attempt
         /\ e.phase = "execute" => e.attempt \in Attempt /\ e.receipt \in Receipt
         /\ e.phase = "reconcile" => e.attempt \in Attempt /\ e.receipt \in Receipt
         /\ e.phase = "verify" => e.receipt \in Receipt /\ e.passed \in BOOLEAN
         /\ e.phase = "close" => e.receipt \in Receipt
  BY DEF Entry, Phase

\* Stamping an entry with its position changes nothing else of it.
LEMMA StampKeeps ==
  ASSUME NEW e \in Entry, NEW n \in Nat
  PROVE  /\ Stamp(e, n) \in Entry
         /\ Stamp(e, n).phase = e.phase
         /\ e.phase \in Executed => /\ Stamp(e, n).attempt = e.attempt
                                    /\ Stamp(e, n).receipt = e.receipt
         /\ e.phase \notin Executed => Stamp(e, n) = e
  BY DEF Entry, Stamp, Executed

\* What is recorded stays recorded, and backs what it backed.
LEMMA BackingIsMonotone ==
  ASSUME NEW r \in Request, log[r] \subseteq log'[r]
  PROVE  /\ Attempts(r) \subseteq Attempts(r)'
         /\ \A a : Founded(r, a) => Founded(r, a)'
         /\ \A e : Backed(r, e) => Backed(r, e)'
<1>1. \A ph : Of(r, ph) \subseteq Of(r, ph)'
  BY DEF Of
<1>2. Attempts(r) \subseteq Attempts(r)'
  BY <1>1 DEF Attempts
<1>3. Outcomes(r) \subseteq Outcomes(r)'
  BY <1>1 DEF Outcomes
<1>4. \A f : ForecastRecorded(r, f) => ForecastRecorded(r, f)'
  BY <1>1 DEF ForecastRecorded
<1>5. \A a : Founded(r, a) => Founded(r, a)'
  BY <1>1, <1>4 DEF Founded
<1>6. \A e : Backed(r, e) => Backed(r, e)'
  BY <1>1, <1>2, <1>3, <1>4, <1>5 DEF Backed
<1> QED
  BY <1>2, <1>5, <1>6

\* An entry the call in progress may append next.
Admitted(r, e, next) ==
  /\ Backed(r, e)
  /\ next = "engine" => e.phase = "execute_attempt"
  /\ e.phase = "execute_attempt" => Attempts(r) = {}

Lets(w, r) ==
  \E e \in Entry, next \in {"return", "refuse", "engine"} :
    Admitted(r, e, next) /\ Begin(w, r, e, next)

\* The gates of the phases before execution.
LEMMA PrepareLets ==
  ASSUME TypeOK, NEW w \in Worker, NEW r \in Request, LastIsRecorded(r),
         Prepare(w, r)
  PROVE  Lets(w, r)
<1>1. CASE \E by \in Submitter : Observe(w, r, by)
  <2> PICK by \in Submitter : Observe(w, r, by)
    BY <1>1
  <2> DEFINE e == [phase |-> "observe", by |-> by]
  <2>1. e \in Entry
    BY PrincipalAssumption DEF Entry
  <2>2. Admitted(r, e, "return")
    BY DEF Admitted, Backed
  <2> QED
    BY <2>1, <2>2 DEF Lets, Observe
<1>2. CASE \E by \in Submitter : Analyze(w, r, by)
  <2> PICK by \in Submitter : Analyze(w, r, by)
    BY <1>2
  <2> DEFINE e == [phase |-> "analyze", by |-> by]
  <2>1. e \in Entry
    BY PrincipalAssumption DEF Entry
  <2>2. Admitted(r, e, "return")
    BY DEF Admitted, Backed
  <2> QED
    BY <2>1, <2>2 DEF Lets, Analyze
<1>3. CASE \E resolved \in BOOLEAN : Resolve(w, r, resolved)
  <2> PICK resolved \in BOOLEAN : Resolve(w, r, resolved)
    BY <1>3
  <2> DEFINE e == [phase |-> "resolve"]
             next == IF resolved THEN "return" ELSE "refuse"
  <2>1. e \in Entry
    BY DEF Entry
  <2>2. Admitted(r, e, next)
    BY DEF Admitted, Backed
  <2> QED
    BY <2>1, <2>2 DEF Lets, Resolve
<1>4. CASE \E p \in PlanHash, by \in Submitter : Plan(w, r, p, by)
  <2> PICK p \in PlanHash, by \in Submitter : Plan(w, r, p, by)
    BY <1>4
  <2> DEFINE e == [phase |-> "plan", plan |-> p, by |-> by]
  <2>1. e \in Entry
    BY PrincipalAssumption DEF Entry
  <2>2. Admitted(r, e, "return")
    BY DEF Admitted, Backed
  <2> QED
    BY <2>1, <2>2 DEF Lets, Plan
<1>5. CASE \E f \in Forecast : Simulate(w, r, f)
  <2> PICK f \in Forecast : Simulate(w, r, f)
    BY <1>5
  <2> DEFINE e == [phase |-> "simulate", forecast |-> f]
  <2>1. e \in Entry
    BY DEF Entry
  <2>2. last[r].plan = f.plan /\ f.plan # None
    BY ForecastAssumption, NoneAssumption DEF Simulate, IsRecordedPlan
  <2>3. Admitted(r, e, "return")
    BY <2>2 DEF Admitted, Backed, LastIsRecorded
  <2> QED
    BY <2>1, <2>3 DEF Lets, Simulate
<1>6. CASE \E f \in Forecast, by \in Principal : Approve(w, r, f, by)
  <2> PICK f \in Forecast, by \in Principal : Approve(w, r, f, by)
    BY <1>6
  <2> DEFINE e == [phase |-> "approve", forecast |-> f, by |-> by]
  <2>1. e \in Entry
    BY DEF Entry
  <2>2. ForecastRecorded(r, f)
    BY NoneAssumption DEF Approve, LastIsRecorded
  <2>3. Admitted(r, e, "return")
    BY <2>2 DEF Admitted, Backed, Approve
  <2> QED
    BY <2>1, <2>3 DEF Lets, Approve
<1> QED
  BY <1>1, <1>2, <1>3, <1>4, <1>5, <1>6 DEF Prepare

\* execute()'s gate: the attempt it lets through is founded, and the first.
LEMMA ExecuteLets ==
  ASSUME TypeOK, NEW w \in Worker, NEW r \in Request, LastIsRecorded(r),
         \A x \in log[r] : Backed(r, x),
         NEW p \in PlanHash, Execute(w, r, p)
  PROVE  Lets(w, r)
<1> DEFINE f == last[r].forecast
           a == [plan |-> p, forecast |-> f, at |-> size[r]]
           e == [phase |-> "execute_attempt", attempt |-> a]
<1>1. f \in Forecast /\ ForecastRecorded(r, f)
  BY DEF Execute, TypeOK, LastIsRecorded
<1>2. a \in Attempt /\ e \in Entry
  BY <1>1 DEF Attempt, Entry, TypeOK
<1>3. \E x \in Of(r, "plan") : x.plan = p
  BY NoneAssumption DEF Execute, IsRecordedPlan, LastIsRecorded
<1>4. \/ f.decision = "AUTONOMOUS"
      \/ \E x \in Of(r, "approve") : /\ x.forecast = f
                                     /\ f.tier <= Authority[x.by]
  BY DEF Execute, Authorised, Of, Backed
<1>5. Founded(r, a)
  BY <1>1, <1>3, <1>4 DEF Founded, Execute
<1>6. Attempts(r) = {}
  BY DEF Execute, NotYetAttempted, Unresolved
<1>7. Admitted(r, e, "engine")
  BY <1>5, <1>6 DEF Admitted, Backed
<1> QED
  BY <1>2, <1>7 DEF Lets, Execute

\* The gates of the phases after execution.
LEMMA SettleLets ==
  ASSUME TypeOK, NEW w \in Worker, NEW r \in Request, LastIsRecorded(r),
         Settle(w, r)
  PROVE  Lets(w, r)
<1>1. CASE \E p \in PlanHash, c \in Receipt : Reconcile(w, r, p, c)
  <2> PICK p \in PlanHash, c \in Receipt : Reconcile(w, r, p, c)
    BY <1>1
  <2> PICK a \in Unresolved(r) :
             Begin(w, r, [phase |-> "reconcile", attempt |-> a, plan |-> p,
                          receipt |-> c, seq |-> 0], "return")
    BY DEF Reconcile
  <2> DEFINE e == [phase |-> "reconcile", attempt |-> a, plan |-> p,
                   receipt |-> c, seq |-> 0]
  <2>1. a \in Attempt
    BY EntryFields DEF Unresolved, Attempts, Of, TypeOK
  <2>2. e \in Entry
    BY <2>1 DEF Entry
  <2>3. Admitted(r, e, "return")
    BY DEF Admitted, Backed
  <2> QED
    BY <2>2, <2>3 DEF Lets
<1>2. CASE \E c \in ReceiptArgument(r), passed \in BOOLEAN :
             Verify(w, r, c, passed)
  <2> PICK c \in ReceiptArgument(r), passed \in BOOLEAN : Verify(w, r, c, passed)
    BY <1>2
  <2> DEFINE e == [phase |-> "verify", receipt |-> c, passed |-> passed]
  <2>1. c \in Receipt
    BY ReceiptAssumption, EntryFields DEF ReceiptArgument, Of, TypeOK
  <2>2. e \in Entry
    BY <2>1 DEF Entry
  <2>3. c \in HandedIn \/ \E x \in Outcomes(r) : x.receipt = c
    BY DEF ReceiptArgument, Outcomes
  <2>4. Admitted(r, e, "return")
    BY <2>3 DEF Admitted, Backed
  <2> QED
    BY <2>2, <2>4 DEF Lets, Verify
<1>3. CASE \E c \in ReceiptArgument(r) : Close(w, r, c)
  <2> PICK c \in ReceiptArgument(r) : Close(w, r, c)
    BY <1>3
  <2> DEFINE e == [phase |-> "close", receipt |-> c]
  <2>1. c \in Receipt
    BY ReceiptAssumption, EntryFields DEF ReceiptArgument, Of, TypeOK
  <2>2. e \in Entry
    BY <2>1 DEF Entry
  <2>3. Admitted(r, e, "return")
    BY DEF Admitted, Backed, Close, PassingVerification
  <2> QED
    BY <2>2, <2>3 DEF Lets, Close
<1>4. CASE Refuse(w, r)
  <2> DEFINE e == [phase |-> "refuse"]
  <2>1. e \in Entry
    BY DEF Entry
  <2>2. Admitted(r, e, "return")
    BY DEF Admitted, Backed
  <2> QED
    BY <1>4, <2>1, <2>2 DEF Lets, Refuse
<1> QED
  BY <1>1, <1>2, <1>3, <1>4 DEF Settle

\* What a step is: a gate that lets an admissible entry through, the append,
\* the executor's return or failure, or a crash.
LEMMA Gates ==
  ASSUME TypeOK, Grounded, Next
  PROVE  \/ \E w \in Worker, r \in Request : Lets(w, r)
         \/ \E w \in Worker :
              \/ \E c \in Receipt : ExecuteStaged(w, c)
              \/ ExecutorRaises(w)
              \/ AppendEntry(w)
         \/ Crash
<1>1. ASSUME NEW w \in Worker, NEW r \in Request,
             Prepare(w, r) \/ (\E p \in PlanHash : Execute(w, r, p))
               \/ Settle(w, r)
      PROVE  Lets(w, r)
  <2> LastIsRecorded(r) /\ \A x \in log[r] : Backed(r, x)
    BY DEF Grounded
  <2> QED
    BY <1>1, PrepareLets, ExecuteLets, SettleLets
<1> QED
  BY <1>1 DEF Next

----------------------------------------------------------------------------
(* Type correctness.                                                       *)

LEMMA TypeInit == Init => TypeInv
  BY BoundAssumption DEF Init, TypeInv, TypeOK, EngineFollowsAttempt, Idle, Call

LEMMA TypeAppend ==
  ASSUME TypeInv, NEW w \in Worker, AppendEntry(w)
  PROVE  TypeInv'
<1> DEFINE c == call[w]
           e == Stamp(c.entry, size[c.req])
<1> USE DEF TypeInv, TypeOK
<1>1. c.req \in Request /\ c.entry \in Entry
      /\ c.next \in {"return", "refuse", "engine"}
  BY DEF AppendEntry, Call, Idle
<1>2. e \in Entry /\ e.phase = c.entry.phase
  BY <1>1, StampKeeps
<1>3. log' \in [Request -> SUBSET Entry]
  BY <1>1, <1>2 DEF AppendEntry
<1>4. size' \in [Request -> Nat]
  BY <1>1 DEF AppendEntry
<1>5. Latest(last[c.req], c.entry) \in
        [phase: Phase \cup {None}, plan: PlanHash \cup {None},
         forecast: Forecast \cup {None}, receipt: Receipt \cup {None}]
  BY <1>1, EntryFields DEF Latest, Executed
<1>6. last' \in [Request -> [phase: Phase \cup {None},
                             plan: PlanHash \cup {None},
                             forecast: Forecast \cup {None},
                             receipt: Receipt \cup {None}]]
  BY <1>1, <1>5 DEF AppendEntry
<1>7. AfterAppend(c) \in Call
  <2>1. CASE c.next = "return"
    BY <2>1 DEF AfterAppend, Call
  <2>2. CASE c.next = "refuse"
    <3> [phase |-> "refuse"] \in Entry
      BY DEF Entry
    <3> QED
      BY <1>1, <2>2 DEF AfterAppend, Call
  <2>3. CASE c.next = "engine"
    <3> c.entry.attempt \in Attempt
      BY <1>1, <2>3, EntryFields DEF EngineFollowsAttempt, AppendEntry
    <3> QED
      BY <1>1, <2>3 DEF AfterAppend, Call
  <2> QED
    BY <1>1, <2>1, <2>2, <2>3
<1>8. call' = [call EXCEPT ![w] = AfterAppend(c)] /\ call' \in [Worker -> Call]
  BY <1>7 DEF AppendEntry
<1>9. AfterAppend(c).at = "append" => AfterAppend(c).next # "engine"
  BY <1>1 DEF AfterAppend, Idle
<1>10. EngineFollowsAttempt'
  BY <1>8, <1>9 DEF EngineFollowsAttempt
<1> QED
  BY <1>3, <1>4, <1>6, <1>8, <1>10 DEF AppendEntry

LEMMA TypeStep == TypeInv /\ Grounded /\ [Next]_vars => TypeInv'
<1> SUFFICES ASSUME TypeInv, Grounded, [Next]_vars
             PROVE  TypeInv'
  OBVIOUS
<1> USE DEF TypeInv, TypeOK
<1>1. ASSUME NEW w \in Worker, NEW r \in Request, Lets(w, r)
      PROVE  TypeInv'
  <2> PICK e \in Entry, next \in {"return", "refuse", "engine"} :
             Admitted(r, e, next) /\ Begin(w, r, e, next)
    BY <1>1 DEF Lets
  <2> DEFINE c == [at |-> "append", req |-> r, entry |-> e, next |-> next]
  <2>1. c \in Call
    BY DEF Call
  <2>2. call' = [call EXCEPT ![w] = c] /\ call' \in [Worker -> Call]
    BY <2>1 DEF Begin
  <2>3. EngineFollowsAttempt'
    BY <2>2 DEF EngineFollowsAttempt, Admitted
  <2> QED
    BY <2>2, <2>3 DEF Begin
<1>2. ASSUME NEW w \in Worker, NEW x \in Receipt, ExecuteStaged(w, x)
      PROVE  TypeInv'
  <2> DEFINE e == [phase |-> "execute", attempt |-> call[w].attempt,
                   receipt |-> x, seq |-> 0]
             c == [at |-> "append", req |-> call[w].req, entry |-> e,
                   next |-> "return"]
  <2>1. call[w].req \in Request /\ call[w].attempt \in Attempt
    BY <1>2 DEF ExecuteStaged, Call, Idle
  <2>2. e \in Entry
    BY <2>1 DEF Entry
  <2>3. c \in Call
    BY <2>1, <2>2 DEF Call
  <2>4. call' = [call EXCEPT ![w] = c] /\ call' \in [Worker -> Call]
    BY <1>2, <2>3 DEF ExecuteStaged
  <2>5. ran' \in [Request -> Seq(Attempt)]
    BY <1>2, <2>1 DEF ExecuteStaged
  <2>6. EngineFollowsAttempt'
    BY <2>4 DEF EngineFollowsAttempt
  <2> QED
    BY <1>2, <2>4, <2>5, <2>6 DEF ExecuteStaged
<1>3. ASSUME NEW w \in Worker, ExecutorRaises(w)
      PROVE  TypeInv'
  <2>1. call[w].req \in Request /\ call[w].attempt \in Attempt
    BY <1>3 DEF ExecutorRaises, Call, Idle
  <2>2. ran' \in [Request -> Seq(Attempt)]
    BY <1>3, <2>1 DEF ExecutorRaises
  <2>3. call' \in [Worker -> Call] /\ EngineFollowsAttempt'
    BY <1>3 DEF ExecutorRaises, EngineFollowsAttempt, Call, Idle
  <2> QED
    BY <1>3, <2>2, <2>3 DEF ExecutorRaises
<1>4. ASSUME NEW w \in Worker, AppendEntry(w)
      PROVE  TypeInv'
  BY <1>4, TypeAppend
<1>5. CASE Crash
  BY <1>5 DEF Crash, EngineFollowsAttempt, Call, Idle
<1>6. CASE UNCHANGED vars
  BY <1>6 DEF vars, EngineFollowsAttempt
<1> QED
  BY <1>1, <1>2, <1>3, <1>4, <1>5, <1>6, Gates

----------------------------------------------------------------------------
(* The audit and the authority of runs, with any number of threads.        *)

LEMMA GroundedInit == Init => Grounded
  BY DEF Init, Grounded, LastIsRecorded, Idle

\* A step that leaves the journal alone keeps all it backs.
LEMMA GroundedSameLog ==
  ASSUME TypeInv, Grounded, UNCHANGED <<log, last>>
  PROVE  /\ \A r \in Request : LastIsRecorded(r)'
         /\ \A r \in Request : (\A e \in log[r] : Backed(r, e))'
         /\ \A r \in Request : Attempts(r)' = Attempts(r)
         /\ \A r \in Request : \A a : Founded(r, a) => Founded(r, a)'
         /\ \A r \in Request : \A e : Backed(r, e) => Backed(r, e)'
<1>1. ASSUME NEW r \in Request
      PROVE  /\ Attempts(r)' = Attempts(r)
             /\ \A a : Founded(r, a) => Founded(r, a)'
             /\ \A e : Backed(r, e) => Backed(r, e)'
             /\ LastIsRecorded(r)'
  <2>1. log[r] \subseteq log'[r]
    OBVIOUS
  <2>2. Attempts(r)' = Attempts(r)
    BY DEF Attempts, Of
  <2>3. LastIsRecorded(r)'
    BY DEF Grounded, LastIsRecorded, Of, ForecastRecorded, Outcomes
  <2> QED
    BY <2>1, <2>2, <2>3, BackingIsMonotone
<1> QED
  BY <1>1 DEF Grounded

LEMMA GroundedAppend ==
  ASSUME TypeInv, Grounded, NEW w \in Worker, AppendEntry(w)
  PROVE  Grounded'
<1> USE DEF TypeInv, TypeOK
<1>0. /\ call[w].at = "append"
      /\ call[w].req \in Request /\ call[w].entry \in Entry
      /\ call[w].next \in {"return", "refuse", "engine"}
  BY DEF AppendEntry, Call, Idle
<1> PICK q \in Request, x \in Entry, nx \in {"return", "refuse", "engine"},
         n \in Nat :
      /\ call[w].at = "append"
      /\ call[w].req = q /\ call[w].entry = x /\ call[w].next = nx
      /\ size[q] = n
  BY <1>0
<1> DEFINE e == Stamp(x, n)
<1>1. /\ Backed(q, x)
      /\ call' = [call EXCEPT ![w] = AfterAppend(call[w])]
      /\ last' = [last EXCEPT ![q] = Latest(last[q], x)]
  BY DEF AppendEntry, Grounded
<1>2. /\ e \in Entry /\ e.phase = x.phase
      /\ e.phase \in Executed => /\ e.attempt = x.attempt
                                 /\ e.receipt = x.receipt
      /\ e.phase \notin Executed => e = x
  BY <1>1, StampKeeps
<1>3. log' = [log EXCEPT ![q] = @ \cup {e}]
  BY DEF AppendEntry
<1>4. \A r \in Request : log[r] \subseteq log'[r]
  BY <1>1, <1>3
<1>5. /\ \A r \in Request : Attempts(r) \subseteq Attempts(r)'
      /\ \A r \in Request : \A a : Founded(r, a) => Founded(r, a)'
      /\ \A r \in Request : \A y : Backed(r, y) => Backed(r, y)'
  BY <1>4, BackingIsMonotone
<1>6. Backed(q, e)
  BY <1>1, <1>2 DEF Backed, Executed
<1>7. \A r \in Request : (\A y \in log[r] : Backed(r, y))'
  BY <1>1, <1>3, <1>5, <1>6 DEF Grounded
<1>8. e \in log'[q]
  BY <1>1, <1>3
<1>9. \A r \in Request : LastIsRecorded(r)'
  <2> TAKE r \in Request
  <2>1. CASE r # q
    <3>1. last'[r] = last[r] /\ log'[r] = log[r]
      BY <1>1, <1>3, <2>1
    <3> QED
      BY <3>1 DEF Grounded, LastIsRecorded, Of, ForecastRecorded, Outcomes
  <2>2. CASE r = q
    <3>1. last'[q] = Latest(last[q], x)
      BY <1>1
    <3>2. \A ph : Of(q, ph) \subseteq Of(q, ph)'
      BY <1>1, <1>4 DEF Of
    <3>3. e \in Of(q, e.phase)'
      BY <1>8 DEF Of
    <3>4. last'[q].plan # None =>
            (\E y \in Of(q, "plan") : y.plan = last[q].plan)'
      BY <1>1, <1>2, <3>1, <3>2, <3>3
      DEF Grounded, LastIsRecorded, Latest, Executed
    <3>5. last'[q].forecast # None => ForecastRecorded(q, last[q].forecast)'
      BY <1>1, <1>2, <3>1, <3>2, <3>3
      DEF Grounded, LastIsRecorded, Latest, Executed, ForecastRecorded
    <3>6. last'[q].receipt # None =>
            (\E y \in Outcomes(q) : y.receipt = last[q].receipt)'
      BY <1>1, <1>2, <3>1, <3>2, <3>3
      DEF Grounded, LastIsRecorded, Latest, Executed, Outcomes
    <3> QED
      BY <2>2, <3>4, <3>5, <3>6 DEF LastIsRecorded
  <2> QED
    BY <2>1, <2>2
<1>10. ASSUME NEW v \in Worker
       PROVE  /\ call'[v].at = "append" => Backed(call[v].req, call[v].entry)'
              /\ call'[v].at = "engine" =>
                   /\ call'[v].attempt \in Attempts(call[v].req)'
                   /\ Founded(call[v].req, call[v].attempt)'
  <2>1. CASE v # w
    <3>1. call'[v] = call[v]
      BY <1>1, <2>1
    <3>2. call[v].at # "idle" => call[v].req \in Request
      BY DEF Call, Idle
    <3> QED
      BY <1>5, <3>1, <3>2 DEF Grounded
  <2>2. CASE v = w
    <3>1. call'[w] = AfterAppend(call[w])
      BY <1>1
    <3>2. CASE nx = "return"
      BY <2>2, <3>1, <3>2 DEF AfterAppend, Idle
    <3>3. CASE nx = "refuse"
      BY <2>2, <3>1, <3>3 DEF AfterAppend, Backed
    <3>4. CASE nx = "engine"
      <4>1. x.phase = "execute_attempt"
        BY <3>4 DEF EngineFollowsAttempt, AppendEntry
      <4>2. x.attempt \in Attempts(q)'
        BY <1>2, <1>8, <4>1 DEF Attempts, Of, Executed
      <4>3. Founded(q, x.attempt)'
        BY <1>1, <1>5, <4>1 DEF Backed
      <4>4. /\ call'[w].at = "engine" /\ call'[w].req = q
            /\ call'[w].attempt = x.attempt
        BY <3>1, <3>4 DEF AfterAppend
      <4> QED
        BY <2>2, <4>2, <4>3, <4>4
    <3> QED
      BY <1>1, <3>2, <3>3, <3>4
  <2> QED
    BY <2>1, <2>2
<1>11. \A r \in Request : \A i \in 1 .. Len(ran'[r]) :
         ran'[r][i] \in Attempts(r)' /\ (Founded(r, ran[r][i]))'
  BY <1>5 DEF Grounded, AppendEntry
<1> QED
  BY <1>7, <1>9, <1>10, <1>11 DEF Grounded

LEMMA GroundedStep == TypeInv /\ Grounded /\ [Next]_vars => Grounded'
<1> SUFFICES ASSUME TypeInv, Grounded, [Next]_vars
             PROVE  Grounded'
  OBVIOUS
<1> USE DEF TypeInv, TypeOK
<1>1. ASSUME NEW w \in Worker, NEW r \in Request, Lets(w, r)
      PROVE  Grounded'
  <2> PICK e \in Entry, next \in {"return", "refuse", "engine"} :
             Admitted(r, e, next) /\ Begin(w, r, e, next)
    BY <1>1 DEF Lets
  <2>1. UNCHANGED <<log, last, ran>>
    BY DEF Begin
  <2>2. call' = [call EXCEPT ![w] = [at |-> "append", req |-> r, entry |-> e,
                                     next |-> next]]
    BY DEF Begin
  <2>3. ASSUME NEW v \in Worker
        PROVE  /\ call'[v].at = "append" => Backed(call[v].req, call[v].entry)'
               /\ call'[v].at = "engine" =>
                    /\ call'[v].attempt \in Attempts(call[v].req)'
                    /\ Founded(call[v].req, call[v].attempt)'
    <3>1. CASE v = w
      BY <2>1, <2>2, <3>1, GroundedSameLog DEF Admitted
    <3>2. CASE v # w
      <4>1. call'[v] = call[v]
        BY <2>2, <3>2
      <4>2. call[v].at # "idle" => call[v].req \in Request
        BY DEF Call, Idle
      <4> QED
        BY <2>1, <4>1, <4>2, GroundedSameLog DEF Grounded
    <3> QED
      BY <3>1, <3>2
  <2> QED
    BY <2>1, <2>3, GroundedSameLog DEF Grounded
<1>2. ASSUME NEW w \in Worker,
             \/ \E c \in Receipt : ExecuteStaged(w, c)
             \/ ExecutorRaises(w)
      PROVE  Grounded'
  <2>0. /\ call[w].at = "engine"
        /\ call[w].req \in Request /\ call[w].attempt \in Attempt
    <3>1. call[w].at = "engine"
      BY <1>2 DEF ExecuteStaged, ExecutorRaises
    <3> QED
      BY <3>1 DEF Call, Idle
  <2> PICK q \in Request, a \in Attempt :
         /\ call[w].at = "engine" /\ call[w].req = q /\ call[w].attempt = a
    BY <2>0
  <2>1. /\ UNCHANGED <<log, last>>
        /\ ran' = [ran EXCEPT ![q] = Append(ran[q], a)]
    BY <1>2 DEF ExecuteStaged, ExecutorRaises
  <2>2. a \in Attempts(q) /\ Founded(q, a)
    BY DEF Grounded
  <2>3. a \in Attempts(q)' /\ Founded(q, a)'
    BY <2>1, <2>2, GroundedSameLog
  <2>4. ASSUME NEW r \in Request, NEW i \in 1 .. Len(ran'[r])
        PROVE  ran'[r][i] \in Attempts(r)' /\ (Founded(r, ran[r][i]))'
    <3>1. CASE r = q /\ i = Len(ran[q]) + 1
      <4>1. ran'[r][i] = a
        BY <2>1, <3>1
      <4> QED
        BY <2>3, <3>1, <4>1
    <3>2. CASE ~(r = q /\ i = Len(ran[q]) + 1)
      <4> ran[r] \in Seq(Attempt)
        OBVIOUS
      <4>1. i \in 1 .. Len(ran[r]) /\ ran'[r][i] = ran[r][i]
        <5>1. CASE r # q
          BY <2>1, <5>1
        <5>2. CASE r = q
          <6>1. ran'[q] = Append(ran[q], a)
            BY <2>1
          <6> QED
            BY <3>2, <5>2, <6>1
        <5> QED
          BY <5>1, <5>2
      <4> QED
        BY <2>1, <4>1, GroundedSameLog DEF Grounded
    <3> QED
      BY <3>1, <3>2
  <2>5. ASSUME NEW v \in Worker
        PROVE  /\ call'[v].at = "append" => Backed(call[v].req, call[v].entry)'
               /\ call'[v].at = "engine" =>
                    /\ call'[v].attempt \in Attempts(call[v].req)'
                    /\ Founded(call[v].req, call[v].attempt)'
    <3>1. CASE v # w
      <4>1. call'[v] = call[v]
        BY <1>2, <3>1 DEF ExecuteStaged, ExecutorRaises
      <4>2. call[v].at # "idle" => call[v].req \in Request
        BY DEF Call, Idle
      <4> QED
        BY <2>1, <4>1, <4>2, GroundedSameLog DEF Grounded
    <3>2. CASE v = w /\ ExecutorRaises(w)
      BY <3>2 DEF ExecutorRaises, Idle
    <3>3. CASE v = w /\ \E c \in Receipt : ExecuteStaged(w, c)
      <4> PICK c \in Receipt : ExecuteStaged(w, c)
        BY <3>3
      <4> DEFINE e == [phase |-> "execute", attempt |-> a, receipt |-> c,
                       seq |-> 0]
      <4>1. call'[w] = [at |-> "append", req |-> q, entry |-> e,
                        next |-> "return"]
        BY DEF ExecuteStaged
      <4>2. Backed(q, e)'
        BY <2>3 DEF Backed
      <4> QED
        BY <3>3, <4>1, <4>2
    <3> QED
      BY <1>2, <3>1, <3>2, <3>3
  <2> QED
    BY <2>1, <2>4, <2>5, GroundedSameLog DEF Grounded
<1>3. ASSUME NEW w \in Worker, AppendEntry(w)
      PROVE  Grounded'
  BY <1>3, GroundedAppend
<1>4. CASE Crash
  BY <1>4, GroundedSameLog DEF Crash, Grounded, Idle
<1>5. CASE UNCHANGED vars
  <2>1. UNCHANGED <<log, last, call, ran>>
    BY <1>5 DEF vars
  <2>2. \A v \in Worker : call[v].at # "idle" => call[v].req \in Request
    BY DEF Call, Idle
  <2>3. /\ \A r \in Request : LastIsRecorded(r)'
        /\ \A r \in Request : (\A e \in log[r] : Backed(r, e))'
    BY <2>1, GroundedSameLog
  <2>4. \A r \in Request :
          /\ Attempts(r)' = Attempts(r)
          /\ \A b : Founded(r, b) => Founded(r, b)'
          /\ \A e : Backed(r, e) => Backed(r, e)'
    BY <2>1, GroundedSameLog
  <2>5. \A v \in Worker :
          (call[v].at = "append" => Backed(call[v].req, call[v].entry))'
    BY <2>1, <2>2, <2>4 DEF Grounded
  <2>6. \A v \in Worker :
          (call[v].at = "engine" =>
             /\ call[v].attempt \in Attempts(call[v].req)
             /\ Founded(call[v].req, call[v].attempt))'
    BY <2>1, <2>2, <2>4 DEF Grounded
  <2>7. \A r \in Request :
          (\A i \in 1 .. Len(ran[r]) : ran[r][i] \in Attempts(r) /\ Founded(r, ran[r][i]))'
    BY <2>1, <2>4 DEF Grounded
  <2> QED
    BY <2>1, <2>3, <2>5, <2>6, <2>7 DEF Grounded
<1> QED
  BY <1>1, <1>2, <1>3, <1>4, <1>5, Gates

LEMMA Invariance == Spec => [](TypeInv /\ Grounded)
<1>1. Init => TypeInv /\ Grounded
  BY TypeInit, GroundedInit
<1>2. TypeInv /\ Grounded /\ [Next]_vars => (TypeInv /\ Grounded)'
  BY TypeStep, GroundedStep
<1> QED
  BY <1>1, <1>2, PTL DEF Spec

\* Every reachable state is well-typed: in particular no gate lets through an
\* entry whose fields the audit could not read.
THEOREM TypeCorrect == Spec => []TypeOK
<1>1. TypeInv /\ Grounded => TypeOK
  BY DEF TypeInv
<1> QED
  BY <1>1, Invariance, PTL

\* Where every entry is backed, the audit finds nothing.
LEMMA BackedPassesTheAudit == TypeInv /\ Grounded => GatesAnswerTheAudit
<1> SUFFICES ASSUME TypeInv, Grounded, NEW r \in Request
             PROVE  BindingsHold(r)
  BY DEF GatesAnswerTheAudit
<1>1. \A e \in log[r] : Backed(r, e) /\ e \in Entry
  BY DEF Grounded, TypeInv, TypeOK
<1>2. ~PlanMismatch(r)
  BY <1>1 DEF Backed, PlanMismatch, Of
<1>3. ~ApprovalStale(r)
  BY <1>1 DEF Backed, ApprovalStale, Of
<1>4. ~OverAuthority(r)
  <2> SUFFICES ASSUME NEW e \in Of(r, "approve"),
                      e.forecast.tier > Authority[e.by]
               PROVE  FALSE
    BY DEF OverAuthority
  <2>1. /\ e.forecast.tier <= Authority[e.by]
        /\ e.forecast \in Forecast /\ e.by \in Principal
    BY <1>1, EntryFields DEF Of, Backed
  <2>2. e.forecast.tier \in Nat /\ Authority[e.by] \in Nat
    BY <2>1, ForecastAssumption, PrincipalAssumption
  <2> QED
    BY <2>1, <2>2
<1>5. ~NoAttempt(r) /\ ~NoForecast(r)
  BY <1>1 DEF Backed, Founded, NoAttempt, NoForecast, Of
<1>6. ~Unapproved(r)
  BY <1>1 DEF Backed, Founded, Unapproved, Of
<1>7. ~CloseUnverified(r)
  BY <1>1 DEF Backed, CloseUnverified, Of
<1>8. (\A e \in Of(r, "verify") : e.receipt \notin HandedIn) => ~NoReceipt(r)
  BY <1>1 DEF Backed, NoReceipt, Of
<1> QED
  BY <1>2, <1>3, <1>4, <1>5, <1>6, <1>7, <1>8 DEF BindingsHold

\* Whatever calls are made, by however many threads, verify_bindings finds
\* none of the incoherences the gates of the orchestrator are there to stop.
THEOREM AuditFindsNothing == Spec => []GatesAnswerTheAudit
  BY BackedPassesTheAudit, Invariance, PTL

\* The executor never runs a plan that was not recorded, forecast, attempted
\* and, unless autonomous, approved within the approver's tier.
THEOREM OnlyAuthorisedRuns == Spec => []RunsAreAuthorised
<1>1. Grounded => RunsAreAuthorised
  BY DEF Grounded, RunsAreAuthorised, Founded
<1> QED
  BY <1>1, Invariance, PTL

----------------------------------------------------------------------------
(* At most once, one call at a time.                                       *)

LEMMA NothingRanYetStep ==
  ASSUME OneAtATime, TypeInv, Grounded, NothingRanYet, [Next]_vars
  PROVE  NothingRanYet'
<1> USE DEF TypeInv, TypeOK
<1>1. ASSUME NEW w \in Worker, NEW r \in Request, Lets(w, r)
      PROVE  NothingRanYet'
  <2> PICK e \in Entry, next \in {"return", "refuse", "engine"} :
             Admitted(r, e, next) /\ Begin(w, r, e, next)
    BY <1>1 DEF Lets
  <2>1. UNCHANGED <<log, ran>>
    BY DEF Begin
  <2>2. \A q \in Request : Attempts(q)' = Attempts(q)
    BY <2>1 DEF Attempts, Of
  <2>3. \A v \in Worker : call'[v] = [at |-> "append", req |-> r, entry |-> e,
                                      next |-> next]
    BY DEF Begin, OneAtATime
  <2> QED
    BY <2>1, <2>2, <2>3 DEF NothingRanYet, Admitted
<1>2. ASSUME NEW w \in Worker,
             \/ \E c \in Receipt : ExecuteStaged(w, c)
             \/ ExecutorRaises(w)
      PROVE  NothingRanYet'
  <2>1. call[w].at = "engine"
    BY <1>2 DEF ExecuteStaged, ExecutorRaises
  <2>2. call[w].req \in Request /\ call[w].attempt \in Attempt
    BY <2>1 DEF Call, Idle
  <2> PICK q \in Request, a \in Attempt :
        call[w].req = q /\ call[w].attempt = a
    BY <2>2
  <2>3. log' = log /\ ran' = [ran EXCEPT ![q] = Append(ran[q], a)]
    BY <1>2 DEF ExecuteStaged, ExecutorRaises
  <2>4. ran[q] = <<>> /\ a \in Attempts(q)
    BY <2>1 DEF NothingRanYet, Grounded
  <2>5. \A r \in Request : Attempts(r)' = Attempts(r)
    BY <2>3 DEF Attempts, Of
  <2>6. \A r \in Request : Len(ran'[r]) <= 1
    BY <2>3, <2>4 DEF NothingRanYet
  <2>7. \A r \in Request : Attempts(r)' = {} => ran'[r] = <<>>
    BY <2>3, <2>4, <2>5 DEF NothingRanYet
  <2>8. ASSUME NEW v \in Worker
        PROVE  /\ call'[v].at # "engine"
               /\ call'[v].at = "append" =>
                    call'[v].entry.phase # "execute_attempt"
    BY <1>2 DEF ExecuteStaged, ExecutorRaises, OneAtATime, Idle
  <2> QED
    BY <2>6, <2>7, <2>8 DEF NothingRanYet
<1>3. ASSUME NEW w \in Worker, AppendEntry(w)
      PROVE  NothingRanYet'
  <2>1. /\ call[w].at = "append"
        /\ call[w].req \in Request /\ call[w].entry \in Entry
        /\ call[w].next \in {"return", "refuse", "engine"}
    BY <1>3 DEF AppendEntry, Call, Idle
  <2> PICK q \in Request : call[w].req = q
    BY <2>1
  <2>2. ran' = ran /\ call' = [call EXCEPT ![w] = AfterAppend(call[w])]
    BY <1>3 DEF AppendEntry
  <2>3. \A r \in Request : log[r] \subseteq log'[r]
    BY <1>3 DEF AppendEntry
  <2>4. \A r \in Request : Attempts(r) \subseteq Attempts(r)'
    BY <2>3, BackingIsMonotone
  <2>5. \A v \in Worker : call'[v] = AfterAppend(call[w])
    BY <2>2 DEF OneAtATime
  <2>6. CASE call[w].next = "engine"
    <3>1. ran[q] = <<>>
      BY <2>1, <2>6 DEF NothingRanYet, EngineFollowsAttempt
    <3>2. \A v \in Worker : call'[v].at = "engine" /\ call'[v].req = q
      BY <2>5, <2>6 DEF AfterAppend
    <3> QED
      BY <2>2, <2>4, <3>1, <3>2 DEF NothingRanYet
  <2>7. CASE call[w].next # "engine"
    <3>1. \A v \in Worker :
            /\ call'[v].at # "engine"
            /\ call'[v].at = "append" => call'[v].entry.phase = "refuse"
      BY <2>1, <2>5, <2>7 DEF AfterAppend, Idle
    <3> QED
      BY <2>2, <2>4, <3>1 DEF NothingRanYet
  <2> QED
    BY <2>6, <2>7
<1>4. CASE Crash
  <2>1. \A r \in Request : Attempts(r)' = Attempts(r)
    BY <1>4 DEF Crash, Attempts, Of
  <2>2. \A v \in Worker : call'[v].at # "append" /\ call'[v].at # "engine"
    BY <1>4 DEF Crash, Idle
  <2>3. ran' = ran
    BY <1>4 DEF Crash
  <2> QED
    BY <2>1, <2>2, <2>3 DEF NothingRanYet
<1>5. CASE UNCHANGED vars
  <2>1. \A r \in Request : Attempts(r)' = Attempts(r)
    BY <1>5 DEF vars, Attempts, Of
  <2>2. \A v \in Worker : call[v].at # "idle" => call[v].req \in Request
    BY DEF Call, Idle
  <2>3. call' = call /\ ran' = ran
    BY <1>5 DEF vars
  <2> QED
    BY <2>1, <2>2, <2>3 DEF NothingRanYet
<1> QED
  BY <1>1, <1>2, <1>3, <1>4, <1>5, Gates

\* With one call at a time, whatever crashes, re-planning, reconciliation and
\* retries come between, the executor runs at most once for a request.  The
\* hypothesis is needed: with two threads the run MCThreads refutes it.
THEOREM AtMostOnce ==
  ASSUME OneAtATime
  PROVE  Spec => []AppliedAtMostOnce
<1>1. Init => NothingRanYet
  BY DEF Init, NothingRanYet, Idle
<1>2. TypeInv /\ Grounded /\ NothingRanYet /\ [Next]_vars => NothingRanYet'
  BY OneAtATime, NothingRanYetStep
<1>3. NothingRanYet => AppliedAtMostOnce
  BY DEF NothingRanYet, AppliedAtMostOnce
<1> QED
  BY <1>1, <1>2, <1>3, Invariance, PTL DEF Spec

\* The crash window is visible to any number of threads: whatever ran was
\* attempted, so without an outcome there is something to reconcile.
THEOREM NoSilentCrash == Spec => []CrashWindowIsVisible
<1>1. TypeInv /\ Grounded => CrashWindowIsVisible
  <2> SUFFICES ASSUME TypeInv, Grounded, NEW r \in Request,
                      ran[r] # <<>>, Done(r) = {}
               PROVE  NextPhases(r) = {"reconcile"}
    BY DEF CrashWindowIsVisible
  <2>1. 1 \in 1 .. Len(ran[r])
    BY DEF TypeInv, TypeOK
  <2>2. ran[r][1] \in Attempts(r)
    BY <2>1 DEF Grounded
  <2>3. Unresolved(r) # {}
    BY <2>2 DEF Unresolved
  <2> QED
    BY <2>3 DEF NextPhases
<1> QED
  BY <1>1, Invariance, PTL

----------------------------------------------------------------------------
(* One call at a time: what a gate read still holds when its entry is      *)
(* appended and its plan is run.                                           *)

\* Done, over the outcomes.
LEMMA DoneIsOutcomes ==
  ASSUME NEW r \in Request
  PROVE  /\ Done(r) = {e.attempt : e \in Outcomes(r)}
         /\ Outcomes(r) = {} <=> Done(r) = {}
  BY DEF Done, Outcomes

\* A request has one attempt at most, and it has one outcome at most; what is
\* verified or closed has one.
Settled(r) ==
  /\ \A a, b \in Attempts(r) : a = b
  /\ \A e, x \in Outcomes(r) : e = x
  /\ \A e \in Outcomes(r) : e.attempt \in Attempts(r)
  /\ {"verify", "close"} \cap Recorded(r) # {} => Outcomes(r) # {}

\* What the gate that let e through has read.
Timely(r, e) ==
  /\ e.phase \notin {"refuse", "reconcile"} => ~Ended(r)
  /\ e.phase = "execute_attempt" => /\ Attempts(r) = {}
                                    /\ last[r].plan = e.attempt.plan
                                    /\ last[r].forecast = e.attempt.forecast
  /\ e.phase \in Executed => e.attempt \in Unresolved(r)
  /\ e.phase \in {"verify", "close"} => Outcomes(r) # {}

\* What is so between the append of the attempt and the executor's return.
Underway(r, a) ==
  /\ ~Ended(r)
  /\ a \in Unresolved(r)
  /\ last[r].plan = a.plan
  /\ last[r].forecast = a.forecast

InOrder ==
  /\ \A r \in Request : Settled(r)
  /\ \A w \in Worker :
       /\ call[w].at = "append" => Timely(call[w].req, call[w].entry)
       /\ call[w].at = "engine" => Underway(call[w].req, call[w].attempt)

\* Whatever handler begins a call has just read what Timely says.
LEMMA GatesAreTimely ==
  ASSUME TypeOK, NEW w \in Worker, NEW r \in Request, Settled(r),
         Prepare(w, r) \/ (\E p \in PlanHash : Execute(w, r, p)) \/ Settle(w, r)
  PROVE  /\ call'[w].at = "append"
         /\ call'[w].req = r
         /\ Timely(r, call'[w].entry)
<1> USE DEF TypeOK
<1> DEFINE Good == /\ call'[w].at = "append"
                   /\ call'[w].req = r
                   /\ Timely(r, call'[w].entry)
<1>1. ASSUME NEW e, NEW next, Timely(r, e), Begin(w, r, e, next)
      PROVE  Good
  <2>1. call'[w] = [at |-> "append", req |-> r, entry |-> e, next |-> next]
    BY <1>1 DEF Begin
  <2> QED
    BY <1>1, <2>1
<1>2. \A ph \in Phase : Require(r, ph) => ~Ended(r)
  BY DEF Require, Ended
<1>3. ASSUME NEW by \in Submitter, Observe(w, r, by)
      PROVE  Good
  BY <1>1, <1>2, <1>3 DEF Observe, Timely, Executed, Phase
<1>4. ASSUME NEW by \in Submitter, Analyze(w, r, by)
      PROVE  Good
  BY <1>1, <1>2, <1>4 DEF Analyze, Timely, Executed, Phase
<1>5. ASSUME NEW resolved \in BOOLEAN, Resolve(w, r, resolved)
      PROVE  Good
  BY <1>1, <1>2, <1>5 DEF Resolve, Timely, Executed, Phase
<1>6. ASSUME NEW p \in PlanHash, NEW by \in Submitter, Plan(w, r, p, by)
      PROVE  Good
  BY <1>1, <1>2, <1>6 DEF Plan, Timely, Executed, Phase
<1>7. ASSUME NEW f \in Forecast, Simulate(w, r, f)
      PROVE  Good
  BY <1>1, <1>2, <1>7 DEF Simulate, Timely, Executed, Phase
<1>8. ASSUME NEW f \in Forecast, NEW by \in Principal, Approve(w, r, f, by)
      PROVE  Good
  BY <1>1, <1>2, <1>8 DEF Approve, Timely, Executed, Phase
<1>9. ASSUME NEW p \in PlanHash, Execute(w, r, p)
      PROVE  Good
  <2> DEFINE a == [plan |-> p, forecast |-> last[r].forecast, at |-> size[r]]
             e == [phase |-> "execute_attempt", attempt |-> a]
  <2>1. ~Ended(r)
    BY <1>2, <1>9 DEF Execute, Phase
  <2>2. Attempts(r) = {}
    BY <1>9 DEF Execute, NotYetAttempted, Unresolved
  <2>3. last[r].plan = p
    BY <1>9 DEF Execute, IsRecordedPlan
  <2>4. Timely(r, e)
    BY <2>1, <2>2, <2>3 DEF Timely, Executed
  <2> QED
    BY <1>1, <1>9, <2>4 DEF Execute
<1>10. ASSUME NEW p \in PlanHash, NEW c \in Receipt, Reconcile(w, r, p, c)
       PROVE  Good
  <2> PICK a \in Unresolved(r) :
             Begin(w, r, [phase |-> "reconcile", attempt |-> a, plan |-> p,
                          receipt |-> c, seq |-> 0], "return")
    BY <1>10 DEF Reconcile
  <2> QED
    BY <1>1 DEF Timely, Executed
<1>11. ASSUME NEW c, NEW passed \in BOOLEAN, Verify(w, r, c, passed)
       PROVE  Good
  <2>1. {"execute", "reconcile"} \cap Recorded(r) # {}
    BY <1>11 DEF Verify, Require, Prerequisites, Phase, VerifiableAfter
  <2>2. Outcomes(r) # {}
    BY <2>1 DEF Recorded, Outcomes, Of
  <2>3. ~Ended(r)
    BY <1>2, <1>11 DEF Verify, Phase
  <2> QED
    BY <1>1, <1>11, <2>2, <2>3 DEF Verify, Timely, Executed
<1>12. ASSUME NEW c, Close(w, r, c)
       PROVE  Good
  <2>1. "verify" \in Recorded(r)
    BY <1>12 DEF Close, PassingVerification, Recorded, Of
  <2>2. Outcomes(r) # {}
    BY <2>1 DEF Settled
  <2>3. ~Ended(r)
    BY <1>2, <1>12 DEF Close, Phase
  <2> QED
    BY <1>1, <1>12, <2>2, <2>3 DEF Close, Timely, Executed
<1>13. ASSUME Refuse(w, r)
       PROVE  Good
  BY <1>1, <1>13 DEF Refuse, Timely, Executed
<1> QED
  BY <1>3, <1>4, <1>5, <1>6, <1>7, <1>8, <1>9, <1>10, <1>11, <1>12, <1>13
  DEF Prepare, Settle
\* What one append does to what the handlers read of its request.
LEMMA AppendReads ==
  ASSUME TypeInv, NEW w \in Worker, AppendEntry(w)
  PROVE  \E q \in Request, x \in Entry, e \in Entry :
           /\ call[w].at = "append" /\ call[w].req = q /\ call[w].entry = x
           /\ call[w].next \in {"return", "refuse", "engine"}
           /\ call' = [call EXCEPT ![w] = AfterAppend(call[w])]
           /\ e.phase = x.phase
           /\ x.phase \in Executed => /\ e.attempt = x.attempt
                                      /\ e.receipt = x.receipt
           /\ x.phase \notin Executed => e = x
           /\ log' = [log EXCEPT ![q] = @ \cup {e}]
           /\ last' = [last EXCEPT ![q] = Latest(@, x)]
           /\ ran' = ran
<1> USE DEF TypeInv, TypeOK
<1>1. /\ call[w].at = "append"
      /\ call[w].req \in Request /\ call[w].entry \in Entry
      /\ call[w].next \in {"return", "refuse", "engine"}
  BY DEF AppendEntry, Call, Idle
<1> DEFINE q == call[w].req
           x == call[w].entry
           e == Stamp(x, size[q])
<1>2. /\ e \in Entry /\ e.phase = x.phase
      /\ x.phase \in Executed => e.attempt = x.attempt /\ e.receipt = x.receipt
      /\ x.phase \notin Executed => e = x
  BY <1>1, StampKeeps
<1>3. /\ log' = [log EXCEPT ![q] = @ \cup {e}]
      /\ last' = [last EXCEPT ![q] = Latest(@, x)]
      /\ call' = [call EXCEPT ![w] = AfterAppend(call[w])]
      /\ ran' = ran
  BY DEF AppendEntry
<1> QED
  BY <1>1, <1>2, <1>3

\* The derived sets after one more entry.
LEMMA OneMore ==
  ASSUME NEW q \in Request, NEW e \in Entry, log \in [Request -> SUBSET Entry],
         log' = [log EXCEPT ![q] = @ \cup {e}]
  PROVE  /\ Recorded(q)' = Recorded(q) \cup {e.phase}
         /\ Attempts(q)' = Attempts(q) \cup
              (IF e.phase = "execute_attempt" THEN {e.attempt} ELSE {})
         /\ Outcomes(q)' = Outcomes(q) \cup
              (IF e.phase \in Executed THEN {e} ELSE {})
<1>1. log'[q] = log[q] \cup {e}
  OBVIOUS
<1>2. \A ph : Of(q, ph)' = Of(q, ph) \cup (IF e.phase = ph THEN {e} ELSE {})
  BY <1>1 DEF Of
<1>3. Recorded(q)' = Recorded(q) \cup {e.phase}
  BY <1>1 DEF Recorded
<1>4. Attempts(q)' = Attempts(q) \cup
        (IF e.phase = "execute_attempt" THEN {e.attempt} ELSE {})
  BY <1>2 DEF Attempts
<1>5. Outcomes(q)' = Outcomes(q) \cup
        (IF e.phase \in Executed THEN {e} ELSE {})
  BY <1>2 DEF Outcomes, Executed
<1> QED
  BY <1>3, <1>4, <1>5

\* A request whose journal a step leaves alone is read as before.
LEMMA SameReads ==
  ASSUME NEW r \in Request, log'[r] = log[r]
  PROVE  /\ Recorded(r)' = Recorded(r)
         /\ Attempts(r)' = Attempts(r)
         /\ Outcomes(r)' = Outcomes(r)
         /\ Done(r)' = Done(r)
         /\ Unresolved(r)' = Unresolved(r)
         /\ Ended(r)' = Ended(r)
  BY DEF Recorded, Attempts, Outcomes, Done, Unresolved, Ended, Of

LEMMA OrderedAppend ==
  ASSUME OneAtATime, TypeInv, InOrder, NEW w \in Worker, AppendEntry(w)
  PROVE  InOrder'
<1> PICK q \in Request, x \in Entry, e \in Entry :
           /\ call[w].at = "append" /\ call[w].req = q /\ call[w].entry = x
           /\ call[w].next \in {"return", "refuse", "engine"}
           /\ call' = [call EXCEPT ![w] = AfterAppend(call[w])]
           /\ e.phase = x.phase
           /\ x.phase \in Executed => /\ e.attempt = x.attempt
                                      /\ e.receipt = x.receipt
           /\ x.phase \notin Executed => e = x
           /\ log' = [log EXCEPT ![q] = @ \cup {e}]
           /\ last' = [last EXCEPT ![q] = Latest(@, x)]
           /\ ran' = ran
  BY AppendReads
<1> USE DEF TypeInv, TypeOK
<1>1. Timely(q, x) /\ Settled(q)
  BY DEF InOrder
<1>2. /\ Recorded(q)' = Recorded(q) \cup {x.phase}
      /\ Attempts(q)' = Attempts(q) \cup
           (IF x.phase = "execute_attempt" THEN {x.attempt} ELSE {})
      /\ Outcomes(q)' = Outcomes(q) \cup
           (IF x.phase \in Executed THEN {e} ELSE {})
  BY OneMore DEF Executed
<1>3. Outcomes(q) = {} <=> Done(q) = {}
  BY DoneIsOutcomes
<1>4. Settled(q)'
  <2>1. CASE x.phase = "execute_attempt"
    BY <1>1, <1>2, <2>1 DEF Settled, Timely, Executed
  <2>2. CASE x.phase \in Executed
    <3>1. x.attempt \in Attempts(q) /\ x.attempt \notin Done(q)
      BY <1>1, <2>2 DEF Timely, Unresolved
    <3>2. Outcomes(q) = {}
      <4> SUFFICES ASSUME NEW o \in Outcomes(q) PROVE FALSE
        OBVIOUS
      <4>1. o.attempt = x.attempt
        BY <1>1, <3>1 DEF Settled
      <4>2. o.attempt \in Done(q)
        BY DEF Done, Outcomes
      <4> QED
        BY <3>1, <4>1, <4>2
    <3> QED
      BY <1>1, <1>2, <2>2, <3>1, <3>2 DEF Settled, Executed
  <2>3. CASE x.phase \notin Executed \cup {"execute_attempt"}
    BY <1>1, <1>2, <2>3 DEF Settled, Timely, Executed
  <2> QED
    BY <2>1, <2>2, <2>3
<1>5. \A r \in Request : Settled(r)'
  <2> TAKE r \in Request
  <2>1. CASE r = q
    BY <1>4, <2>1
  <2>2. CASE r # q
    <3>1. log'[r] = log[r]
      BY <2>2
    <3>2. /\ Recorded(r)' = Recorded(r)
          /\ Attempts(r)' = Attempts(r)
          /\ Outcomes(r)' = Outcomes(r)
      BY <3>1, SameReads
    <3>3. Settled(r)
      BY DEF InOrder
    <3> QED
      BY <3>2, <3>3 DEF Settled
  <2> QED
    BY <2>1, <2>2
<1>6. \A v \in Worker : call'[v] = AfterAppend(call[w])
  BY DEF OneAtATime
<1>7. CASE call[w].next = "return"
  BY <1>5, <1>6, <1>7 DEF AfterAppend, Idle, InOrder
<1>8. CASE call[w].next = "refuse"
  BY <1>5, <1>6, <1>8 DEF AfterAppend, Timely, Executed, InOrder
<1>9. CASE call[w].next = "engine"
  <2>1. x.phase = "execute_attempt"
    BY <1>9 DEF EngineFollowsAttempt
  <2>2. ~Ended(q)'
    BY <1>1, <1>2, <2>1 DEF Timely, Ended
  <2>3. x.attempt \in Unresolved(q)'
    <3>1. Outcomes(q) = {} /\ Outcomes(q)' = {}
      BY <1>1, <1>2, <2>1 DEF Timely, Settled, Executed
    <3>2. Done(q)' = {}
      BY <3>1 DEF Done, Outcomes
    <3> QED
      BY <1>2, <2>1, <3>2 DEF Unresolved
  <2>4. last'[q].plan = x.attempt.plan /\ last'[q].forecast = x.attempt.forecast
    BY <1>1, <2>1 DEF Timely, Latest
  <2>5. Underway(q, x.attempt)'
    BY <2>2, <2>3, <2>4 DEF Underway
  <2> QED
    BY <1>5, <1>6, <1>9, <2>5 DEF AfterAppend, InOrder
<1> QED
  BY <1>7, <1>8, <1>9

LEMMA InOrderStep ==
  ASSUME OneAtATime, TypeInv, Grounded, InOrder, [Next]_vars
  PROVE  InOrder'
<1> USE DEF TypeInv, TypeOK
<1>1. ASSUME UNCHANGED <<log, last>>,
             \A v \in Worker :
               /\ call'[v].at = "append" =>
                    Timely(call'[v].req, call'[v].entry)
               /\ call'[v].at = "engine" =>
                    Underway(call'[v].req, call'[v].attempt)
      PROVE  InOrder'
  <2>1. \A r, e : Timely(r, e) => Timely(r, e)'
    BY <1>1 DEF Timely, Ended, Recorded, Attempts, Unresolved, Done, Outcomes, Of
  <2>2. \A r, a : Underway(r, a) => Underway(r, a)'
    BY <1>1 DEF Underway, Ended, Recorded, Attempts, Unresolved, Done, Of
  <2>3. \A r \in Request : Settled(r)'
    BY <1>1 DEF InOrder, Settled, Recorded, Attempts, Outcomes, Of
  <2> QED
    BY <1>1, <2>1, <2>2, <2>3 DEF InOrder
<1>2. ASSUME NEW w \in Worker, NEW r \in Request,
             Prepare(w, r) \/ (\E p \in PlanHash : Execute(w, r, p))
               \/ Settle(w, r)
      PROVE  InOrder'
  <2>1. LastIsRecorded(r) /\ \A x \in log[r] : Backed(r, x)
    BY DEF Grounded
  <2>2. Lets(w, r)
    BY <1>2, <2>1, PrepareLets, ExecuteLets, SettleLets
  <2>3. UNCHANGED <<log, last>>
    BY <2>2 DEF Lets, Begin
  <2>4. /\ call'[w].at = "append"
        /\ call'[w].req = r
        /\ Timely(r, call'[w].entry)
    BY <1>2, GatesAreTimely DEF InOrder
  <2> QED
    BY <1>1, <2>3, <2>4 DEF OneAtATime
<1>3. ASSUME NEW w \in Worker, NEW c \in Receipt, ExecuteStaged(w, c)
      PROVE  InOrder'
  <2> DEFINE e == [phase |-> "execute", attempt |-> call[w].attempt,
                   receipt |-> c, seq |-> 0]
  <2>1. call'[w] = [at |-> "append", req |-> call[w].req, entry |-> e,
                    next |-> "return"]
    BY <1>3 DEF ExecuteStaged
  <2>2. Underway(call[w].req, call[w].attempt)
    BY <1>3 DEF ExecuteStaged, InOrder
  <2>3. Timely(call[w].req, e)
    BY <2>2 DEF Underway, Timely, Executed
  <2> QED
    BY <1>1, <1>3, <2>1, <2>3 DEF ExecuteStaged, OneAtATime
<1>4. ASSUME NEW w \in Worker, ExecutorRaises(w)
      PROVE  InOrder'
  BY <1>1, <1>4 DEF ExecutorRaises, OneAtATime, Idle
<1>5. ASSUME NEW w \in Worker, AppendEntry(w)
      PROVE  InOrder'
  BY <1>5, OrderedAppend
<1>6. CASE Crash
  BY <1>1, <1>6 DEF Crash, Idle
<1>7. CASE UNCHANGED vars
  BY <1>1, <1>7 DEF vars, InOrder
<1> QED
  BY <1>2, <1>3, <1>4, <1>5, <1>6, <1>7 DEF Next
OneCallInv == TypeInv /\ Grounded /\ NothingRanYet /\ InOrder

LEMMA OneCallInvariance ==
  ASSUME OneAtATime
  PROVE  Spec => []OneCallInv
<1>1. Init => OneCallInv
  <2>1. Init => NothingRanYet
    BY DEF Init, NothingRanYet, Idle
  <2>2. Init => InOrder
    BY DEF Init, InOrder, Settled, Attempts, Outcomes, Recorded, Of, Idle
  <2> QED
    BY <2>1, <2>2, TypeInit, GroundedInit DEF OneCallInv
<1>2. OneCallInv /\ [Next]_vars => OneCallInv'
  BY OneAtATime, TypeStep, GroundedStep, NothingRanYetStep, InOrderStep
  DEF OneCallInv
<1> QED
  BY <1>1, <1>2, PTL DEF Spec

\* An attempt gets one outcome: what reconcile() found is never joined by the
\* execution it stood in for, nor by a second observation.
THEOREM OneOutcome ==
  ASSUME OneAtATime
  PROVE  Spec => []OneOutcomePerAttempt
<1>1. OneCallInv => OneOutcomePerAttempt
  BY DEF OneCallInv, InOrder, Settled, OneOutcomePerAttempt
<1> QED
  BY <1>1, OneCallInvariance, PTL

\* What an outcome settles: the one attempt there is.
LEMMA OutcomeSettles ==
  ASSUME NEW r \in Request, Settled(r), Outcomes(r) # {}
  PROVE  Attempts(r) # {} /\ Unresolved(r) = {}
<1> PICK o \in Outcomes(r) : TRUE
  OBVIOUS
<1>1. o.attempt \in Attempts(r)
  BY DEF Settled
<1>2. \A a \in Attempts(r) : a = o.attempt
  BY <1>1 DEF Settled
<1>3. o.attempt \in Done(r)
  BY DEF Done, Outcomes
<1> QED
  BY <1>1, <1>2, <1>3 DEF Unresolved

\* A closed request has nothing pending, and closing cited a receipt that a
\* passing verification cited.
THEOREM NothingPendingAtClose ==
  ASSUME OneAtATime
  PROVE  Spec => []ClosedIsSettled
<1>1. OneCallInv => ClosedIsSettled
  <2> SUFFICES ASSUME OneCallInv, NEW r \in Request, "close" \in Recorded(r)
               PROVE  /\ Attempts(r) # {} /\ Unresolved(r) = {}
                      /\ ~CloseUnverified(r)
    BY DEF ClosedIsSettled
  <2>1. Settled(r) /\ Outcomes(r) # {}
    BY DEF OneCallInv, InOrder, Settled
  <2>2. ~CloseUnverified(r)
    BY DEF OneCallInv, Grounded, Backed, CloseUnverified, Of
  <2> QED
    BY <2>1, <2>2, OutcomeSettles
<1> QED
  BY <1>1, OneCallInvariance, PTL

\* After CLOSE or REFUSE nothing runs, and nothing is recorded but a further
\* refusal or what reconcile() finds out.
THEOREM NoWorkAfterTheEnd ==
  ASSUME OneAtATime
  PROVE  Spec => EndedAdmitsNoWork
<1>1. OneCallInv /\ [Next]_vars =>
        [\A r \in Request : Ended(r) =>
           /\ ran'[r] = ran[r]
           /\ \A e \in log'[r] \ log[r] : e.phase \in {"refuse", "reconcile"}]_vars
  <2> SUFFICES ASSUME OneCallInv, Next, NEW r \in Request, Ended(r)
               PROVE  /\ ran'[r] = ran[r]
                      /\ \A e \in log'[r] \ log[r] :
                           e.phase \in {"refuse", "reconcile"}
    OBVIOUS
  <2> USE DEF OneCallInv, TypeInv, TypeOK
  <2>1. ASSUME NEW w \in Worker, NEW q \in Request, Lets(w, q)
        PROVE  log' = log /\ ran' = ran
    BY <2>1 DEF Lets, Begin
  <2>2. ASSUME NEW w \in Worker,
               (\E c \in Receipt : ExecuteStaged(w, c)) \/ ExecutorRaises(w)
        PROVE  log' = log /\ ran'[r] = ran[r]
    <3>1. /\ call[w].at = "engine" /\ log' = log
          /\ ran' = [ran EXCEPT ![call[w].req] = Append(@, call[w].attempt)]
      BY <2>2 DEF ExecuteStaged, ExecutorRaises
    <3>2. Underway(call[w].req, call[w].attempt)
      BY <3>1 DEF InOrder
    <3>3. call[w].req # r
      BY <3>2 DEF Underway
    <3> QED
      BY <3>1, <3>3
  <2>3. ASSUME NEW w \in Worker, AppendEntry(w)
        PROVE  /\ ran' = ran
               /\ \A e \in log'[r] \ log[r] : e.phase \in {"refuse", "reconcile"}
    <3> PICK q \in Request, x \in Entry, e \in Entry :
               /\ call[w].at = "append" /\ call[w].req = q /\ call[w].entry = x
               /\ e.phase = x.phase
               /\ log' = [log EXCEPT ![q] = @ \cup {e}]
               /\ ran' = ran
      <4> TypeInv
        OBVIOUS
      <4> HIDE DEF TypeInv, TypeOK
      <4> QED
        BY <2>3, AppendReads
    <3>1. Timely(q, x)
      BY DEF InOrder
    <3>2. q = r => x.phase \in {"refuse", "reconcile"}
      BY <3>1 DEF Timely
    <3> QED
      BY <3>2
  <2>4. CASE Crash
    BY <2>4 DEF Crash
  <2> QED
    BY <2>1, <2>2, <2>3, <2>4, Gates
<1> QED
  BY <1>1, OneCallInvariance, PTL DEF Spec, EndedAdmitsNoWork

----------------------------------------------------------------------------
(* The orchestrator keeps the promise of ChangeControl, one call at a time.*)

\* The abstract state of one request, as its journal shows it.
Started(r) == {a.plan : a \in Attempts(r)}
Touches(r) == [i \in 1 .. Len(ran[r]) |-> ran[r][i].plan]
IsSettled(r) == Attempts(r) # {} /\ Unresolved(r) = {}
EndOf(r) == IF "close" \in Recorded(r) THEN "closed"
            ELSE IF "refuse" \in Recorded(r) THEN "refused" ELSE "open"

granted == [r \in Request |-> Granted(r)]
started == [r \in Request |-> Started(r)]
touches == [r \in Request |-> Touches(r)]
settled == [r \in Request |-> IsSettled(r)]
ended   == [r \in Request |-> EndOf(r)]

LEMMA PromiseStutter ==
  ASSUME UNCHANGED <<granted, started, touches, settled, ended>>
  PROVE  UNCHANGED Promise!ccvars
  BY DEF Promise!ccvars, granted, started, touches, settled, ended, Started,
         Touches, IsSettled, EndOf

\* The abstract state that a step of request q alone changes.
LEMMA PromiseOfOne ==
  ASSUME NEW q \in Request,
         \A r \in Request \ {q} : log'[r] = log[r] /\ ran'[r] = ran[r]
  PROVE  /\ granted' = [granted EXCEPT ![q] = Granted(q)']
         /\ started' = [started EXCEPT ![q] = Started(q)']
         /\ touches' = [touches EXCEPT ![q] = Touches(q)']
         /\ settled' = [settled EXCEPT ![q] = IsSettled(q)']
         /\ ended'   = [ended EXCEPT ![q] = EndOf(q)']
<1>1. ASSUME NEW r \in Request \ {q}
      PROVE  /\ Granted(r)' = Granted(r)
             /\ Started(r)' = Started(r)
             /\ Touches(r)' = Touches(r)
             /\ IsSettled(r)' = IsSettled(r)
             /\ EndOf(r)' = EndOf(r)
  <2>1. log'[r] = log[r] /\ ran'[r] = ran[r]
    BY <1>1
  <2>2. Granted(r)' = Granted(r)
    BY <2>1 DEF Granted, Authorised, Of
  <2>3. /\ Started(r)' = Started(r)
        /\ IsSettled(r)' = IsSettled(r)
        /\ EndOf(r)' = EndOf(r)
    BY <2>1, SameReads DEF Started, IsSettled, EndOf
  <2>4. Touches(r)' = Touches(r)
    BY <2>1 DEF Touches
  <2> QED
    BY <2>2, <2>3, <2>4
<1> QED
  BY <1>1 DEF granted, started, touches, settled, ended

\* A forecast or an approval grants its own plan, or nothing; no other entry
\* grants anything.
LEMMA GrantedByAppend ==
  ASSUME NEW q \in Request, NEW e \in Entry,
         log \in [Request -> SUBSET Entry],
         log' = [log EXCEPT ![q] = @ \cup {e}], Backed(q, e)
  PROVE  /\ e.phase \notin {"simulate", "approve"} => Granted(q)' = Granted(q)
         /\ e.phase \in {"simulate", "approve"} =>
              /\ e.forecast.plan \in PlanHash
              /\ Granted(q)' \in {Granted(q), Granted(q) \cup {e.forecast.plan}}
<1>1. \A ph : Of(q, ph)' = Of(q, ph) \cup (IF e.phase = ph THEN {e} ELSE {})
  BY DEF Of
<1>2. CASE e.phase = "simulate"
  <2>1. \A f : Authorised(q, f)' <=> Authorised(q, f)
    BY <1>1, <1>2 DEF Authorised
  <2>2. Of(q, "simulate")' = Of(q, "simulate") \cup {e}
    BY <1>1, <1>2
  <2>3. Granted(q) = {x.forecast.plan : x \in {y \in Of(q, "simulate") :
                                                 Authorised(q, y.forecast)}}
    BY DEF Granted
  <2>4. Granted(q)' = {x.forecast.plan : x \in {y \in Of(q, "simulate") \cup {e} :
                                                  Authorised(q, y.forecast)}}
    BY <2>1, <2>2 DEF Granted
  <2>5. Granted(q)' = IF Authorised(q, e.forecast)
                      THEN Granted(q) \cup {e.forecast.plan} ELSE Granted(q)
    BY <2>3, <2>4
  <2>6. e.forecast \in Forecast
    BY <1>2, EntryFields
  <2> QED
    BY <1>2, <2>5, <2>6, ForecastAssumption
<1>3. CASE e.phase = "approve"
  <2>1. \A f : Authorised(q, f)' <=> Authorised(q, f) \/ f = e.forecast
    BY <1>1, <1>3 DEF Authorised
  <2>2. Of(q, "simulate")' = Of(q, "simulate")
    BY <1>1, <1>3
  <2>3. PICK s \in Of(q, "simulate") : s.forecast = e.forecast
    BY <1>3 DEF Backed, ForecastRecorded
  <2>4. Granted(q) = {x.forecast.plan : x \in {y \in Of(q, "simulate") :
                                                 Authorised(q, y.forecast)}}
    BY DEF Granted
  <2>5. Granted(q)' = {x.forecast.plan : x \in {y \in Of(q, "simulate") :
                          Authorised(q, y.forecast) \/ y.forecast = e.forecast}}
    BY <2>1, <2>2 DEF Granted
  <2>6. Granted(q)' = Granted(q) \cup {e.forecast.plan}
    BY <2>3, <2>4, <2>5
  <2>7. e.forecast \in Forecast
    BY <1>3, EntryFields
  <2> QED
    BY <1>3, <2>6, <2>7, ForecastAssumption
<1>4. CASE e.phase \notin {"simulate", "approve"}
  <2>1. Of(q, "simulate")' = Of(q, "simulate") /\ Of(q, "approve")' = Of(q, "approve")
    BY <1>1, <1>4
  <2>2. \A f : Authorised(q, f)' <=> Authorised(q, f)
    BY <2>1 DEF Authorised
  <2> QED
    BY <1>4, <2>1, <2>2 DEF Granted
<1> QED
  BY <1>2, <1>3, <1>4

\* Every append is a step of the promise, or hidden from it.
LEMMA AppendKeepsPromise ==
  ASSUME OneAtATime, OneCallInv, NEW w \in Worker, AppendEntry(w)
  PROVE  Promise!CCNext \/ UNCHANGED Promise!ccvars
<1>0. TypeInv /\ TypeOK
  BY DEF OneCallInv, TypeInv
<1> PICK q \in Request, x \in Entry, e \in Entry :
           /\ call[w].at = "append" /\ call[w].req = q /\ call[w].entry = x
           /\ e.phase = x.phase
           /\ x.phase \in Executed => /\ e.attempt = x.attempt
                                      /\ e.receipt = x.receipt
           /\ x.phase \notin Executed => e = x
           /\ log' = [log EXCEPT ![q] = @ \cup {e}]
           /\ ran' = ran
  BY <1>0, AppendReads
<1>1. log \in [Request -> SUBSET Entry] /\ ran \in [Request -> Seq(Attempt)]
  BY <1>0 DEF TypeOK
<1>2. Settled(q) /\ Timely(q, x) /\ Backed(q, x) /\ Settled(q)'
  <2>1. InOrder'
    BY <1>0, OrderedAppend DEF OneCallInv
  <2> QED
    BY <2>1 DEF OneCallInv, InOrder, Grounded
<1>3. /\ Recorded(q)' = Recorded(q) \cup {x.phase}
      /\ Attempts(q)' = Attempts(q) \cup
           (IF x.phase = "execute_attempt" THEN {x.attempt} ELSE {})
      /\ Outcomes(q)' = Outcomes(q) \cup
           (IF x.phase \in Executed THEN {e} ELSE {})
  BY <1>1, OneMore DEF Executed
<1>4. \A r \in Request \ {q} : log'[r] = log[r] /\ ran'[r] = ran[r]
  BY <1>1
<1>5. /\ granted' = [granted EXCEPT ![q] = Granted(q)']
      /\ started' = [started EXCEPT ![q] = Started(q)']
      /\ touches' = [touches EXCEPT ![q] = Touches(q)']
      /\ settled' = [settled EXCEPT ![q] = IsSettled(q)']
      /\ ended' = [ended EXCEPT ![q] = EndOf(q)']
  BY <1>4, PromiseOfOne
<1>7. /\ granted[q] = Granted(q) /\ started[q] = Started(q)
      /\ touches[q] = Touches(q) /\ settled[q] = IsSettled(q)
      /\ ended[q] = EndOf(q)
  BY DEF granted, started, touches, settled, ended
<1>6. /\ Granted(q)' = Granted(q) => granted' = granted
      /\ Started(q)' = Started(q) => started' = started
      /\ Touches(q)' = Touches(q) => touches' = touches
      /\ (IsSettled(q)' <=> IsSettled(q)) => settled' = settled
      /\ EndOf(q)' = EndOf(q) => ended' = ended
  <2>1. Granted(q)' = Granted(q) => granted' = granted
    BY <1>5, <1>7 DEF granted
  <2>2. Started(q)' = Started(q) => started' = started
    BY <1>5, <1>7 DEF started
  <2>3. Touches(q)' = Touches(q) => touches' = touches
    BY <1>5, <1>7 DEF touches
  <2>4. (IsSettled(q)' <=> IsSettled(q)) => settled' = settled
    <3>1. (IsSettled(q)' <=> IsSettled(q)) => IsSettled(q)' = IsSettled(q)
      BY DEF IsSettled
    <3> QED
      BY <1>5, <1>7, <3>1 DEF settled
  <2>5. EndOf(q)' = EndOf(q) => ended' = ended
    BY <1>5, <1>7 DEF ended
  <2> QED
    BY <2>1, <2>2, <2>3, <2>4, <2>5
<1>8. Touches(q)' = Touches(q)
  BY DEF Touches
<1>9. x.phase # "execute_attempt" => Started(q)' = Started(q)
  BY <1>3 DEF Started
<1>10. x.phase \notin {"execute_attempt", "execute", "reconcile"} =>
         IsSettled(q)' = IsSettled(q)
  <2> SUFFICES ASSUME x.phase \notin {"execute_attempt", "execute", "reconcile"}
               PROVE  IsSettled(q)' = IsSettled(q)
    OBVIOUS
  <2>1. Attempts(q)' = Attempts(q) /\ Outcomes(q)' = Outcomes(q)
    BY <1>3 DEF Executed
  <2>2. Done(q)' = Done(q)
    BY <2>1, DoneIsOutcomes DEF Done, Outcomes
  <2> QED
    BY <2>1, <2>2 DEF IsSettled, Unresolved
<1>11. x.phase \notin {"close", "refuse"} => EndOf(q)' = EndOf(q)
  BY <1>3 DEF EndOf
<1>12. ~Ended(q) => EndOf(q) = "open"
  BY DEF Ended, EndOf
<1>13. x.phase \notin {"simulate", "approve"} => Granted(q)' = Granted(q)
  <2>1. Backed(q, e)
    BY <1>2 DEF Backed, Executed
  <2> QED
    BY <1>1, <2>1, GrantedByAppend
<1>14. ASSUME x.phase \in {"simulate", "approve"}
       PROVE  \/ UNCHANGED Promise!ccvars
              \/ \E p \in PlanHash : Promise!Grant(q, p)
  <2>1. /\ x.forecast.plan \in PlanHash
        /\ Granted(q)' \in {Granted(q), Granted(q) \cup {x.forecast.plan}}
    BY <1>1, <1>2, <1>14, GrantedByAppend DEF Executed
  <2>2. UNCHANGED <<started, touches, settled, ended>>
    BY <1>6, <1>8, <1>9, <1>10, <1>11, <1>14
  <2>3. ended[q] = "open"
    BY <1>2, <1>7, <1>12, <1>14 DEF Timely
  <2>4. CASE Granted(q)' = Granted(q)
    <3>1. UNCHANGED granted
      BY <1>5, <1>7, <2>4 DEF granted
    <3> QED
      BY <2>2, <3>1, PromiseStutter
  <2>5. CASE Granted(q)' = Granted(q) \cup {x.forecast.plan}
    <3>1. granted' = [granted EXCEPT ![q] = @ \cup {x.forecast.plan}]
      BY <1>5, <1>7, <2>5
    <3>2. Promise!Grant(q, x.forecast.plan)
      BY <2>2, <2>3, <3>1
      DEF Promise!Grant, granted, started, touches, settled, ended, Started,
          Touches, IsSettled, EndOf
    <3> QED
      BY <2>1, <3>2
  <2> QED
    BY <2>1, <2>4, <2>5
<1>15. ASSUME x.phase = "execute_attempt"
       PROVE  \E p \in PlanHash : Promise!Start(q, p)
  <2> DEFINE a == x.attempt
  <2>1. a \in Attempt /\ a.plan \in PlanHash
    BY <1>15, EntryFields DEF Attempt
  <2>2. Attempts(q) = {} /\ Attempts(q)' = {a}
    BY <1>2, <1>3, <1>15 DEF Timely
  <2>3. Started(q) = {} /\ Started(q)' = {a.plan}
    BY <2>2 DEF Started
  <2>4. a.plan \in Granted(q)
    BY <1>2, <1>15 DEF Backed, Founded, Granted, Authorised, ForecastRecorded
  <2>5. ended[q] = "open"
    BY <1>2, <1>7, <1>12, <1>15 DEF Timely
  <2>6. ~IsSettled(q)
    BY <2>2 DEF IsSettled
  <2>7. ~IsSettled(q)'
    <3>1. Outcomes(q) = {} /\ Outcomes(q)' = {}
      BY <1>2, <1>3, <1>15, <2>2 DEF Settled, Executed
    <3>2. Done(q)' = {}
      BY <3>1 DEF Done, Outcomes
    <3> QED
      BY <2>2, <3>2 DEF IsSettled, Unresolved
  <2>8. UNCHANGED <<granted, touches, settled, ended>>
    BY <1>6, <1>8, <1>11, <1>13, <1>15, <2>6, <2>7
  <2>9. started' = [started EXCEPT ![q] = {a.plan}]
    BY <1>5, <2>3
  <2>10. Promise!Start(q, a.plan)
    BY <1>7, <2>3, <2>4, <2>5, <2>8, <2>9
    DEF Promise!Start, granted, started, touches, settled, ended, Started,
        Touches, IsSettled, EndOf
  <2> QED
    BY <2>1, <2>10
<1>16. ASSUME x.phase \in Executed
       PROVE  Promise!LearnOutcome(q)
  <2>1. x.attempt \in Unresolved(q)
    BY <1>2, <1>16 DEF Timely
  <2>2. Attempts(q) # {} /\ ~IsSettled(q)
    BY <2>1 DEF IsSettled, Unresolved
  <2>3. started[q] # {}
    BY <1>7, <2>2 DEF Started
  <2>4. Outcomes(q)' # {}
    BY <1>3, <1>16
  <2>5. IsSettled(q)'
    <3>1. \A a, b \in Attempts(q)' : a = b
      BY <1>2 DEF Settled
    <3>2. x.attempt \in Done(q)'
      BY <1>3, <1>16 DEF Done, Outcomes
    <3>3. x.attempt \in Attempts(q)'
      BY <1>3, <2>1 DEF Unresolved
    <3> QED
      BY <3>1, <3>2, <3>3 DEF IsSettled, Unresolved
  <2>6. UNCHANGED <<granted, started, touches, ended>>
    BY <1>6, <1>8, <1>9, <1>11, <1>13, <1>16 DEF Executed
  <2>7. settled' = [settled EXCEPT ![q] = TRUE]
    BY <1>5, <2>5 DEF IsSettled
  <2> QED
    BY <1>7, <2>2, <2>3, <2>6, <2>7
    DEF Promise!LearnOutcome, granted, started, touches, settled, ended, Started,
        Touches, IsSettled, EndOf
<1>17. ASSUME x.phase = "close"
       PROVE  Promise!EndClosed(q)
  <2>1. Outcomes(q) # {} /\ ~Ended(q)
    BY <1>2, <1>17 DEF Timely
  <2>2. IsSettled(q)
    BY <1>2, <2>1, OutcomeSettles DEF IsSettled
  <2>3. UNCHANGED <<granted, started, touches, settled>>
    BY <1>6, <1>8, <1>9, <1>10, <1>13, <1>17
  <2>4. ended[q] = "open" /\ ended' = [ended EXCEPT ![q] = "closed"]
    BY <1>3, <1>5, <1>7, <1>12, <1>17, <2>1 DEF EndOf
  <2> QED
    BY <1>7, <2>2, <2>3, <2>4
    DEF Promise!EndClosed, granted, started, touches, settled, ended, Started,
        Touches, IsSettled, EndOf
<1>18. ASSUME x.phase = "refuse"
       PROVE  UNCHANGED Promise!ccvars \/ Promise!EndRefused(q)
  <2>1. UNCHANGED <<granted, started, touches, settled>>
    BY <1>6, <1>8, <1>9, <1>10, <1>13, <1>18
  <2>2. CASE Ended(q)
    <3>1. EndOf(q)' = EndOf(q)
      BY <1>3, <1>18, <2>2 DEF EndOf, Ended
    <3>2. UNCHANGED ended
      BY <1>5, <1>7, <3>1 DEF ended
    <3> QED
      BY <2>1, <3>2, PromiseStutter
  <2>3. CASE ~Ended(q)
    <3>1. ended[q] = "open" /\ ended' = [ended EXCEPT ![q] = "refused"]
      BY <1>3, <1>5, <1>7, <1>12, <1>18, <2>3 DEF EndOf, Ended
    <3>2. Promise!EndRefused(q)
      BY <2>1, <3>1
      DEF Promise!EndRefused, granted, started, touches, settled, ended, Started,
          Touches, IsSettled, EndOf
    <3> QED
      BY <3>2
  <2> QED
    BY <2>2, <2>3
<1>19. ASSUME x.phase \in {"observe", "analyze", "resolve", "plan", "verify"}
       PROVE  UNCHANGED Promise!ccvars
  <2>1. UNCHANGED <<granted, started, touches, settled, ended>>
    BY <1>6, <1>8, <1>9, <1>10, <1>11, <1>13, <1>19
  <2> QED
    BY <2>1, PromiseStutter
<1>20. x.phase \in Phase
  BY EntryFields
<1> QED
  BY <1>14, <1>15, <1>16, <1>17, <1>18, <1>19, <1>20
  DEF Phase, Executed, Promise!CCNext
\* The run of the executor, whether it returns or raises, is the one touch.
LEMMA RunKeepsPromise ==
  ASSUME OneCallInv, NEW w \in Worker,
         (\E c \in Receipt : ExecuteStaged(w, c)) \/ ExecutorRaises(w)
  PROVE  \E r \in Request : \E p \in PlanHash : Promise!Touch(r, p)
<1>0. TypeInv /\ TypeOK
  BY DEF OneCallInv, TypeInv
<1>1. /\ call[w].at = "engine" /\ log' = log
      /\ ran' = [ran EXCEPT ![call[w].req] = Append(@, call[w].attempt)]
  BY DEF ExecuteStaged, ExecutorRaises
<1>2. call[w].req \in Request /\ call[w].attempt \in Attempt
  BY <1>0, <1>1 DEF TypeOK, Call, Idle
<1> PICK q \in Request, a \in Attempt : call[w].req = q /\ call[w].attempt = a
  BY <1>2
<1>3. Underway(q, a) /\ ran[q] = <<>>
  BY <1>1 DEF OneCallInv, InOrder, NothingRanYet
<1>4. ran'[q] = <<a>>
  BY <1>0, <1>1, <1>3 DEF TypeOK
<1>5. \A r \in Request \ {q} : log'[r] = log[r] /\ ran'[r] = ran[r]
  BY <1>0, <1>1 DEF TypeOK
<1>6. Touches(q) = <<>> /\ Touches(q)' = <<a.plan>>
  <2>1. Len(ran[q]) = 0 /\ Len(ran'[q]) = 1 /\ ran'[q][1] = a
    BY <1>3, <1>4
  <2>2. Touches(q)' = [i \in 1 .. 1 |-> a.plan]
    BY <2>1 DEF Touches
  <2>3. Touches(q) = [i \in 1 .. 0 |-> ran[q][i].plan]
    BY <2>1 DEF Touches
  <2> QED
    BY <2>2, <2>3
<1>7. touches[q] = <<>> /\ touches' = [touches EXCEPT ![q] = <<a.plan>>]
  BY <1>5, <1>6, PromiseOfOne DEF touches
<1>8. /\ ended[q] = "open"
      /\ a.plan \in started[q]
      /\ ~settled[q]
  BY <1>3 DEF Underway, Ended, EndOf, Unresolved, Started, IsSettled, ended,
      started, settled
<1>9. UNCHANGED <<granted, started, settled, ended>>
  BY <1>1 DEF granted, started, settled, ended, Granted, Authorised, Started,
      IsSettled, EndOf, Attempts, Unresolved, Done, Recorded, Of
<1>10. a.plan \in PlanHash
  BY DEF Attempt
<1>11. Promise!Touch(q, a.plan)
  BY <1>7, <1>8, <1>9
  DEF Promise!Touch, granted, started, touches, settled, ended, Started,
      Touches, IsSettled, EndOf
<1> QED
  BY <1>10, <1>11

LEMMA StepKeepsPromise ==
  ASSUME OneAtATime, OneCallInv, [Next]_vars
  PROVE  [Promise!CCNext]_(Promise!ccvars)
<1>1. ASSUME UNCHANGED <<log, ran>>
      PROVE  UNCHANGED Promise!ccvars
  <2>1. UNCHANGED <<granted, started, touches, settled, ended>>
    BY <1>1 DEF granted, started, touches, settled, ended, Granted, Authorised,
        Started, Touches, IsSettled, EndOf, Attempts, Unresolved, Done,
        Recorded, Of
  <2> QED
    BY <2>1, PromiseStutter
<1>2. ASSUME NEW w \in Worker, NEW r \in Request, Lets(w, r)
      PROVE  UNCHANGED Promise!ccvars
  BY <1>1, <1>2 DEF Lets, Begin
<1>3. ASSUME NEW w \in Worker,
             (\E c \in Receipt : ExecuteStaged(w, c)) \/ ExecutorRaises(w)
      PROVE  Promise!CCNext
  BY <1>3, RunKeepsPromise DEF Promise!CCNext
<1>4. ASSUME NEW w \in Worker, AppendEntry(w)
      PROVE  Promise!CCNext \/ UNCHANGED Promise!ccvars
  BY <1>4, AppendKeepsPromise
<1>5. CASE Crash
  BY <1>1, <1>5 DEF Crash
<1>6. CASE UNCHANGED vars
  BY <1>1, <1>6 DEF vars
<1> QED
  BY <1>2, <1>3, <1>4, <1>5, <1>6, Gates DEF OneCallInv, TypeInv

\* Seen through its journal, every behaviour of the orchestrator is one that
\* the promise allows: a plan starts once and only if granted, touches the
\* engine once and only between its start and its outcome, and a request is
\* closed only when that outcome is known.
THEOREM PromiseKept ==
  ASSUME OneAtATime
  PROVE  Spec => KeepsThePromise
<1>1. Init => Promise!CCInit
  <2> SUFFICES ASSUME Init PROVE Promise!CCInit
    OBVIOUS
  <2>1. ASSUME NEW r \in Request
        PROVE  /\ Granted(r) = {} /\ Attempts(r) = {} /\ Recorded(r) = {}
               /\ Len(ran[r]) = 0
    BY DEF Init, Granted, Attempts, Recorded, Of
  <2>2. \A r \in Request : [i \in 1 .. Len(ran[r]) |-> ran[r][i].plan] = <<>>
    <3> TAKE r \in Request
    <3>1. [i \in 1 .. Len(ran[r]) |-> ran[r][i].plan]
            = [i \in 1 .. 0 |-> ran[r][i].plan]
      BY <2>1
    <3> QED
      BY <3>1
  <2> QED
    BY <2>1, <2>2 DEF Promise!CCInit
<1>2. OneCallInv /\ [Next]_vars => [Promise!CCNext]_(Promise!ccvars)
  BY StepKeepsPromise
<1> QED
  BY <1>1, <1>2, OneCallInvariance, PTL
  DEF Spec, KeepsThePromise, Promise!CCSpec

----------------------------------------------------------------------------
(* The routes of the HTTP surface.                                         *)

Cited(r, c) == \E x \in Outcomes(r) : x.receipt = c

\* A receipt that is held, read, about to be set, or cited by a verification
\* (recorded, or on its way to the journal) is the one of a recorded outcome.
ReceiptsAreRecorded ==
  /\ \A r \in Request : reg[r].receipt # None => Cited(r, reg[r].receipt)
  /\ \A w \in Worker :
       handler[w].at \in {"read", "sets"} /\ handler[w].kind = "receipt"
         => Cited(handler[w].req, handler[w].value)
  /\ \A r \in Request : \A e \in Of(r, "verify") : Cited(r, e.receipt)
  /\ \A w \in Worker :
       call[w].at = "append" /\ call[w].entry.phase = "verify"
         => Cited(call[w].req, call[w].entry.receipt)

\* The entries after which a handler sets the registry.
Kept == {"plan", "simulate"} \cup Executed

\* A handler in a call does nothing else, and such an entry ends its call.
InTheCall ==
  \A w \in Worker :
    /\ call[w] # Idle => handler[w] = [at |-> "calls"]
    /\ call[w].at = "append" /\ call[w].entry.phase \in Kept
         => call[w].next = "return"

RouteInv ==
  TypeInv /\ Grounded /\ RegistryType /\ ReceiptsAreRecorded /\ InTheCall
    /\ RegistryIsCurrent

\* What a handler that reads or sets the registry holds.
LEMMA HandlerFields ==
  ASSUME RegistryType, NEW w \in Worker, handler[w].at \in {"read", "sets"}
  PROVE  /\ handler[w].req \in Request
         /\ handler[w].kind \in Artifact
         /\ handler[w].kind = "plan" => handler[w].value \in PlanHash
         /\ handler[w].kind = "forecast" => handler[w].value \in Forecast
         /\ handler[w].kind = "receipt" => handler[w].value \in Receipt
  BY DEF RegistryType, Handler, Free, Artifact

\* The call a route makes is one of the orchestrator's, and what it will
\* append does not cite a receipt the journal does not have.
Posts(w, r) ==
  \/ \E by \in Submitter : PostScanned(w, r, by)
  \/ PostSimulate(w, r)
  \/ \E by \in Principal : PostApprove(w, r, by)
  \/ PostExecute(w, r)
  \/ PostReconcile(w, r)
  \/ \E passed \in BOOLEAN : PostVerify(w, r, passed)
  \/ PostClose(w, r)
  \/ PostRefuse(w, r)

Opens(w, r) ==
  /\ Next
  /\ \E e \in Entry, next \in {"return", "engine"} :
       /\ Begin(w, r, e, next)
       /\ e.phase \in Kept => next = "return"
       /\ e.phase = "verify" => Cited(r, e.receipt)
  /\ handler[w].at \in {"free", "read"}
  /\ Calls(w)

LEMMA RouteOpens ==
  ASSUME RouteInv, NEW w \in Worker, NEW r \in Request, Posts(w, r)
  PROVE  Opens(w, r)
<1> USE DEF RouteInv
<1>0. handler[w].at \in {"free", "read"} /\ Calls(w)
  BY DEF Posts, PostScanned, PostSimulate, PostApprove, PostExecute,
     PostReconcile, PostVerify, PostClose, PostRefuse, Read, Free
<1>1. CASE \E by \in Submitter : PostScanned(w, r, by)
  <2> PICK by \in Submitter : PostScanned(w, r, by)
    BY <1>1
  <2>1. Next
    BY DEF PostScanned, Next, Prepare
  <2>2. CASE Observe(w, r, by) \/ Analyze(w, r, by)
    <3>1. PICK ph \in {"observe", "analyze"} :
            Begin(w, r, [phase |-> ph, by |-> by], "return")
      BY <2>2 DEF Observe, Analyze
    <3>2. [phase |-> ph, by |-> by] \in Entry
      BY PrincipalAssumption DEF Entry
    <3> QED
      BY <1>0, <2>1, <3>1, <3>2 DEF Opens
  <2>3. CASE \E p \in PlanHash : Plan(w, r, p, by)
    <3>1. PICK p \in PlanHash :
            Begin(w, r, [phase |-> "plan", plan |-> p, by |-> by], "return")
      BY <2>3 DEF Plan
    <3>2. [phase |-> "plan", plan |-> p, by |-> by] \in Entry
      BY PrincipalAssumption DEF Entry
    <3> QED
      BY <1>0, <2>1, <3>1, <3>2 DEF Opens
  <2> QED
    BY <2>2, <2>3 DEF PostScanned
<1>2. CASE PostSimulate(w, r)
  <2> PICK f \in Forecast : Simulate(w, r, f)
    BY <1>2 DEF PostSimulate
  <2>1. Next
    BY DEF Next, Prepare
  <2>2. [phase |-> "simulate", forecast |-> f] \in Entry
    BY DEF Entry
  <2> QED
    BY <1>0, <2>1, <2>2 DEF Opens, Simulate
<1>3. CASE \E by \in Principal : PostApprove(w, r, by)
  <2> PICK by \in Principal : PostApprove(w, r, by)
    BY <1>3
  <2> DEFINE f == handler[w].value
  <2>1. f \in Forecast /\ Approve(w, r, f, by)
    BY HandlerFields DEF PostApprove, Read
  <2>2. Next
    BY <2>1 DEF Next, Prepare
  <2>3. [phase |-> "approve", forecast |-> f, by |-> by] \in Entry
    BY <2>1 DEF Entry
  <2> QED
    BY <1>0, <2>1, <2>2, <2>3 DEF Opens, Approve, Kept, Executed
<1>4. CASE PostExecute(w, r)
  <2> DEFINE p == handler[w].value
             a == [plan |-> p, forecast |-> last[r].forecast, at |-> size[r]]
             e == [phase |-> "execute_attempt", attempt |-> a]
  <2>1. p \in PlanHash /\ Execute(w, r, p)
    BY <1>4, HandlerFields DEF PostExecute, Read
  <2>2. Next
    BY <2>1 DEF Next
  <2>3. e \in Entry
    BY <2>1 DEF Entry, Attempt, Execute, TypeInv, TypeOK
  <2>4. Begin(w, r, e, "engine")
    BY <2>1 DEF Execute
  <2> QED
    BY <1>0, <2>2, <2>3, <2>4 DEF Opens, Kept, Executed
<1>5. CASE PostReconcile(w, r)
  <2> DEFINE p == handler[w].value
  <2>1. p \in PlanHash /\ \E c \in Receipt : Reconcile(w, r, p, c)
    BY <1>5, HandlerFields DEF PostReconcile, Read
  <2> PICK c \in Receipt : Reconcile(w, r, p, c)
    BY <2>1
  <2>2. Next
    BY <2>1 DEF Next, Settle
  <2>3. PICK a \in Unresolved(r) :
          Begin(w, r, [phase |-> "reconcile", attempt |-> a, plan |-> p,
                       receipt |-> c, seq |-> 0], "return")
    BY DEF Reconcile
  <2>4. a \in Attempt
    BY EntryFields DEF Unresolved, Attempts, Of, TypeInv, TypeOK
  <2>5. [phase |-> "reconcile", attempt |-> a, plan |-> p, receipt |-> c,
         seq |-> 0] \in Entry
    BY <2>1, <2>4 DEF Entry
  <2> QED
    BY <1>0, <2>2, <2>3, <2>5 DEF Opens
<1>6. CASE \E passed \in BOOLEAN : PostVerify(w, r, passed)
  <2> PICK passed \in BOOLEAN : PostVerify(w, r, passed)
    BY <1>6
  <2> DEFINE c == handler[w].value
  <2>1. /\ c \in Receipt /\ Cited(r, c) /\ Verify(w, r, c, passed)
    BY HandlerFields DEF PostVerify, Read, ReceiptOf, ReceiptsAreRecorded
  <2>2. c \in ReceiptArgument(r)
    BY <2>1 DEF Cited, Outcomes, ReceiptArgument
  <2>3. Next
    BY <2>1, <2>2 DEF Next, Settle
  <2>4. [phase |-> "verify", receipt |-> c, passed |-> passed] \in Entry
    BY <2>1 DEF Entry
  <2> QED
    BY <1>0, <2>1, <2>3, <2>4 DEF Opens, Verify
<1>7. CASE PostClose(w, r)
  <2> DEFINE c == handler[w].value
  <2>1. /\ c \in Receipt /\ Cited(r, c) /\ Close(w, r, c)
    BY <1>7, HandlerFields DEF PostClose, Read, ReceiptOf, ReceiptsAreRecorded
  <2>2. c \in ReceiptArgument(r)
    BY <2>1 DEF Cited, Outcomes, ReceiptArgument
  <2>3. Next
    BY <2>1, <2>2 DEF Next, Settle
  <2>4. [phase |-> "close", receipt |-> c] \in Entry
    BY <2>1 DEF Entry
  <2> QED
    BY <1>0, <2>1, <2>3, <2>4 DEF Opens, Close
<1>8. CASE PostRefuse(w, r)
  <2>1. Next
    BY <1>8 DEF PostRefuse, Next, Settle
  <2>2. [phase |-> "refuse"] \in Entry
    BY DEF Entry
  <2> QED
    BY <1>0, <1>8, <2>1, <2>2 DEF Opens, PostRefuse, Refuse, Kept, Executed
<1> QED
  BY <1>1, <1>2, <1>3, <1>4, <1>5, <1>6, <1>7, <1>8 DEF Posts

\* A step of the server is a step of the orchestrator, or of the registry.
LEMMA RouteSteps ==
  ASSUME RouteInv, [ApiNext]_avars
  PROVE  \/ \E w \in Worker, r \in Request : Opens(w, r)
         \/ \E w \in Worker, r \in Request, kind \in Artifact : Fetch(w, r, kind)
         \/ \E w \in Worker :
              Decline(w) \/ ExecutorEnds(w) \/ Return(w) \/ Register(w)
         \/ Restart
         \/ UNCHANGED avars
  BY RouteOpens DEF ApiNext, Posts

LEMMA RouteIsHandler ==
  ASSUME RouteInv, [ApiNext]_avars
  PROVE  [Next]_vars
<1>1. ASSUME NEW w \in Worker, ExecutorEnds(w) \/ Return(w)
      PROVE  Next
  BY <1>1 DEF ExecutorEnds, Return, Next
<1>2. ASSUME Restart
      PROVE  Next \/ UNCHANGED vars
  <2>1. CASE \E w \in Worker : call[w] # Idle
    BY <1>2, <2>1 DEF Restart, Crash, Next
  <2>2. CASE \A w \in Worker : call[w] = Idle
    <3>1. call' = call
      BY <1>2, <2>2 DEF Restart, RouteInv, TypeInv, TypeOK
    <3> QED
      BY <1>2, <3>1 DEF Restart, vars
  <2> QED
    BY <2>1, <2>2
<1> QED
  BY <1>1, <1>2, RouteSteps DEF Opens, Fetch, Decline, Register, avars, vars

\* What a return does: it appends x, and has still to set what x recorded.
Returned(w, q, x, e) ==
  /\ call[w].at = "append" /\ call[w].req = q /\ call[w].entry = x
  /\ call[w].next \in {"return", "refuse", "engine"}
  /\ e.phase = x.phase
  /\ x.phase \in Executed => e.receipt = x.receipt
  /\ x.phase \notin Executed => e = x
  /\ log' = [log EXCEPT ![q] = @ \cup {e}]
  /\ last' = [last EXCEPT ![q] = Latest(@, x)]
  /\ call' = [call EXCEPT ![w] = AfterAppend(call[w])]
  /\ reg' = reg
  /\ handler[w] = [at |-> "calls"]

SetsNothing(w, x) ==
  /\ x.phase \notin Kept
  /\ handler' \in {handler, [handler EXCEPT ![w] = Free]}
  /\ raced' = raced
  /\ call'[w] # Idle => handler' = handler

WillSet(w, q, x, k, s) ==
  /\ x.phase \in Kept
  /\ x.phase = "plan" => k = "plan" /\ s.value = x.plan
  /\ x.phase = "simulate" => k = "forecast" /\ s.value = x.forecast
  /\ x.phase \in Executed => k = "receipt" /\ s.value = x.receipt
  /\ s \in Handler /\ s.at = "sets" /\ s.req = q /\ s.kind = k
  /\ handler' = [handler EXCEPT ![w] = s]
  /\ call'[w] = Idle
  /\ raced' = IF Setting(q, k) = {} THEN raced \ {<<q, k>>}
              ELSE raced \cup {<<q, k>>}

LEMMA ReturnSets ==
  ASSUME RouteInv, NEW w \in Worker, Return(w)
  PROVE  \E q \in Request, x \in Entry, e \in Entry :
           /\ Returned(w, q, x, e)
           /\ \/ SetsNothing(w, x)
              \/ \E k \in Artifact : \E s : WillSet(w, q, x, k, s)
<1> USE DEF RouteInv
<1>1. PICK q \in Request, x \in Entry, e \in Entry :
           /\ call[w].at = "append" /\ call[w].req = q /\ call[w].entry = x
           /\ call[w].next \in {"return", "refuse", "engine"}
           /\ call' = [call EXCEPT ![w] = AfterAppend(call[w])]
           /\ e.phase = x.phase
           /\ x.phase \in Executed => /\ e.attempt = x.attempt
                                      /\ e.receipt = x.receipt
           /\ x.phase \notin Executed => e = x
           /\ log' = [log EXCEPT ![q] = @ \cup {e}]
           /\ last' = [last EXCEPT ![q] = Latest(@, x)]
  BY AppendReads DEF Return
<1>2. handler[w] = [at |-> "calls"] /\ reg' = reg
  BY <1>1 DEF InTheCall, Idle, Return
<1>3. call'[w] = AfterAppend(call[w])
  BY <1>1 DEF TypeInv, TypeOK
<1>4. CASE x.phase \notin Kept
  <2>1. Sets(q, x) = Free
    BY <1>4 DEF Sets, Kept
  <2>2. /\ raced' = raced
        /\ handler' = IF call[w].next = "return"
                        THEN [handler EXCEPT ![w] = Free] ELSE handler
    BY <1>1, <2>1 DEF Return
  <2>3. call[w].next = "return" => call'[w] = Idle
    BY <1>3 DEF AfterAppend
  <2>4. SetsNothing(w, x)
    BY <1>4, <2>2, <2>3 DEF SetsNothing
  <2> QED
    BY <1>1, <1>2, <2>4 DEF Returned
<1>5. CASE x.phase \in Kept
  <2> DEFINE s == Sets(q, x)
  <2>1. call[w].next = "return"
    BY <1>1, <1>5 DEF InTheCall
  <2>2. call'[w] = Idle
    BY <1>3, <2>1 DEF AfterAppend
  <2>3. PICK k \in Artifact :
          /\ x.phase = "plan" => k = "plan" /\ s.value = x.plan
          /\ x.phase = "simulate" => k = "forecast" /\ s.value = x.forecast
          /\ x.phase \in Executed => k = "receipt" /\ s.value = x.receipt
          /\ s \in Handler /\ s.at = "sets" /\ s.req = q /\ s.kind = k
    <3>1. CASE x.phase = "plan"
      BY <3>1, EntryFields DEF Sets, Handler, Artifact, Executed
    <3>2. CASE x.phase = "simulate"
      BY <3>2, EntryFields DEF Sets, Handler, Artifact, Executed
    <3>3. CASE x.phase \in Executed
      BY <3>3, EntryFields DEF Sets, Handler, Artifact, Executed
    <3> QED
      BY <1>5, <3>1, <3>2, <3>3 DEF Kept
  <2>4. s # Free
    BY <2>3 DEF Free
  <2>5. /\ handler' = [handler EXCEPT ![w] = s]
        /\ raced' = IF Setting(q, k) = {} THEN raced \ {<<q, k>>}
                    ELSE raced \cup {<<q, k>>}
    BY <1>1, <2>1, <2>3, <2>4 DEF Return
  <2>6. WillSet(w, q, x, k, s)
    BY <1>5, <2>2, <2>3, <2>5 DEF WillSet
  <2> QED
    BY <1>1, <1>2, <2>6 DEF Returned
<1> QED
  BY <1>4, <1>5

LEMMA RegistryTypeStep ==
  ASSUME RouteInv, [ApiNext]_avars
  PROVE  RegistryType'
<1> USE DEF RouteInv
<1>1. ASSUME reg' = reg, handler' \in [Worker -> Handler]
      PROVE  RegistryType'
  BY <1>1 DEF RegistryType
<1>2. ASSUME NEW w \in Worker, NEW r \in Request, Opens(w, r)
      PROVE  RegistryType'
  BY <1>1, <1>2 DEF Opens, Calls, RegistryType, Handler
<1>3. ASSUME NEW w \in Worker, NEW r \in Request, NEW kind \in Artifact,
             Fetch(w, r, kind)
      PROVE  RegistryType'
  <2>1. [at |-> "read", req |-> r, kind |-> kind, value |-> reg[r][kind]]
          \in Handler
    <3>1. CASE kind = "plan"
      BY <1>3, <3>1 DEF Fetch, RegistryType, Handler
    <3>2. CASE kind = "forecast"
      BY <1>3, <3>2 DEF Fetch, RegistryType, Handler
    <3>3. CASE kind = "receipt"
      BY <1>3, <3>3 DEF Fetch, RegistryType, Handler
    <3> QED
      BY <3>1, <3>2, <3>3 DEF Artifact
  <2> QED
    BY <1>1, <1>3, <2>1 DEF Fetch, RegistryType
<1>4. ASSUME NEW w \in Worker, Decline(w) \/ ExecutorEnds(w)
      PROVE  RegistryType'
  BY <1>1, <1>4 DEF Decline, ExecutorEnds, RegistryType, Handler
<1>5. ASSUME NEW w \in Worker, Return(w)
      PROVE  RegistryType'
  <2>1. /\ reg' = reg
        /\ \/ handler' = handler
           \/ \E s \in Handler : handler' = [handler EXCEPT ![w] = s]
    BY <1>5, ReturnSets DEF Returned, SetsNothing, WillSet, Handler
  <2> QED
    BY <1>1, <2>1 DEF RegistryType
<1>6. ASSUME NEW w \in Worker, Register(w)
      PROVE  RegistryType'
  <2> DEFINE h == handler[w]
  <2>1. h.at = "sets"
    BY <1>6 DEF Register
  <2>2. /\ h.req \in Request /\ h.kind \in Artifact
        /\ h.kind = "plan" => h.value \in PlanHash
        /\ h.kind = "forecast" => h.value \in Forecast
        /\ h.kind = "receipt" => h.value \in Receipt
    BY <2>1, HandlerFields
  <2>3. handler' \in [Worker -> Handler]
    BY <1>6 DEF Register, RegistryType, Handler
  <2>4. PICK q \in Request, k \in Artifact, v \in PlanHash \cup Forecast \cup Receipt :
          /\ reg' = [reg EXCEPT ![q] = [@ EXCEPT ![k] = v]]
          /\ k = "plan" => v \in PlanHash
          /\ k = "forecast" => v \in Forecast
          /\ k = "receipt" => v \in Receipt
    BY <1>6, <2>2 DEF Register, Artifact
  <2>5. reg' \in [Request -> [Artifact -> PlanHash \cup Forecast \cup Receipt \cup {None}]]
    BY <2>4 DEF RegistryType
  <2>6. ASSUME NEW r \in Request
        PROVE  /\ reg'[r].plan \in PlanHash \cup {None}
               /\ reg'[r].forecast \in Forecast \cup {None}
               /\ reg'[r].receipt \in Receipt \cup {None}
    <3>1. CASE r # q
      BY <2>4, <3>1 DEF RegistryType
    <3>2. CASE r = q
      <4>1. reg'[r] = [reg[r] EXCEPT ![k] = v]
        BY <2>4, <3>2 DEF RegistryType
      <4> QED
        BY <2>4, <4>1 DEF RegistryType, Artifact
    <3> QED
      BY <3>1, <3>2
  <2> QED
    BY <2>3, <2>5, <2>6 DEF RegistryType
<1>7. CASE Restart
  BY <1>7 DEF Restart, RegistryType, NothingHeld, Artifact, Handler
<1>8. CASE UNCHANGED avars
  BY <1>8 DEF avars, RegistryType
<1> QED
  BY <1>2, <1>3, <1>4, <1>5, <1>6, <1>7, <1>8, RouteSteps

LEMMA InTheCallStep ==
  ASSUME RouteInv, [ApiNext]_avars
  PROVE  InTheCall'
<1> USE DEF RouteInv
<1> call \in [Worker -> Call] /\ handler \in [Worker -> Handler]
  BY DEF TypeInv, TypeOK, RegistryType
<1>1. ASSUME NEW w \in Worker, NEW r \in Request, Opens(w, r)
      PROVE  InTheCall'
  <2>1. PICK e \in Entry, next \in {"return", "engine"} :
          /\ call' = [call EXCEPT ![w] = [at |-> "append", req |-> r,
                                          entry |-> e, next |-> next]]
          /\ e.phase \in Kept => next = "return"
    BY <1>1 DEF Opens, Begin
  <2>2. handler' = [handler EXCEPT ![w] = [at |-> "calls"]]
    BY <1>1 DEF Opens, Calls
  <2> QED
    BY <2>1, <2>2 DEF InTheCall
<1>2. ASSUME NEW w \in Worker, NEW s, call' = call, call[w] = Idle,
             handler' = [handler EXCEPT ![w] = s]
      PROVE  InTheCall'
  BY <1>2 DEF InTheCall, Idle
<1>3. ASSUME NEW w \in Worker, NEW r \in Request, NEW kind \in Artifact,
             Fetch(w, r, kind)
      PROVE  InTheCall'
  <2>1. call[w] = Idle
    BY <1>3 DEF Fetch, InTheCall, Free
  <2> QED
    BY <1>2, <1>3, <2>1 DEF Fetch, vars
<1>4. ASSUME NEW w \in Worker, Decline(w) \/ Register(w)
      PROVE  InTheCall'
  <2>1. call[w] = Idle
    BY <1>4 DEF Decline, Register, InTheCall
  <2> QED
    BY <1>2, <1>4, <2>1 DEF Decline, Register, vars
<1>5. ASSUME NEW w \in Worker, ExecutorEnds(w)
      PROVE  InTheCall'
  <2>1. CASE ExecutorRaises(w) /\ handler' = [handler EXCEPT ![w] = Free]
    BY <2>1 DEF ExecutorRaises, InTheCall, Idle
  <2>2. CASE (\E c \in Receipt : ExecuteStaged(w, c)) /\ UNCHANGED handler
    <3>1. /\ call[w].at = "engine"
          /\ \E e, q : call' = [call EXCEPT ![w] = [at |-> "append", req |-> q,
                                  entry |-> e, next |-> "return"]]
      BY <2>2 DEF ExecuteStaged
    <3> QED
      BY <2>2, <3>1 DEF InTheCall, Idle
  <2> QED
    BY <1>5, <2>1, <2>2 DEF ExecutorEnds
<1>6. ASSUME NEW w \in Worker, Return(w)
      PROVE  InTheCall'
  <2>1. /\ call' = [call EXCEPT ![w] = AfterAppend(call[w])]
        /\ handler[w] = [at |-> "calls"]
        /\ call[w].next \in {"return", "refuse", "engine"}
        /\ \/ handler' = handler
           \/ call'[w] = Idle /\ \E s : handler' = [handler EXCEPT ![w] = s]
    BY <1>6, ReturnSets DEF Returned, SetsNothing, WillSet
  <2>2. call'[w] = AfterAppend(call[w])
    BY <2>1
  <2>3. call'[w].at = "append" => call'[w].next = "return"
    BY <2>1, <2>2 DEF AfterAppend, Idle
  <2>4. call'[w] # Idle => handler'[w] = [at |-> "calls"]
    BY <2>1
  <2>5. \A v \in Worker \ {w} : call'[v] = call[v] /\ handler'[v] = handler[v]
    BY <2>1
  <2> QED
    BY <2>3, <2>4, <2>5 DEF InTheCall
<1>7. CASE Restart
  BY <1>7 DEF Restart, InTheCall, Idle
<1>8. CASE UNCHANGED avars
  BY <1>8 DEF avars, InTheCall
<1> QED
  BY <1>1, <1>3, <1>4, <1>5, <1>6, <1>7, <1>8, RouteSteps

\* A recorded receipt stays recorded.
LEMMA CitedStays ==
  ASSUME NEW r \in Request, log[r] \subseteq log'[r], NEW c, Cited(r, c)
  PROVE  Cited(r, c)'
  BY DEF Cited, Outcomes, Of

LEMMA ReceiptsStep ==
  ASSUME RouteInv, [ApiNext]_avars
  PROVE  ReceiptsAreRecorded'
<1> USE DEF RouteInv
<1> /\ call \in [Worker -> Call] /\ handler \in [Worker -> Handler]
    /\ log \in [Request -> SUBSET Entry]
  BY DEF TypeInv, TypeOK, RegistryType
<1>0. ASSUME NEW w \in Worker
      PROVE  /\ handler[w].at \in {"read", "sets"} => handler[w].req \in Request
             /\ call[w].at = "append" => call[w].req \in Request
  BY HandlerFields DEF Call, Idle
<1>1. ASSUME log' = log,
             \A r \in Request :
               reg'[r].receipt # None => Cited(r, reg'[r].receipt),
             \A w \in Worker :
               handler'[w].at \in {"read", "sets"} /\ handler'[w].kind = "receipt"
                 => Cited(handler'[w].req, handler'[w].value),
             \A w \in Worker :
               call'[w].at = "append" /\ call'[w].entry.phase = "verify"
                 => Cited(call'[w].req, call'[w].entry.receipt)
      PROVE  ReceiptsAreRecorded'
  BY <1>1 DEF ReceiptsAreRecorded, Cited, Outcomes, Of
<1>2. ASSUME NEW w \in Worker, NEW r \in Request, Opens(w, r)
      PROVE  ReceiptsAreRecorded'
  <2>1. PICK e \in Entry, next \in {"return", "engine"} :
          /\ call' = [call EXCEPT ![w] = [at |-> "append", req |-> r,
                                          entry |-> e, next |-> next]]
          /\ log' = log
          /\ e.phase = "verify" => Cited(r, e.receipt)
    BY <1>2 DEF Opens, Begin
  <2>2. handler' = [handler EXCEPT ![w] = [at |-> "calls"]] /\ reg' = reg
    BY <1>2 DEF Opens, Calls
  <2>3. \A v \in Worker :
          call'[v].at = "append" /\ call'[v].entry.phase = "verify"
            => Cited(call'[v].req, call'[v].entry.receipt)
    BY <2>1 DEF ReceiptsAreRecorded
  <2>4. \A v \in Worker :
          handler'[v].at \in {"read", "sets"} /\ handler'[v].kind = "receipt"
            => Cited(handler'[v].req, handler'[v].value)
    BY <2>2 DEF ReceiptsAreRecorded
  <2> QED
    BY <1>1, <2>1, <2>2, <2>3, <2>4 DEF ReceiptsAreRecorded
<1>3. ASSUME NEW w \in Worker, NEW r \in Request, NEW kind \in Artifact,
             Fetch(w, r, kind)
      PROVE  ReceiptsAreRecorded'
  <2>1. /\ UNCHANGED <<log, call, reg>>
        /\ handler' = [handler EXCEPT ![w] = [at |-> "read", req |-> r,
                         kind |-> kind, value |-> reg[r][kind]]]
        /\ reg[r][kind] # None
    BY <1>3 DEF Fetch, vars
  <2>2. kind = "receipt" => Cited(r, reg[r][kind])
    BY <2>1 DEF ReceiptsAreRecorded
  <2>3. \A v \in Worker :
          handler'[v].at \in {"read", "sets"} /\ handler'[v].kind = "receipt"
            => Cited(handler'[v].req, handler'[v].value)
    BY <2>1, <2>2 DEF ReceiptsAreRecorded
  <2> QED
    BY <1>1, <2>1, <2>3 DEF ReceiptsAreRecorded
<1>4. ASSUME NEW w \in Worker, Decline(w)
      PROVE  ReceiptsAreRecorded'
  BY <1>1, <1>4 DEF Decline, Free, vars, ReceiptsAreRecorded
<1>5. ASSUME NEW w \in Worker, ExecutorEnds(w)
      PROVE  ReceiptsAreRecorded'
  <2>1. /\ UNCHANGED <<log, reg>>
        /\ \/ handler' = handler
           \/ handler' = [handler EXCEPT ![w] = Free]
        /\ \/ call' = [call EXCEPT ![w] = Idle]
           \/ \E q, a, c : call' = [call EXCEPT ![w] = [at |-> "append", req |-> q,
                  entry |-> [phase |-> "execute", attempt |-> a, receipt |-> c,
                             seq |-> 0], next |-> "return"]]
    BY <1>5 DEF ExecutorEnds, ExecutorRaises, ExecuteStaged
  <2>2. \A v \in Worker :
          call'[v].at = "append" /\ call'[v].entry.phase = "verify"
            => call'[v] = call[v]
    BY <2>1 DEF Idle
  <2>3. \A v \in Worker :
          handler'[v].at \in {"read", "sets"} => handler'[v] = handler[v]
    BY <2>1 DEF Free
  <2> QED
    BY <1>1, <2>1, <2>2, <2>3 DEF ReceiptsAreRecorded
<1>6. ASSUME NEW w \in Worker, Return(w)
      PROVE  ReceiptsAreRecorded'
  <2>0. PICK q \in Request, x \in Entry, e \in Entry :
          /\ Returned(w, q, x, e)
          /\ \/ SetsNothing(w, x)
             \/ \E k \in Artifact : \E s : WillSet(w, q, x, k, s)
    BY <1>6, ReturnSets
  <2>1. Returned(w, q, x, e)
    BY <2>0
  <2>2. \A r \in Request : log[r] \subseteq log'[r]
    BY <2>1 DEF Returned
  <2>3. \A r \in Request : \A c : Cited(r, c) => Cited(r, c)'
    BY <2>2, CitedStays
  <2>4. Outcomes(q)' = Outcomes(q) \cup (IF e.phase \in Executed THEN {e} ELSE {})
    BY <2>1, OneMore DEF Returned
  <2>5. x.phase \in Executed => Cited(q, x.receipt)'
    BY <2>1, <2>4 DEF Cited, Returned
  <2>6. \A r \in Request : (reg[r].receipt # None => Cited(r, reg[r].receipt))'
    BY <2>1, <2>3 DEF ReceiptsAreRecorded, Returned
  <2>7. ASSUME NEW v \in Worker
        PROVE  (handler[v].at \in {"read", "sets"} /\ handler[v].kind = "receipt"
                  => Cited(handler[v].req, handler[v].value))'
    <3>1. CASE handler'[v] = handler[v]
      BY <1>0, <2>3, <3>1 DEF ReceiptsAreRecorded
    <3>2. CASE handler'[v] = Free
      BY <3>2 DEF Free
    <3>3. CASE /\ handler'[v].req = q
               /\ handler'[v].kind = "receipt" => /\ x.phase \in Executed
                                                  /\ handler'[v].value = x.receipt
      BY <2>5, <3>3
    <3> QED
      <4>1. CASE SetsNothing(w, x)
        BY <3>1, <3>2, <4>1 DEF SetsNothing
      <4>2. ASSUME NEW k \in Artifact, NEW s, WillSet(w, q, x, k, s)
            PROVE  \/ handler'[v] = handler[v]
                   \/ /\ handler'[v].req = q
                      /\ handler'[v].kind = "receipt" =>
                           x.phase \in Executed /\ handler'[v].value = x.receipt
        BY <4>2 DEF WillSet, Kept
      <4> QED
        BY <2>0, <3>1, <3>3, <4>1, <4>2
  <2>8. ASSUME NEW r \in Request, NEW y \in Of(r, "verify")'
        PROVE  Cited(r, y.receipt)'
    <3>1. CASE y \in Of(r, "verify")
      BY <2>3, <3>1 DEF ReceiptsAreRecorded
    <3>2. CASE y \notin Of(r, "verify")
      <4>1. r = q /\ y = e /\ e.phase = "verify"
        BY <2>1, <3>2 DEF Of, Returned
      <4>2. x.phase = "verify" /\ e = x
        BY <2>1, <4>1 DEF Executed, Returned
      <4>3. Cited(q, x.receipt)
        BY <2>1, <4>2 DEF ReceiptsAreRecorded, Returned
      <4> QED
        BY <2>3, <4>1, <4>2, <4>3
    <3> QED
      BY <3>1, <3>2
  <2>9. ASSUME NEW v \in Worker
        PROVE  (call[v].at = "append" /\ call[v].entry.phase = "verify"
                  => Cited(call[v].req, call[v].entry.receipt))'
    <3>1. CASE v = w
      <4>1. call'[v] = AfterAppend(call[w])
        BY <2>1, <3>1 DEF Returned
      <4>2. call'[v].at = "append" => call'[v].entry.phase = "refuse"
        BY <2>1, <4>1 DEF AfterAppend, Idle, Returned
      <4> QED
        BY <4>2
    <3>2. CASE v # w
      <4>1. call'[v] = call[v]
        BY <2>1, <3>2 DEF Returned
      <4> QED
        BY <1>0, <2>3, <4>1 DEF ReceiptsAreRecorded
    <3> QED
      BY <3>1, <3>2
  <2> QED
    BY <2>6, <2>7, <2>8, <2>9 DEF ReceiptsAreRecorded
<1>7. ASSUME NEW w \in Worker, Register(w)
      PROVE  ReceiptsAreRecorded'
  <2> DEFINE h == handler[w]
  <2>1. /\ h.at = "sets" /\ h.req \in Request /\ h.kind \in Artifact
        /\ reg' = [reg EXCEPT ![h.req] = [@ EXCEPT ![h.kind] = h.value]]
        /\ handler' = [handler EXCEPT ![w] = Free]
        /\ UNCHANGED <<log, call>>
    BY <1>7, HandlerFields DEF Register, vars
  <2>2. ASSUME NEW r \in Request, reg'[r].receipt # None
        PROVE  Cited(r, reg'[r].receipt)
    <3>1. CASE r = h.req /\ h.kind = "receipt"
      <4>1. reg'[r].receipt = h.value
        BY <2>1, <3>1 DEF RegistryType, Artifact
      <4> QED
        BY <2>1, <3>1, <4>1 DEF ReceiptsAreRecorded
    <3>2. CASE ~(r = h.req /\ h.kind = "receipt")
      <4>1. reg'[r].receipt = reg[r].receipt
        BY <2>1, <3>2 DEF RegistryType, Artifact
      <4> QED
        BY <2>2, <4>1 DEF ReceiptsAreRecorded
    <3> QED
      BY <3>1, <3>2
  <2>3. \A v \in Worker :
          handler'[v].at \in {"read", "sets"} => handler'[v] = handler[v]
    BY <2>1 DEF Free
  <2> QED
    BY <1>1, <2>1, <2>2, <2>3 DEF ReceiptsAreRecorded
<1>8. CASE Restart
  BY <1>1, <1>8 DEF Restart, NothingHeld, Artifact, Free, Idle
<1>9. CASE UNCHANGED avars
  BY <1>1, <1>9 DEF avars, ReceiptsAreRecorded
<1> QED
  BY <1>2, <1>3, <1>4, <1>5, <1>6, <1>7, <1>8, <1>9, RouteSteps

LEMMA CurrentStep ==
  ASSUME RouteInv, [ApiNext]_avars
  PROVE  RegistryIsCurrent'
<1> USE DEF RouteInv
<1> /\ call \in [Worker -> Call] /\ handler \in [Worker -> Handler]
    /\ last \in [Request -> [phase: Phase \cup {None}, plan: PlanHash \cup {None},
                             forecast: Forecast \cup {None},
                             receipt: Receipt \cup {None}]]
  BY DEF TypeInv, TypeOK, RegistryType
<1>1. ASSUME UNCHANGED <<last, reg, raced>>,
             \A v \in Worker : \/ handler'[v] = handler[v]
                               \/ "sets" \notin {handler[v].at, handler'[v].at}
      PROVE  RegistryIsCurrent'
  <2>1. \A r, k : Setting(r, k)' = Setting(r, k)
    BY <1>1 DEF Setting
  <2>2. \A r, k : \A v \in Setting(r, k) : handler'[v] = handler[v]
    BY <1>1 DEF Setting
  <2> QED
    BY <1>1, <2>1, <2>2 DEF RegistryIsCurrent
<1>2. ASSUME NEW w \in Worker, NEW r \in Request, Opens(w, r)
      PROVE  RegistryIsCurrent'
  <2>1. /\ UNCHANGED <<last, reg, raced>>
        /\ handler' = [handler EXCEPT ![w] = [at |-> "calls"]]
    BY <1>2 DEF Opens, Calls, Begin
  <2>2. handler[w].at # "sets"
    BY <1>2 DEF Opens
  <2> QED
    BY <1>1, <2>1, <2>2
<1>3. ASSUME NEW w \in Worker, NEW r \in Request, NEW kind \in Artifact,
             Fetch(w, r, kind)
      PROVE  RegistryIsCurrent'
  BY <1>1, <1>3 DEF Fetch, Free, vars
<1>4. ASSUME NEW w \in Worker, Decline(w)
      PROVE  RegistryIsCurrent'
  BY <1>1, <1>4 DEF Decline, Free, vars
<1>5. ASSUME NEW w \in Worker, ExecutorEnds(w)
      PROVE  RegistryIsCurrent'
  <2>1. call[w] # Idle
    BY <1>5 DEF ExecutorEnds, ExecutorRaises, ExecuteStaged, Idle
  <2>2. handler[w] = [at |-> "calls"]
    BY <2>1 DEF InTheCall
  <2>3. /\ UNCHANGED <<last, reg, raced>>
        /\ handler' \in {handler, [handler EXCEPT ![w] = Free]}
    BY <1>5 DEF ExecutorEnds, ExecutorRaises, ExecuteStaged
  <2> QED
    BY <1>1, <2>2, <2>3 DEF Free
<1>6. ASSUME NEW w \in Worker, Return(w)
      PROVE  RegistryIsCurrent'
  <2>0. PICK q \in Request, x \in Entry, e \in Entry :
          /\ Returned(w, q, x, e)
          /\ \/ SetsNothing(w, x)
             \/ \E k \in Artifact : \E s : WillSet(w, q, x, k, s)
    BY <1>6, ReturnSets
  <2>1. /\ last' = [last EXCEPT ![q] = Latest(@, x)]
        /\ reg' = reg /\ handler[w] = [at |-> "calls"]
    BY <2>0 DEF Returned
  <2>2. last'[q] = Latest(last[q], x)
    BY <2>1
  <2>3. ASSUME SetsNothing(w, x)
        PROVE  RegistryIsCurrent'
    <3>1. \A k \in Artifact : last'[q][k] = last[q][k]
      BY <2>2, <2>3 DEF SetsNothing, Latest, Kept, Artifact
    <3>2. \A r \in Request : \A k \in Artifact : last'[r][k] = last[r][k]
      BY <2>1, <3>1
    <3>3. \A r, k : Setting(r, k)' = Setting(r, k)
      BY <2>1, <2>3 DEF SetsNothing, Setting, Free
    <3>4. \A r, k : \A v \in Setting(r, k) : handler'[v] = handler[v]
      BY <2>1, <2>3 DEF SetsNothing, Setting, Free
    <3> QED
      BY <2>1, <2>3, <3>2, <3>3, <3>4 DEF SetsNothing, RegistryIsCurrent
  <2>4. ASSUME NEW k \in Artifact, NEW s, WillSet(w, q, x, k, s)
        PROVE  RegistryIsCurrent'
    <3>1. last'[q][k] = s.value
      BY <2>2, <2>4 DEF WillSet, Latest, Kept, Executed
    <3>2. \A j \in Artifact \ {k} : last'[q][j] = last[q][j]
      BY <2>2, <2>4 DEF WillSet, Latest, Kept, Executed, Artifact
    <3>3. \A r \in Request \ {q} : last'[r] = last[r]
      BY <2>1
    <3>4. ASSUME NEW r \in Request, NEW j \in Artifact, ~(r = q /\ j = k)
          PROVE  /\ Setting(r, j)' = Setting(r, j)
                 /\ \A v \in Setting(r, j) : handler'[v] = handler[v]
                 /\ last'[r][j] = last[r][j]
                 /\ <<r, j>> \notin raced' => <<r, j>> \notin raced
      <4>1. Setting(r, j)' = Setting(r, j)
        BY <2>1, <2>4, <3>4 DEF WillSet, Setting
      <4>2. \A v \in Setting(r, j) : handler'[v] = handler[v]
        BY <2>1, <2>4 DEF WillSet, Setting
      <4>3. last'[r][j] = last[r][j]
        BY <3>2, <3>3, <3>4
      <4>4. <<r, j>> \notin raced' => <<r, j>> \notin raced
        BY <2>4, <3>4 DEF WillSet
      <4> QED
        BY <4>1, <4>2, <4>3, <4>4
    <3>5. Setting(q, k)' = Setting(q, k) \cup {w} /\ handler'[w] = s
      BY <2>1, <2>4 DEF WillSet, Setting
    <3>6. <<q, k>> \notin raced' => Setting(q, k)' = {w}
      BY <2>4, <3>5 DEF WillSet
    <3>7. ASSUME NEW r \in Request, NEW j \in Artifact, <<r, j>> \notin raced'
          PROVE  IF Setting(r, j)' = {} THEN reg'[r][j] \in {None, last'[r][j]}
                 ELSE \A v \in Setting(r, j)' : handler'[v].value = last'[r][j]
      <4>1. CASE r = q /\ j = k
        <5>1. Setting(r, j)' = {w}
          BY <3>6, <3>7, <4>1
        <5>2. handler'[w].value = last'[r][j]
          BY <3>1, <3>5, <4>1
        <5> QED
          BY <5>1, <5>2
      <4>2. CASE ~(r = q /\ j = k)
        <5>1. <<r, j>> \notin raced
          BY <3>4, <3>7, <4>2
        <5>2. IF Setting(r, j) = {} THEN reg[r][j] \in {None, last[r][j]}
              ELSE \A v \in Setting(r, j) : handler[v].value = last[r][j]
          BY <5>1 DEF RegistryIsCurrent
        <5>3. /\ Setting(r, j)' = Setting(r, j)
              /\ \A v \in Setting(r, j) : handler'[v] = handler[v]
              /\ last'[r][j] = last[r][j]
          BY <3>4, <4>2
        <5> QED
          BY <2>1, <5>2, <5>3
      <4> QED
        BY <4>1, <4>2
    <3> QED
      BY <3>7 DEF RegistryIsCurrent
  <2> QED
    BY <2>0, <2>3, <2>4
<1>7. ASSUME NEW w \in Worker, Register(w)
      PROVE  RegistryIsCurrent'
  <2>1. PICK q \in Request, k \in Artifact, c \in {handler[w].value} :
          /\ handler[w].at = "sets" /\ handler[w].req = q /\ handler[w].kind = k
          /\ handler[w].value = c
          /\ reg' = [reg EXCEPT ![q] = [@ EXCEPT ![k] = c]]
          /\ handler' = [handler EXCEPT ![w] = Free]
          /\ UNCHANGED <<last, raced>>
    BY <1>7, HandlerFields DEF Register, vars
  <2>2. w \in Setting(q, k)
    BY <2>1 DEF Setting
  <2>3. Setting(q, k)' = Setting(q, k) \ {w}
    BY <2>1 DEF Setting, Free
  <2>4. reg'[q][k] = c
    BY <2>1 DEF RegistryType
  <2>5. \A v \in Worker \ {w} : handler'[v] = handler[v]
    BY <2>1
  <2>6. ASSUME NEW r \in Request, NEW j \in Artifact, ~(r = q /\ j = k)
        PROVE  Setting(r, j)' = Setting(r, j) /\ reg'[r][j] = reg[r][j]
    <3>1. Setting(r, j)' = Setting(r, j)
      BY <2>1, <2>6 DEF Setting, Free
    <3>2. reg'[r][j] = reg[r][j]
      BY <2>1, <2>6 DEF RegistryType
    <3> QED
      BY <3>1, <3>2
  <2>7. \A r, j : \A v \in Setting(r, j)' : v # w /\ handler'[v] = handler[v]
    BY <2>1, <2>5 DEF Setting, Free
  <2>8. ASSUME <<q, k>> \notin raced
        PROVE  /\ c = last[q][k]
               /\ \A v \in Setting(q, k) : handler[v].value = last[q][k]
    BY <2>1, <2>2, <2>8 DEF RegistryIsCurrent
  <2> QED
    BY <2>1, <2>3, <2>4, <2>6, <2>7, <2>8 DEF RegistryIsCurrent
<1>8. CASE Restart
  BY <1>8 DEF Restart, RegistryIsCurrent, NothingHeld, Setting, Free
<1>9. CASE UNCHANGED avars
  BY <1>1, <1>9 DEF avars
<1> QED
  BY <1>2, <1>3, <1>4, <1>5, <1>6, <1>7, <1>8, <1>9, RouteSteps

LEMMA RouteInvariance == ApiSpec => []RouteInv
<1>1. ApiInit => RouteInv
  <2> SUFFICES ASSUME ApiInit PROVE RouteInv
    OBVIOUS
  <2>1. TypeInv /\ Grounded
    BY TypeInit, GroundedInit DEF ApiInit
  <2>2. RegistryType
    BY DEF ApiInit, RegistryType, NothingHeld, Artifact, Handler
  <2>3. ReceiptsAreRecorded /\ InTheCall
    BY DEF ApiInit, Init, NothingHeld, Artifact, Free, Idle,
       ReceiptsAreRecorded, InTheCall, Of
  <2>4. RegistryIsCurrent
    BY DEF ApiInit, RegistryIsCurrent, NothingHeld, Setting, Free
  <2> QED
    BY <2>1, <2>2, <2>3, <2>4 DEF RouteInv
<1>2. RouteInv /\ [ApiNext]_avars => RouteInv'
  <2> SUFFICES ASSUME RouteInv, [ApiNext]_avars PROVE RouteInv'
    OBVIOUS
  <2>1. (TypeInv /\ Grounded)'
    BY RouteIsHandler, TypeStep, GroundedStep DEF RouteInv
  <2> QED
    BY <2>1, RegistryTypeStep, ReceiptsStep, InTheCallStep, CurrentStep
    DEF RouteInv
<1> QED
  BY <1>1, <1>2, PTL DEF ApiSpec

\* With any number of handler threads between a journal append and the
\* assignment that follows it, what a handler reads is what the journal last
\* recorded, or what some handler is about to replace; the one exception is
\* an artifact that two handlers were to set at once.
THEOREM RegistryStaysCurrent == ApiSpec => []RegistryIsCurrent
<1>1. RouteInv => RegistryIsCurrent
  BY DEF RouteInv
<1> QED
  BY <1>1, RouteInvariance, PTL

\* However the handlers overlap and restart, the audit finds nothing the
\* gates are there to stop, and every verification cites a recorded outcome
\* of its own request.
THEOREM HttpAuditFindsNothing == ApiSpec => []HttpPassesTheAudit
<1>1. RouteInv => HttpPassesTheAudit
  <2> SUFFICES ASSUME RouteInv, NEW r \in Request
               PROVE  BindingsHold(r) /\ ~NoReceipt(r)
    BY DEF HttpPassesTheAudit
  <2>1. BindingsHold(r)
    BY BackedPassesTheAudit DEF RouteInv, GatesAnswerTheAudit
  <2>2. ~NoReceipt(r)
    BY DEF RouteInv, ReceiptsAreRecorded, Cited, NoReceipt
  <2> QED
    BY <2>1, <2>2
<1> QED
  BY <1>1, RouteInvariance, PTL
=============================================================================
