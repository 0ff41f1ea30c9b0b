---------------------------- MODULE Orchestrator ----------------------------
(***************************************************************************)
(* The control loop of aagcp.core.orchestrator over the journal of         *)
(* aagcp.core.journal: Observe, Analyze, Resolve, Plan, Simulate, Approve, *)
(* Execute (two records), Reconcile, Verify, Close and Refuse.             *)
(*                                                                         *)
(* The orchestrator keeps nothing between calls: each handler reads the    *)
(* journal, refuses or goes on, and appends.  A call is therefore a check  *)
(* step (the handler's name) that decides the entry, and an Append step;   *)
(* execute() also calls the executor between its two appends.  A Worker is *)
(* a thread that makes calls.  One worker is the programs of the tests and *)
(* the acceptance harness; several are the threads of ThreadingHTTPServer, *)
(* which share one Orchestrator and one Journal without a lock.            *)
(*                                                                         *)
(* Of a request's journal the handlers read which entries exist, how many  *)
(* there are, and which one is the last of its phase: that is the state    *)
(* kept here.  Sequence numbers, the hash chain and the bytes on disk are  *)
(* left to the journal's own model; here an append is durable at once.     *)
(*                                                                         *)
(* An operator FaultX is X with a plausible slip: no action uses it, and   *)
(* PROJECT.json says which property notices when it takes the place of X.  *)
(***************************************************************************)
EXTENDS Naturals, Sequences

CONSTANTS
  Request,      \* request ids
  PlanHash,     \* the hashes of the plans callers submit
  Forecast,     \* [plan, tier, decision]: what simulate() may return
  Principal,    \* named users
  Submitter,    \* who calls observe, analyze and plan; None is no principal
  Authority,    \* Principal -> max_approval_tier
  Receipt,      \* [plan, verdict, reconciled]: all that receipt_hash covers
  HandedIn,     \* receipts a caller passes to verify() and close() itself
  Worker,       \* threads that call the orchestrator
  None,         \* the absent value
  MaxPrep,      \* no preparatory phase starts at or beyond this many entries
  MaxEntries    \* no verification or refusal starts at or beyond this many

ASSUME ForecastAssumption ==
  Forecast \subseteq [plan: PlanHash, tier: Nat,
                      decision: {"AUTONOMOUS", "APPROVAL_REQUIRED"}]

ASSUME ReceiptAssumption ==
  /\ Receipt \subseteq [plan: PlanHash, verdict: STRING, reconciled: BOOLEAN]
  /\ HandedIn \subseteq Receipt

ASSUME PrincipalAssumption ==
  /\ Submitter \subseteq Principal \cup {None}
  /\ Authority \in [Principal -> Nat]

ASSUME NoneAssumption ==
  None \notin PlanHash \cup Forecast \cup Receipt \cup Principal

ASSUME BoundAssumption == MaxPrep \in Nat /\ MaxEntries \in Nat

VARIABLES
  log,    \* log[r]: the entries the journal holds for request r
  size,   \* size[r]: how many times an entry was appended for r
  last,   \* last[r]: the last phase, and the last plan, forecast, receipt
  call,   \* call[w]: what worker w's call in progress will do next
  ran     \* ran[r]: the attempts whose plan the executor ran, in order

vars == <<log, size, last, call, ran>>

----------------------------------------------------------------------------
(* Entries.  An entry keeps what some gate or audit reads of it; the       *)
(* forecast hash names a forecast whose plan_hash, tier and decision the   *)
(* SIMULATE entry records, and an attempt id is the digest of the request, *)
(* the plan, the forecast and the number of entries when it was drawn.     *)

Attempt == [plan: PlanHash, forecast: Forecast, at: Nat]

Entry ==
  [phase: {"observe", "analyze"}, by: Principal \cup {None}]
    \cup [phase: {"resolve", "refuse"}]
    \cup [phase: {"plan"}, plan: PlanHash, by: Principal \cup {None}]
    \cup [phase: {"simulate"}, forecast: Forecast]
    \cup [phase: {"approve"}, forecast: Forecast, by: Principal]
    \cup [phase: {"execute_attempt"}, attempt: Attempt]
    \cup [phase: {"execute"}, attempt: Attempt, receipt: Receipt, seq: Nat]
    \cup [phase: {"reconcile"}, attempt: Attempt, plan: PlanHash,
          receipt: Receipt, seq: Nat]
    \cup [phase: {"verify"}, receipt: Receipt, passed: BOOLEAN]
    \cup [phase: {"close"}, receipt: Receipt]

Phase == {"observe", "analyze", "resolve", "plan", "simulate", "approve",
          "execute_attempt", "execute", "reconcile", "verify", "close",
          "refuse"}

\* The phases that record an outcome, with its receipt.
Executed == {"execute", "reconcile"}

\* A reconciled execution is an execution for what may follow it.
FaultUnreconciled == {"execute"}
FaultAttempted == {"execute_attempt"}
VerifiableAfter == {"execute", "reconcile"}

\* The legal predecessors of a phase: it needs one of them recorded.
Prerequisites ==
  [ph \in Phase |->
     CASE ph \in {"observe", "resolve", "refuse"} -> {}
       [] ph = "analyze"                          -> {"observe"}
       [] ph = "plan"                             -> {"analyze", "resolve"}
       [] ph = "simulate"                         -> {"plan"}
       [] ph \in {"approve", "execute_attempt"}   -> {"simulate"}
       [] ph \in {"execute", "reconcile"}         -> {"execute_attempt"}
       [] ph = "verify"                           -> VerifiableAfter
       [] ph = "close"                            -> {"verify"}]

----------------------------------------------------------------------------
(* What the handlers read of the journal.                                  *)

Of(r, ph) == {e \in log[r] : e.phase = ph}

Recorded(r) == {e.phase : e \in log[r]}

Attempts(r) == {e.attempt : e \in Of(r, "execute_attempt")}

\* _attempts(): the attempts that have an outcome, and those that do not.
FaultDone(r) == {e.attempt : e \in Of(r, "execute")}
Done(r) == {e.attempt : e \in Of(r, "execute") \cup Of(r, "reconcile")}
Unresolved(r) == Attempts(r) \ Done(r)

\* _require(): not ended, and one of the legal predecessors is recorded.
FaultRequire(r, ph) ==
  /\ "close" \notin Recorded(r)
  /\ Prerequisites[ph] # {} => Prerequisites[ph] \cap Recorded(r) # {}

Require(r, ph) ==
  /\ {"close", "refuse"} \cap Recorded(r) = {}
  /\ Prerequisites[ph] # {} => Prerequisites[ph] \cap Recorded(r) # {}

\* The approval gate's idea of who asked for the change.
Requesters(r) ==
  {e.by : e \in Of(r, "plan") \cup Of(r, "observe") \cup Of(r, "analyze")}
    \ {None}

\* _check_artifact(): the plan handed in is the last one recorded.
IsRecordedPlan(r, p) == last[r].plan = p

\* execute()'s gates against a second run: UNRECONCILED, ALREADY_EXECUTED.
FaultNotYetAttempted(r) == Done(r) = {}
NotYetAttempted(r) == Unresolved(r) = {} /\ Done(r) = {}

\* execute()'s approval gate for the forecast it is about to act on.
FaultAuthorised(r, f) ==
  f.decision = "AUTONOMOUS" \/ Of(r, "approve") # {}
Authorised(r, f) ==
  \/ f.decision = "AUTONOMOUS"
  \/ \E e \in Of(r, "approve") : e.forecast = f

\* close()'s gate: a passing verification that cites this receipt.
FaultPassing(r, c) == \E e \in Of(r, "verify") : e.passed
PassingVerification(r, c) ==
  \E e \in Of(r, "verify") : e.receipt = c /\ e.passed

\* resume(): the phases it offers a restarted caller.
NextPhases(r) ==
  IF Unresolved(r) # {}
    THEN {"reconcile"}
    ELSE {ph \in Phase \ {"observe", "resolve"} :
            Prerequisites[ph] = {} \/ Prerequisites[ph] \cap Recorded(r) # {}}

----------------------------------------------------------------------------
(* Calls in progress.                                                      *)

Idle == [at |-> "idle"]

Call ==
  {Idle}
    \cup [at: {"append"}, req: Request, entry: Entry,
          next: {"return", "refuse", "engine"}]
    \cup [at: {"engine"}, req: Request, attempt: Attempt]

\* A handler's gate has passed: entry e will be appended, then `next`.
FaultBegin(w, r, e, next) ==
  /\ call[w] = Idle
  /\ call' = [call EXCEPT ![w] =
                IF next = "engine"
                  THEN [at |-> "engine", req |-> r, attempt |-> e.attempt]
                  ELSE [at |-> "append", req |-> r, entry |-> e,
                        next |-> next]]
  /\ UNCHANGED <<log, size, last, ran>>

Begin(w, r, e, next) ==
  /\ call[w] = Idle
  /\ call' = [call EXCEPT ![w] =
                [at |-> "append", req |-> r, entry |-> e, next |-> next]]
  /\ UNCHANGED <<log, size, last, ran>>

Init ==
  /\ log = [r \in Request |-> {}]
  /\ size = [r \in Request |-> 0]
  /\ last = [r \in Request |->
               [phase |-> None, plan |-> None, forecast |-> None,
                receipt |-> None]]
  /\ call = [w \in Worker |-> Idle]
  /\ ran = [r \in Request |-> <<>>]

----------------------------------------------------------------------------
(* The handlers: gate, and the entry the gate lets through.                *)

Observe(w, r, by) ==
  /\ size[r] < MaxPrep
  /\ Require(r, "observe")
  /\ Begin(w, r, [phase |-> "observe", by |-> by], "return")

Analyze(w, r, by) ==
  /\ size[r] < MaxPrep
  /\ Require(r, "analyze")
  /\ Begin(w, r, [phase |-> "analyze", by |-> by], "return")

\* A verdict that is not RESOLVED is recorded, then refuses the request.
Resolve(w, r, resolved) ==
  /\ size[r] < MaxPrep
  /\ Require(r, "resolve")
  /\ Begin(w, r, [phase |-> "resolve"],
           IF resolved THEN "return" ELSE "refuse")

Plan(w, r, p, by) ==
  /\ size[r] < MaxPrep
  /\ Require(r, "plan")
  /\ Begin(w, r, [phase |-> "plan", plan |-> p, by |-> by], "return")

\* The caller hands in the plan of f; it must be the last one recorded.
Simulate(w, r, f) ==
  /\ size[r] < MaxPrep
  /\ Require(r, "simulate")
  /\ IsRecordedPlan(r, f.plan)
  /\ Begin(w, r, [phase |-> "simulate", forecast |-> f], "return")

\* An approval by any principal but a requester, up to their own tier.
Approve(w, r, f, by) ==
  /\ size[r] < MaxPrep
  /\ Require(r, "approve")
  /\ last[r].forecast = f
  /\ by \notin Requesters(r)
  /\ f.tier <= Authority[by]
  /\ Begin(w, r, [phase |-> "approve", forecast |-> f, by |-> by], "return")

\* The attempt is written ahead of the run: Append, then ExecuteStaged.
Execute(w, r, p) ==
  LET f == last[r].forecast
      a == [plan |-> p, forecast |-> f, at |-> size[r]]
  IN  /\ Require(r, "execute_attempt")
      /\ IsRecordedPlan(r, p)
      /\ NotYetAttempted(r)
      /\ f # None
      /\ f.plan = p
      /\ Authorised(r, f)
      /\ Begin(w, r, [phase |-> "execute_attempt", attempt |-> a], "engine")

\* The executor runs the plan and returns; the outcome is still to record.
ExecuteStaged(w, c) ==
  /\ call[w].at = "engine"
  /\ c.plan = call[w].attempt.plan
  /\ ~c.reconciled
  /\ ran' = [ran EXCEPT ![call[w].req] = Append(@, call[w].attempt)]
  /\ call' = [call EXCEPT ![w] =
                [at |-> "append", req |-> call[w].req,
                 entry |-> [phase |-> "execute", attempt |-> call[w].attempt,
                            receipt |-> c, seq |-> 0],
                 next |-> "return"]]
  /\ UNCHANGED <<log, size, last>>

\* A driver error the executor does not classify ends the call, after some
\* statements: the engine has changed and no outcome will be recorded.
ExecutorRaises(w) ==
  /\ call[w].at = "engine"
  /\ ran' = [ran EXCEPT ![call[w].req] = Append(@, call[w].attempt)]
  /\ call' = [call EXCEPT ![w] = Idle]
  /\ UNCHANGED <<log, size, last>>

\* No Require: only an unresolved attempt and the last plan recorded.  The
\* engine is read, not written, so the receipt is drawn with the check.
FaultGatedReconcile(w, r, p, c) ==
  /\ Require(r, "reconcile")
  /\ IsRecordedPlan(r, p)
  /\ c.plan = p
  /\ c.reconciled
  /\ \E a \in Unresolved(r) :
       Begin(w, r, [phase |-> "reconcile", attempt |-> a, plan |-> p,
                    receipt |-> c, seq |-> 0], "return")

Reconcile(w, r, p, c) ==
  /\ IsRecordedPlan(r, p)
  /\ c.plan = p
  /\ c.reconciled
  /\ \E a \in Unresolved(r) :
       Begin(w, r, [phase |-> "reconcile", attempt |-> a, plan |-> p,
                    receipt |-> c, seq |-> 0], "return")

\* The receipt is foreign, or one that execute() or reconcile() returned;
\* receipt_for() gives the last of these.
ReceiptArgument(r) ==
  HandedIn \cup {e.receipt : e \in Of(r, "execute") \cup Of(r, "reconcile")}

Verify(w, r, c, passed) ==
  /\ size[r] < MaxEntries
  /\ Require(r, "verify")
  /\ Begin(w, r, [phase |-> "verify", receipt |-> c, passed |-> passed],
           "return")

Close(w, r, c) ==
  /\ Require(r, "close")
  /\ PassingVerification(r, c)
  /\ Begin(w, r, [phase |-> "close", receipt |-> c], "return")

\* refuse() has no gate at all.
Refuse(w, r) ==
  /\ size[r] < MaxEntries
  /\ Begin(w, r, [phase |-> "refuse"], "return")

----------------------------------------------------------------------------
(* Journal.append, and what the call does after it.                        *)

\* The position an entry is appended at tells two equal ones apart.  Only
\* outcomes are ever counted, so only they keep it.
Stamp(e, n) == IF e.phase \in Executed THEN [e EXCEPT !.seq = n] ELSE e

Latest(l, e) ==
  [phase    |-> e.phase,
   plan     |-> IF e.phase = "plan" THEN e.plan ELSE l.plan,
   forecast |-> IF e.phase = "simulate" THEN e.forecast ELSE l.forecast,
   receipt  |-> IF e.phase \in Executed THEN e.receipt ELSE l.receipt]

AfterAppend(c) ==
  CASE c.next = "return" -> Idle
    [] c.next = "refuse" -> [at |-> "append", req |-> c.req,
                             entry |-> [phase |-> "refuse"],
                             next |-> "return"]
    [] c.next = "engine" -> [at |-> "engine", req |-> c.req,
                             attempt |-> c.entry.attempt]

AppendEntry(w) ==
  LET c == call[w]
  IN  /\ c.at = "append"
      /\ log' = [log EXCEPT ![c.req] = @ \cup {Stamp(c.entry, size[c.req])}]
      /\ size' = [size EXCEPT ![c.req] = @ + 1]
      /\ last' = [last EXCEPT ![c.req] = Latest(@, c.entry)]
      /\ call' = [call EXCEPT ![w] = AfterAppend(c)]
      /\ UNCHANGED ran

\* The process dies and starts again: every call is lost, nothing else.
Crash ==
  /\ \E w \in Worker : call[w] # Idle
  /\ call' = [w \in Worker |-> Idle]
  /\ UNCHANGED <<log, size, last, ran>>

Prepare(w, r) ==
  \/ \E by \in Submitter : Observe(w, r, by)
  \/ \E by \in Submitter : Analyze(w, r, by)
  \/ \E resolved \in BOOLEAN : Resolve(w, r, resolved)
  \/ \E p \in PlanHash, by \in Submitter : Plan(w, r, p, by)
  \/ \E f \in Forecast : Simulate(w, r, f)
  \/ \E f \in Forecast, by \in Principal : Approve(w, r, f, by)

Settle(w, r) ==
  \/ \E p \in PlanHash, c \in Receipt : Reconcile(w, r, p, c)
  \/ \E c \in ReceiptArgument(r), passed \in BOOLEAN : Verify(w, r, c, passed)
  \/ \E c \in ReceiptArgument(r) : Close(w, r, c)
  \/ Refuse(w, r)

Next ==
  \/ \E w \in Worker, r \in Request :
       \/ Prepare(w, r)
       \/ \E p \in PlanHash : Execute(w, r, p)
       \/ Settle(w, r)
  \/ \E w \in Worker :
       \/ \E c \in Receipt : ExecuteStaged(w, c)
       \/ ExecutorRaises(w)
       \/ AppendEntry(w)
  \/ Crash

Spec == Init /\ [][Next]_vars
=============================================================================
