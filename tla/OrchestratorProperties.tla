----------------------- MODULE OrchestratorProperties -----------------------
(***************************************************************************)
(* What the journal's own audit (verify_bindings) looks for, and what must *)
(* be true of every history the orchestrator's gates let through.          *)
(***************************************************************************)
EXTENDS Orchestrator

----------------------------------------------------------------------------
(* Journal.verify_bindings: one operator per cause it reports.             *)

\* CAUSE_PLAN_MISMATCH: a forecast for a plan this request never recorded.
PlanMismatch(r) ==
  \E e \in Of(r, "simulate") :
    \A p \in Of(r, "plan") : p.plan # e.forecast.plan

ForecastRecorded(r, f) == \E e \in Of(r, "simulate") : e.forecast = f

\* CAUSE_APPROVAL_STALE: an approval of a forecast never recorded.
ApprovalStale(r) ==
  \E e \in Of(r, "approve") : ~ForecastRecorded(r, e.forecast)

\* CAUSE_SELF_APPROVAL: unlike the gate, the audit leaves ANALYZE out of the
\* requesters, and it looks at the whole history, not what preceded.
SelfApproval(r) ==
  \E e \in Of(r, "approve") :
    /\ ForecastRecorded(r, e.forecast)
    /\ \E s \in Of(r, "plan") \cup Of(r, "observe") : s.by = e.by

\* CAUSE_OVER_AUTHORITY
OverAuthority(r) ==
  \E e \in Of(r, "approve") :
    /\ ForecastRecorded(r, e.forecast)
    /\ e.forecast.tier > Authority[e.by]

\* CAUSE_NO_ATTEMPT
NoAttempt(r) == \E e \in Of(r, "execute") : e.attempt \notin Attempts(r)

\* CAUSE_NO_FORECAST
NoForecast(r) ==
  \E e \in Of(r, "execute") : ~ForecastRecorded(r, e.attempt.forecast)

\* CAUSE_UNAPPROVED
Unapproved(r) ==
  \E e \in Of(r, "execute") :
    /\ ForecastRecorded(r, e.attempt.forecast)
    /\ e.attempt.forecast.decision # "AUTONOMOUS"
    /\ \A x \in Of(r, "approve") : x.forecast # e.attempt.forecast

Outcomes(r) == Of(r, "execute") \cup Of(r, "reconcile")

\* CAUSE_NO_RECEIPT
NoReceipt(r) ==
  \E e \in Of(r, "verify") : \A x \in Outcomes(r) : x.receipt # e.receipt

\* CAUSE_CLOSE_UNVERIFIED
CloseUnverified(r) ==
  \E e \in Of(r, "close") :
    \A v \in Of(r, "verify") : v.passed => v.receipt # e.receipt

----------------------------------------------------------------------------
(* Invariants.                                                             *)

TypeOK ==
  /\ log \in [Request -> SUBSET Entry]
  /\ size \in [Request -> Nat]
  /\ last \in [Request -> [phase: Phase \cup {None},
                           plan: PlanHash \cup {None},
                           forecast: Forecast \cup {None},
                           receipt: Receipt \cup {None}]]
  /\ call \in [Worker -> Call]
  /\ ran \in [Request -> Seq(Attempt)]

\* However crashes, retries, re-planning and reconciliation interleave, the
\* executor runs for a request at most once: execute()'s write-ahead attempt
\* and its ALREADY_EXECUTED and UNRECONCILED gates together.
AppliedAtMostOnce == \A r \in Request : Len(ran[r]) <= 1

\* Whatever the executor ran was written ahead, on a recorded forecast of a
\* recorded plan, and was autonomous or approved by somebody of its tier: the
\* approval gate of approve() together with that of execute().
RunsAreAuthorised ==
  \A r \in Request : \A i \in 1 .. Len(ran[r]) :
    LET a == ran[r][i]
    IN  /\ a \in Attempts(r)
        /\ a.forecast.plan = a.plan
        /\ ForecastRecorded(r, a.forecast)
        /\ \E e \in Of(r, "plan") : e.plan = a.plan
        /\ \/ a.forecast.decision = "AUTONOMOUS"
           \/ \E e \in Of(r, "approve") :
                /\ e.forecast = a.forecast
                /\ a.forecast.tier <= Authority[e.by]

Quiet == \A w \in Worker : call[w] = Idle

\* The crash window is never silent: when no call is in progress and the
\* engine was changed, the journal has the outcome, or resume() offers a
\* restarted process reconcile() and nothing else.
CrashWindowIsVisible ==
  Quiet => \A r \in Request :
             ran[r] # <<>> /\ Done(r) = {} => NextPhases(r) = {"reconcile"}

\* An attempt gets one outcome (so never CAUSE_DOUBLE_EXECUTION): what
\* reconcile() observed is never joined by the execution it stood in for, nor
\* by a second observation.
OneOutcomePerAttempt ==
  \A r \in Request : \A e, x \in Outcomes(r) : e.attempt = x.attempt => e = x

\* The gates and the audit agree: of the causes verify_bindings reports, no
\* calls that the gates accept produce one of these, with any number of
\* threads between check and append; and a verification cites a recorded
\* receipt unless the caller brought its own.
BindingsHold(r) ==
  /\ ~PlanMismatch(r)
  /\ ~ApprovalStale(r)
  /\ ~OverAuthority(r)
  /\ ~NoAttempt(r)
  /\ ~NoForecast(r)
  /\ ~Unapproved(r)
  /\ ~CloseUnverified(r)
  /\ (\A e \in Of(r, "verify") : e.receipt \notin HandedIn) => ~NoReceipt(r)

GatesAnswerTheAudit == \A r \in Request : BindingsHold(r)

\* A closed request has nothing pending: every attempt has an outcome, and
\* closing cited a receipt that a passing verification cited.
ClosedIsSettled ==
  \A r \in Request :
    "close" \in Recorded(r) =>
      /\ Attempts(r) # {}
      /\ Unresolved(r) = {}
      /\ ~CloseUnverified(r)

----------------------------------------------------------------------------
(* What a step may never do.                                               *)

Ended(r) == {"close", "refuse"} \cap Recorded(r) # {}

\* After CLOSE or REFUSE nothing runs and nothing is recorded but a further
\* refusal or what reconcile() finds out, which have no gate to stop them.
EndedAdmitsNoWork ==
  [][\A r \in Request : Ended(r) =>
       /\ ran'[r] = ran[r]
       /\ \A e \in log'[r] \ log[r] : e.phase \in {"refuse", "reconcile"}]_vars

----------------------------------------------------------------------------
(* Refinement: the journal is one way to keep the promise of ChangeControl.*)

Granted(r) ==
  {e.forecast.plan : e \in {x \in Of(r, "simulate") :
                              Authorised(r, x.forecast)}}

Promise == INSTANCE ChangeControl WITH
  granted <- [r \in Request |-> Granted(r)],
  started <- [r \in Request |-> {a.plan : a \in Attempts(r)}],
  touches <- [r \in Request |-> [i \in 1 .. Len(ran[r]) |-> ran[r][i].plan]],
  settled <- [r \in Request |-> Attempts(r) # {} /\ Unresolved(r) = {}],
  ended <- [r \in Request |->
              IF "close" \in Recorded(r) THEN "closed"
              ELSE IF "refuse" \in Recorded(r) THEN "refused" ELSE "open"]

\* Every behaviour of the orchestrator, seen through its journal, is one the
\* abstract promise allows.
KeepsThePromise == Promise!CCSpec

----------------------------------------------------------------------------
(* What the code or its documents say and several callers, or a sequence   *)
(* of legal calls, refute.                                                 *)

\* reconcile() "records that as the execution": of the plan attempted.
ReconcilesWhatWasAttempted ==
  \A r \in Request : \A e \in Of(r, "reconcile") : e.plan = e.attempt.plan

\* What the gate checked still stands when the executor is called: one call
\* at a time this is what execute() reads, but a second thread's plan() or
\* simulate() falls between the gate and the run, and the run goes ahead.
RunIsNotStale ==
  [][\A r \in Request : \A i \in 1 .. Len(ran'[r]) :
       i > Len(ran[r]) => /\ ran'[r][i].plan = last[r].plan
                          /\ ran'[r][i].forecast = last[r].forecast]_vars

\* "does not get an entry written and then flagged later"
NoApprovalFlaggedLater == \A r \in Request : ~SelfApproval(r)
=============================================================================
