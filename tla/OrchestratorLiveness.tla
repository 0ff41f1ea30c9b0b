------------------------ MODULE OrchestratorLiveness ------------------------
(***************************************************************************)
(* What an operator who keeps following resume() obtains.  The operator is *)
(* the restart path of tests/_crash_worker.py and of acceptance.py: if an  *)
(* attempt is unresolved, reconcile; then verify, passing, and close.      *)
(***************************************************************************)
EXTENDS OrchestratorProperties

ReconcileAgain(r) ==
  \E w \in Worker, p \in PlanHash, c \in Receipt : Reconcile(w, r, p, c)

VerifyRecorded(r) ==
  \E w \in Worker : /\ last[r].receipt # None
                    /\ Verify(w, r, last[r].receipt, TRUE)

CloseRecorded(r) ==
  \E w \in Worker : last[r].receipt # None /\ Close(w, r, last[r].receipt)

ExecutorReturns(w) == ExecutorRaises(w) \/ \E c \in Receipt : ExecuteStaged(w, c)

\* A call in progress that is not killed for ever gets to its next append,
\* the executor returns or raises, and the operator retries a legal call that
\* other calls and crashes keep interrupting.  Nobody owes a preparatory call,
\* an execution or a refusal.
Fairness ==
  /\ \A w \in Worker : SF_vars(AppendEntry(w)) /\ SF_vars(ExecutorReturns(w))
  /\ \A r \in Request : /\ SF_vars(ReconcileAgain(r))
                        /\ SF_vars(VerifyRecorded(r))
                        /\ SF_vars(CloseRecorded(r))

FairSpec == Spec /\ Fairness

\* Wherever the process dies or the driver raises, and even if the request is
\* re-planned or refused meanwhile, an attempt does not stay unresolved.
EveryAttemptIsResolved ==
  \A r \in Request : Unresolved(r) # {} ~> Unresolved(r) = {}

\* A run recovered from the crash window can still be verified and closed
\* (what PREREQUISITES says of RECONCILE), as any executed request can; only
\* failing verifications that use up the bound on entries stand in the way.
EveryAttemptIsConcluded ==
  \A r \in Request :
    Attempts(r) # {} ~> (Ended(r) \/ size[r] >= MaxEntries)
=============================================================================
