# AAGCP control plane: TLA+ models, model checking and proofs

AAGCP governs personal data in warehouses and vector stores. A change (mask
these columns, erase this person) goes through a fixed loop, Observe, Analyze,
Resolve, Plan, Simulate, Approve, Execute, Verify, Close, and every phase is an
entry of a hash-chained journal from which a restarted process rebuilds
everything it needs. This directory holds the TLA+ models of that loop and of
the parts it drives, the TLC configurations that check them, and the TLAPS
proofs about them. All paths below are relative to the repository's root.

Contents: [1 Inventory](#1-inventory), [2 Modules](#2-modules-and-the-code),
[3 Runs](#3-runs), [4 Fairness](#4-fairness), [5 Proofs](#5-proofs),
[6 Findings](#6-findings), [7 Not modelled](#7-not-modelled),
[8 Plan](#8-plan), [9 Running](#9-running-it).

## 1 Inventory

### The parts, their state and what makes them correct

| part | code | state it keeps | operations | correct when |
|---|---|---|---|---|
| control loop | `aagcp/core/orchestrator.py` | none between calls: everything is read back from the journal | observe, analyze, resolve, plan, simulate, approve, execute, reconcile, verify, close, refuse; resume, receipt_for | a plan touches an engine at most once, only on a recorded forecast of the recorded plan, autonomous or approved within authority by somebody else; the crash window is visible; an ended request stays ended |
| journal | `aagcp/core/journal.py` | the list in memory, one line per entry on disk | append, _load, verify_chain, verify_bindings, replay, checkpoint | an acknowledged entry is durable or its loss is reported; an honest file passes verify_chain; a witnessed head can be answered |
| HTTP API and UI server | `aagcp/api.py`, `prod_ui.py` | registry of plan, forecast, receipt per request, in memory | the POST routes; GET routes read | what goes over HTTP passes the audit; the registry holds what the journal recorded last; a request can be continued after a restart |
| staged executors | `aagcp/core/executors/base.py`, `snowflake.py`, `postgres.py` | the receipt under construction, pre-states | preview, execute_staged (canary, remainder), rollback, reconcile | a record or verdict claims only what is so of the engine; a rollback restores what the engine let it; a doubt stops the run |
| erase executors | `aagcp/core/executors/erase.py`, `vector.py` | none | delete rows, re-query, delete vectors by id under an anchor | a re-query says absent only of rows that cannot be read back; no vector delete without an anchor |
| erasure request | `aagcp/core/erasure.py`, `verifier_adapter.py` | state, execution verdict, attestations, checks, receipts | authorise, record_*, verify_all, settle; attestability, adjudicate | COMPLETE only of an erasure that happened; refused in advance exactly when it could never be certified |
| erasure verifier | `aagcp/verify/erasure_verifier.py` | anchors and metadata in memory, the attestation log | register, verify (inspection, sweep, probe), forget | a pass is never given to a subject still present (I2) or over an unmeasured channel (I1) |
| forecast | `aagcp/core/simulate.py` | none; the caller holds plan, report and graph, each of its own time | simulate and its five signals, the decision rule | what is let through unattended was looked at, accounted for, small, and can be undone |
| coverage | `aagcp/core/coverage.py` | none; the report is held by the caller | assess, the partitions, rates, anomalies | no finding is left out of a report, and a rate of one says what it seems to |
| subject resolution | `aagcp/core/subject_resolution.py` | the identity index, taken of an estate that changes | resolve, select, linked keys, collision profile | an answer nobody chose is the asker; no key of a person goes missing silently |
| intent, policy, plan | `aagcp/core/intent.py`, `policy.py`, `plan.py` | none | compile_plan, plan_hash | what the policy treats is an operation, what it does not is reported |
| vault | `aagcp/vault.py` | tokens with reference sets, in memory and in a file | token_for, rehydrate, crypto_shred_identity, rectify, save, _load | a token is destroyed exactly when its last owner is shredded, and stays destroyed |
| vector platform | `aagcp/scan`, `migrate`, `detect`, `retrieve`, `store` | the store; a cleaning job between fetch and write-back | scan, clean (mask, batch, quarantine), query, erase and rectify over the vault | one person's erasure takes nothing from another and reaches every text of theirs; a report of a cleaning is so of the store |
| observability | `aagcp/core/observability.py` | none | spans, health | agrees with the journal |

`PROJECT.json` lists them all with their status, and 40 hazards at the lines
where they bite.

### How they interact

```
 HTTP handler threads ── Registry ──┐             ErasureRequest ◄── attestations ── verifier ── stores
        │ (api.py, prod_ui.py)      │                  ▲  ▲                                        ▲
        ▼                           ▼                  │  └─ receipts, re-queries ── erase executors ┘
   Orchestrator ── append/read ── Journal ── file      │
        │                                              │ (caller)
        └── execute / reconcile ── Executor ── engine ─┘
```

* Everything is a synchronous call. Concurrency enters in three places: the
  HTTP server is a `ThreadingHTTPServer` whose threads share one Orchestrator,
  one Journal and one Registry with no lock; the engines and vector stores
  apply a statement or a delete at a time of their own; and verification waits
  (`time.sleep`) while vectors move.
* A handler of the orchestrator *reads the journal, decides, then appends*.
  Between the reading and the append lie other threads and process death;
  `execute()` in addition calls the executor between its two appends, which is
  the crash window the journal's EXECUTE_ATTEMPT entry exists for.
* A driver error is either a StatementError (not applied), a TransportError
  (unknown), or something else, which escapes and leaves an attempt without an
  outcome.
* The cleaning of a vector index fetches, masks and writes back in batches; the
  applications go on writing meanwhile, tokens are registered in memory as texts
  are masked, and the vault's file is written by other operations.
* Plan, coverage report, dependency graph and forecast are values the caller
  holds on to; each may be of another scan than the next.
* The erasure request collects evidence its caller produced by calling
  executors, stores and verifier in any order, and judges only in `settle()`.

## 2 Modules and the code

`PROJECT.json` maps each definition to the lines it models. In every module an
operator `FaultX` is X with a plausible slip in it; no action uses one, and the
table of mutants says which property notices when it takes the place of X.

| module | models | state |
|---|---|---|
| `Orchestrator` | the eleven handlers and Journal.append as they see it | `log` (entries), `size`, `last`, `call` (per thread), `ran` (ghost: attempts whose plan the executor ran) |
| `OrchestratorProperties` | `verify_bindings`, cause by cause; the invariants; the refinement of `ChangeControl` | |
| `ChangeControl` | abstract: a change is granted, started once, run once, learnt, ended | `granted`, `started`, `touches`, `settled`, `ended` |
| `OrchestratorLiveness` | the operator that follows resume() | |
| `OrchestratorProofs` | theorems about the loop, its refinement and the routes | |
| `Api` | routes and registry over `Orchestrator` | `reg`, `handler` (per thread: what it has read, or has still to set), `raced` (ghost) |
| `Journal`, `JournalProofs` | the file: append in two threads, torn and failed writes, restart | `entries`, `lines`, `open`, `call`, ghosts |
| `Executor`, `ExecutorProofs` | preview, execute_staged, rollback, reconcile over the Snowflake hooks | `governs` (the engine), `records`, `receipt`, `saved` (a receipt recorded with its pre-state), ghosts `before`, `unmoved`, ... |
| `Postgres`, `ResolutionPostgresProofs` | the same stages over the Postgres hooks: a view per table, REVOKE and GRANT, the snapshot of grants | `view`, `grants` (the engine), `prestate`, `records`, `receipt`, ..., ghosts `before`, `touched`, `dropped`, `unmoved` |
| `Attestation` | verify()'s three stages as sets of outcomes, classify, attestability | none: operators |
| `Erasure`, `ErasureProofs` | ErasureRequest, erase executors, verifier port over rows and vectors | `rows`, `vectors`, `inflight` (the world); evidence; `anchors`, `probing`, `state` |
| `Verifier`, `VerifierProofs` | the verifier's own registration, baselines, radius, scores, retries, anchors and log file | `index` (the world), `anchor`, `kept`, `probing`, `log`, `file`, ... |
| `Vault` | PseudonymVault over one file | `book`, `file`, `torn`, `up` |
| `Estate`, `EstateProofs` (of both) | scanner, detector's choice of findings, migrator, retriever over one store and the vault | the vault's; `record` (the store), `job` (the cleaning) |
| `Coverage` | compile_plan, assess, partitions, governance, rates | none: operators |
| `Simulation`, `SimulationProofs` | scan, compile, assess, crawl of a schema and simulate, in any order | `estate`, `graph`, `plan`, `report`, `forecast` |
| `Resolution`, `ResolutionPostgresProofs` (of both) | resolve, select, from_resolution over an index of a changing estate | `estate`, `index`, `held`, `asked` |

### Orchestrator

A call is two steps: the handler's gate (`Observe` ... `Refuse`), which decides
the entry, and `AppendEntry`. `Execute` has `ExecuteStaged` or `ExecutorRaises`
and a second append after the first. `Crash` drops every call in progress and
nothing else, since there is nothing else: it stands for each kill point of
`tests/_crash_worker.py`, and falls between any two steps.

What is abstracted:
* The journal of a request is the *set* of its entries with the last phase,
  plan, forecast and receipt: the gates ask only "is there an entry such that"
  and "the last one of this phase". Two identical outcomes would be one element
  of the set, so outcomes carry their position.
* An append is durable at once; what a file does to that is `Journal`'s subject.
* A forecast is [plan, tier, decision] and a receipt [plan, verdict,
  reconciled], because these are what `forecast_hash` and `receipt_hash` cover
  that a gate reads; times are not in the hashes. An attempt id is the digest of
  request, plan, forecast and entry count, so it is that tuple.
* `verify()` and `close()` get any receipt the caller has: a recorded one or
  one of `HandedIn`, since the code does not compare them.
* `refuse()` and `reconcile()` have no phase gate in the code and none here.

### Api

A handler is three steps, and other handlers come between any two: it reads what
it needs from the registry (`Fetch`; a missing artifact answers 409 and changes
nothing), calls the orchestrator (`PostExecute` and its like pass the gate, `Return`
appends), and on the call's return sets the registry (`Register`). `Restart` kills
every handler and empties the registry. `raced` remembers of which artifacts two
handlers were to set the registry at once, until one sets it alone.

### Journal

`append()` builds the entry from the list in memory (`Build`), extends the list
(`Extend`) and writes a line (`Persist`, `PersistFails`, `CrashInWrite`). A cut
write leaves nothing, part of the text, the text without the newline, or the
line; without the newline the line is *open* and the next write lands on it.
An id stands for a body and its digest, and nobody edits the file, so
`verify_chain`'s third check (a body has its digest) is left out.

### Executor

The engine is what governs each column. A statement is accepted, accepted
without effect, rejected, or lost; a lost one lands at once or never. Only an
operation's last statement changes the governance of its column. `on_failure`,
the canary (ops sorted by size, percentage rounded up, clamped), the remainder,
`_verdict`, rollback's record by record undo, `Crash` and `reconcile()` are as
in `base.py`; the verification and undo statements are those of `snowflake.py`.
The statements of a rollback have the same four outcomes as those of a run, and
nothing asks the engine afterwards; `unmoved` remembers the columns whose last
undo was accepted and did nothing. A receipt may be recorded with its pre-state
(`Save`) and a rollback started from it in another process. Residual artifacts are
left out.

### Postgres

The same preview, run, rollback and reconcile, with what is different under
Postgres: the governed view belongs to the *table*, so the columns of a plan share
it; a column is taken from PUBLIC and given to the roles of the audience; preview
reads the grants and rollback gives them back one by one. An operation is several
statements and may end between any two. `Outside` is a DBA who grants or revokes
meanwhile. A run takes the operations in order and may end after any; how the
canary picks them is `Executor`'s. The snapshot of a column may come back empty
(`rows or []`), and a GRANT or DROP of a rollback may be accepted and do nothing.
Four history variables serve the properties: the grants at preview (`before`), the
columns others changed since (`touched`), the tables whose view a rollback has
dropped since the engine was last asked (`dropped`) and the grants a rollback gave
that the engine passed over (`unmoved`).

### Attestation and Erasure

A row is held, recoverable (Time Travel) or gone; a vector is live, residue
(dead tuple, tombstone) or gone. `Inspections`, `Sweeps` and `Readings` give
every outcome the stages of `verify()` may have in a given world, under two
assumptions about the outside: a channel that was measured is right (the HNSW
query looks at one page, and `n_dead_tup` is an estimate), and the probe is
sound in the sense of I2, that is, it notices a live anchored vector. The first
is an assumption about Postgres, the second is what the statistics are for. A
verification is two steps, `AttestBegin` (inspection, sweep) and `AttestEnd`
(the last probe), because it sleeps and re-probes between them and deletes land
meanwhile; `Disturb` keeps, as a ghost, that one did. Probes that are re-run
leave nothing behind, so only the last is a step.

`settle()` compares the token an attestation names only if the subject has one
(`AboutSubject`); a subject without a token takes any.

A table that is erased by nulling fields is one whose fields include the
subject column, as in the tests; the constructor does not demand it, and without
it the re-query finds the row for ever and the request cannot close.

The world never re-ingests the person: an erasure that is undone by a new
import is out of scope of the code as well.

### Verifier

`Attestation` *assumes* that the probe notices a live record. `Verifier` has the
probe the code has, in hundredths of a cosine: the baselines `register()` takes
with the record visible and hidden, the radius derived from the controls, the
score of the region, the paired verdict (`paired_verdict`) and the rank among
the controls (`Rank`), and shows that what the probe reports of a record which
is where it was registered is one of `Attestation`'s readings of a live one
(`ProbeIsSound`). So the two modules compose: the assumption of one is the
property of the other. Between registration and each probe others write the
index (`OthersWrite`). What is abstracted: the probes are points around the
anchor, and a radius takes the same off every similarity (in the code r
costs about r^2/2, clamped at a half); the median over the probes is one score;
all controls but those with a copy are alike. The log is in memory and in a file
that each append truncates and rewrites; a start that cannot read it begins an
empty one.

### Vault and Estate

A token is a keyed digest of a value and is identified with the value. `Vault`
has the four tables, memory and file: every `VaultNext` disjunct is a public
method, death and reload; a save truncates and rewrites the file, and the
process may die between the two, after which it does not load. `Estate` is what
uses it: the scan (ids first, then chunks that may fail), the masking of one
vector at a time under the identity of its strongest finding, the write-back of
full batches, the deletions at the end, queries, erasures and corrections, with
applications that write and remove vectors at any time. A text is its set of
findings with places and strengths; `Scanned` is the choice among overlapping
ones. `burnt`, `claim` and `touched` are history the properties need. `Estate`
implements `Vault` (theorem `EstateUsesTheVault`), so what is proved of the
vault holds of the platform.

### Coverage and Simulation

`Coverage` has `compile_plan()` and `assess()` as operators on what a scan
brought back. `Simulation` gives them a caller who scans, crawls, compiles,
assesses and simulates in any order and holds on to the results, so report,
plan and graph may be of different times, as the UI and the tests can make them.
The five signals with their floors and credits, the tier and the decision are
those of `simulate.py`. In the control loop a forecast is still chosen freely
among [plan, tier, decision]: `Orchestrator` promises what it promises for any
forecast, and `Simulation` says what a forecast is worth.

### Resolution

People have keys of several kinds, several of one kind perhaps; the estate
changes; an index is a list of records taken of it at some time, of everybody or
not, perhaps unable to answer for a kind. `resolve`, `select` and
`from_resolution` are operators applied to what the caller holds. A value is
what normalisation leaves of it. The asker gives one or two keys of their own,
or leaves a field blank.

## 3 Runs

| run | question | instance | distinct states |
|---|---|---|---|
| `orchestrator` | do the gates keep what the audit, and the promise, ask for? | 1 request, 1 caller, 2 plans, 3 forecasts, 2 principals, a foreign receipt | 323,929 |
| `orchestrator_liveness` | does following resume() always conclude? | 2 plans, 2 forecasts | 11,208 |
| `api` | do overlapping handlers keep to the audit, and the registry to the journal? | 1 request, 2 handler threads, no foreign receipt, 8 entries | 972,181 |
| `journal` | what may a file lose silently? | 2 threads, 4 entries, 2 cut writes, threads symmetric | 2,062,341 |
| `executor` | are receipts true of the engine? | 3 columns: reversible canary, irreversible mask, drop; all initial governances and failure policies | 6,236,670 |
| `postgres` | are they under views and grants, and what does a rollback give back? | 2 columns of 1 table, one of them at first open to PUBLIC at most, 3 grantees, an audience of one role, 1 change of grants by others | 3,626,302 |
| `erasure` | does COMPLETE mean erased? | 1 table, 1 store of each of 8 kinds, 2 keys, a subject with a token or without | 346,270 |
| `verifier` | may the probe be believed, and does the log keep what was attested? | 3 similarities, 2 ordinary neighbourhoods, 18/19 controls of which 0/5 have copies, 2 stores, 2 changes of the index, 1 retry, 2 attestations | 1,799,920 |
| `estate` | what survives masking, erasing and restarting? | 2 vectors, 3 values, 1 write or removal by others, 2 erasures, corrections or queries, 1 death, batches of 2 | 1,172,927 |
| `simulation` | what does AUTONOMOUS rest on? | 2 columns in 2 tables, 12 column facts, 3 schema contents, 3 graphs, budgets LOW and MODERATE, one rescan | 1,922,529 |
| `resolution` | who is erased? | 2 people, 3 kinds, 4 values one of which is both phone and account, 1 change of the estate, outage of phone, queries of 1 or 2 keys | 98,898 |
| `threads` | (violation) two handler threads execute one plan twice | 2 workers | |

What the passing ones show:

* **orchestrator.** `AppliedAtMostOnce` and `RunsAreAuthorised` are about `ran`,
  what was really done to the engine, against the journal.
  `CrashWindowIsVisible` says that whenever no call is in progress and the
  engine was changed without an outcome, `resume()` offers reconcile and nothing
  else. `GatesAnswerTheAudit` states that two independent pieces of code, the
  gates and `verify_bindings`, agree: no sequence of accepted calls makes the
  audit report a mismatched plan, a stale or over-authorised approval, a run
  without attempt, forecast or approval, a verification of an unrecorded receipt
  (unless the caller brought its own), or an unverified close.
  `OneOutcomePerAttempt`, `ClosedIsSettled` and `EndedAdmitsNoWork` concern what
  reconcile, verify, close and refuse may do in sequence. `KeepsThePromise` is
  the refinement: seen through the journal, every behaviour is one of
  `ChangeControl`.
* **api.** `HttpPassesTheAudit`: with two handlers that read the registry, append
  and assign in any interleaving, the audit finds nothing the gates stand for, and
  no verification of an unrecorded receipt. `RegistryIsCurrent`: an artifact held
  in memory is the last one recorded, or a handler is about to set that one;
  except for an artifact that two handlers were to set at once (`raced`), of which
  the older may stay, a finding.
* **journal.** `LossIsReported` holds whatever threads and failures do.
  `TearsBoundLosses` counts: a cut write costs at most one acknowledged entry
  (the one written onto it). `NoFalseAlarm` and `WitnessedHeadIsKept` hold as
  long as appends did not overlap and none failed while the process went on.
* **executor.** `RecordsAreTrue` (per record), `VerdictIsTrue` (per receipt),
  `RollbackRestores` and `StopsAtTheFirstDoubt` compare what receipts say with the
  engine, over lost statements, silent non-effects, crashes at any point,
  rollbacks that fail half-way, are repeated or start from a recorded receipt, and
  reconciliations. `RollbackRestores` is of columns whose last undo was not
  accepted without effect; that this case is recorded as rolled back too is a
  finding.
* **postgres.** `VerifiedIsGoverned`: what a record says was verified stays so
  until somebody grants the column again or a rollback drops the view of its
  table. `RollbackGivesBack`: a column recorded as rolled back is open to whom its
  snapshot says it was, as far as the engine heeded the GRANTs, and to nobody it was
  closed to but the audience the run itself let in.
* **erasure.** `CompleteMeansErased` compares COMPLETE with the rows and vectors
  that exist, over late, partial and wrong-id deletes, retention windows,
  executions of the plan that half failed, re-queries that cannot run,
  attestations of somebody else, restarts; of a subject without a token it claims
  the rows only, since any subject's attestation closes its stores, a finding.
  `APassMeansErased` does so for a single attestation of the subject's own.
  `AttestabilityIsHonest` compares the pre-check with what the verifier could
  possibly classify.
* **verifier.** `ProbeIsSound` is I2 of the module, as far as it is so: the
  caller leaves the radius alone, and without baselines no control has a copy.
  The two exceptions are findings (`PresentNeverPasses` is false).
  `AttestedStaysLogged`: an attestation handed out is at its place in the log
  and on file across writes cut short, deaths and restarts, as long as no
  process started on a file it could not read.
* **estate.** `ReferencesAgree`: owners and held tokens agree in memory and on
  file. `LegalActsStand`: no step, a restart with an older file included, undoes
  an erasure or a correction. `OthersStayReadable` and `ErasureReaches` are the
  two sides of the reference count, over texts masked before and after the
  erasure. `FiledNamesFind`: the names a text is filed under, its first person's
  and the strong identifiers, find its identity; a second person in the text is
  filed under nothing, a finding. `CleaningMasksWhatItGot`: of vectors nobody else
  wrote, what a cleaning lists as re-embedded is masked, and what holds
  identifiers still was never given to it.
* **simulation.** `AutonomyIsEarned`: whatever is let through unattended can be
  undone and was counted (`IsUndoable`), is small, with what *really* depends on
  it, answered or not (`IsSmall`), and its report, if taken with a plan, was taken
  with the same operations, over what the budget demands (`IsAssessed`). Of which
  scan the report is, it does not say: a report of an older estate passes, a
  finding. `FindingsAreAccounted`: no found column is in no count of a report.
  `AFullRateIsEarned`: a rate of one says what it seems to.
* **resolution.** `TheRightPerson`: an answer nobody was asked to choose is the
  asker, and an index of everybody has the asker among the candidates.
  `FragmentsShow`: a request with no uncovered key covers every key the index knew
  the person by.

### Bounds, and why they are enough

* *One request*: every handler reads entries of its own request only, so
  requests share nothing but the chain, which `Journal` models. *One worker* is
  how the tests and the acceptance harness call the orchestrator; two are what
  the HTTP server allows, and refute `AppliedAtMostOnce` (run `threads`).
* `MaxPrep` (no preparatory phase begins at or past that many entries) and
  `MaxEntries` (no verify or refuse) cut the two loops that could go on for
  ever; 7 preparatory entries reach a re-plan with a new simulation and approval
  after an approval, 9 leave room for attempt, outcome, verification and close.
  Execution, reconciliation and closing are not bounded: they end by themselves.
* The bounds are in guards and not in constraints, so liveness is not checked on
  cut-off behaviours, and the proofs do not use them.
* *Two plans, three forecasts* give a re-plan, a re-simulation of the same plan
  with another tier, a tier above the officer's authority, an autonomous plan.
* *Journal*: with two threads the shortest fork needs two entries, a loss by an
  open line needs a cut write and another append, and four entries let both
  happen twice.
* *Executor*: one operation of each behaviour the code distinguishes, two policies,
  so that a column may be under the plan's own before. Rollbacks and crashes are not
  bounded; one receipt is recorded.
* *Postgres*: the second column, of the same table, is what a shared view can go
  wrong with; that it is open to PUBLIC or nobody at first only saves states, the
  other column starts with any grants. Rollbacks, crashes and lost statements are
  not bounded.
* *Verifier*: a neighbour may be far, half-way, or a copy; a typical neighbour
  far or nearly a copy, so that the radius is at its clamp or small; 18 controls
  are one too few, with 19 the least p is the threshold itself, which passes, and
  five copies among them lift it over. Two changes of the index let one fall between
  registration and probe and one between two probes.
* *Estate*: two vectors with a value in common are needed for one person's
  erasure to touch another's text, a batch of two for the second fetch to go
  before the first write; erasing and correcting or querying are two acts. One
  death suffices to lose what was not saved.
* *Simulation*: each column fact differs from the best case in what one rule
  tells apart; two columns give sums and partitions that differ, two tables and
  a view every floor of the rubric (scaled to 2 and 4 rows). HIGH and CRITICAL
  budgets leave `IsSmall` nothing to say.
* *Resolution*: two people of one name, one with two account ids, a number that
  both may have: the smallest estate with ambiguity, fragments and a
  reassignment.
* *Erasure*: stores (with a port each) and tables are judged one by one and
  joined by "and", so one of each suffices; 18, 20 and 99 controls lie on the
  sides of both thresholds; two keys make the unresolved link appear.

Deadlock is checked but for `orchestrator`, `orchestrator_liveness`, `api` and
`threads`, where a closed or refused request at its bounds has nothing more to do,
and `estate`, where a torn vault file ends everything.

## 4 Fairness

`FairSpec` takes strong fairness of: a call's next append; the executor's return
or raise; and, per request, the operator's reconcile, verify with the recorded
receipt, and close. The first two say that a process is not killed for ever at
the same point. The other three are the restart path of
`tests/_crash_worker.py` and of `acceptance.py`, which look at `resume()` and go
on; strong, since crashes and other calls keep interrupting them. Nobody owes a
preparatory call, an approval, an execution or a refusal. No other module states
fairness: an erasure, a cleaning or a verification is owed by nobody in the code,
which has no scheduler and no retry queue.

## 5 Proofs

| theorem | states, for every value of the constants |
|---|---|
| `OrchestratorProofs!TypeCorrect` | `Spec => []TypeOK` |
| `OrchestratorProofs!AuditFindsNothing` | `Spec => []GatesAnswerTheAudit` |
| `OrchestratorProofs!OnlyAuthorisedRuns` | `Spec => []RunsAreAuthorised` |
| `OrchestratorProofs!NoSilentCrash` | `Spec => []CrashWindowIsVisible` |
| `OrchestratorProofs!AtMostOnce`, `OneOutcome`, `NothingPendingAtClose` | under `OneAtATime`: `[]AppliedAtMostOnce`, `[]OneOutcomePerAttempt`, `[]ClosedIsSettled` |
| `OrchestratorProofs!NoWorkAfterTheEnd` | under `OneAtATime`: `EndedAdmitsNoWork` |
| `OrchestratorProofs!PromiseKept` | under `OneAtATime`: `Spec => KeepsThePromise`, the refinement of `ChangeControl` |
| `OrchestratorProofs!RegistryStaysCurrent`, `HttpAuditFindsNothing` | any number of threads: `ApiSpec => []RegistryIsCurrent`, `ApiSpec => []HttpPassesTheAudit` |
| `JournalProofs!JournalTypeCorrect`, `NothingIsDroppedSilently`, `ATearCostsOne` | `Spec => []TypeOK`, `[]LossIsReported`, `[]TearsBoundLosses` |
| `JournalProofs!TheChainHolds`, `ACheckpointIsKept` | `Spec => []NoFalseAlarm`, `[]WitnessedHeadIsKept` |
| `ExecutorProofs!ExecutorTypeCorrect`, `RecordsAreHonest`, `VerdictIsHonest`, `RolledBackIsRestored`, `NoStepPastADoubt` | under `OneEach`: `[]TypeOK`, `[]RecordsAreTrue`, `[]VerdictIsTrue`, `[]RollbackRestores`, `StopsAtTheFirstDoubt` |
| `ErasureProofs!ErasureTypeCorrect` | `Spec => []TypeOK` |
| `ErasureProofs!AttestabilityAgrees` | under `EnginesInUse`: `[]AttestabilityIsHonest` |
| `ErasureProofs!PassIsTrue` | under `OwnPorts`, `SweepsFinish`: `[]APassMeansErased` |
| `ErasureProofs!CompleteIsTrue` | and `OnePlan`: `[]CompleteMeansErased` |
| `EstateProofs!OwnersHold`, `ActsAreForGood` | `VaultSpec => []ReferencesAgree` with its types, `VaultSpec => LegalActsStand` |
| `EstateProofs!EstateTypeCorrect`, `EstateUsesTheVault` | `Spec => []TypeOK`; `Spec => VaultSpec`, the platform implements the vault |
| `EstateProofs!ErasingSparesOthers`, `NamesReachTheirTexts` | `Spec => []OthersStayReadable`, `Spec => []FiledNamesFind` |
| `EstateProofs!ErasureReachesTexts`, `CleaningsMask` | `Spec => []ErasureReaches`, `Spec => []CleaningMasksWhatItGot` |
| `SimulationProofs!AccountsForFindings` | `Spec => []FindingsAreAccounted` |
| `SimulationProofs!AutonomyIsAlwaysEarned`, `FullRatesAreEarned` | `Spec => []AutonomyIsEarned`, `Spec => []AFullRateIsEarned` |
| `ResolutionPostgresProofs!ResolvesTheAsker`, `NoKeyGoesMissing` | `Spec => []TheRightPerson`, `[]FragmentsShow` |
| `ResolutionPostgresProofs!VerifiedStaysGoverned`, `RollbackIsExact` | `PgSpec => []VerifiedIsGoverned`, `PgSpec => []RollbackGivesBack` |
| `VerifierProofs!ProbeSoundness`, `LogKeepsAttested` | `Spec => []ProbeIsSound`, `Spec => []AttestedStaysLogged` |

The assumptions are those of the modules: forecasts are of plans, receipts are
typed, authority is a function, `None` and `Torn` are values of their own.

*The argument for the orchestrator.* All handlers have one shape, a gate and
then an append, so the lemma `Gates` says once what every gate lets through: an
entry `Backed` by what is already recorded. Recording only adds
(`BackingIsMonotone`), therefore what was backed stays backed until it is
appended, whatever other threads appended meanwhile. That is `Grounded`, the
inductive invariant behind both the audit and the authority of runs; it includes
the entries that calls in progress are about to append and the attempts the
executor is about to run. It needs no bound on the number of threads: those two
theorems, and the visibility of the crash window, hold for the threaded server
too.

*At most once* is different, and the proof shows where the thread matters:
between the gate of `execute()` and the append of its attempt, no other attempt
may appear. `NothingRanYet` says so, and is inductive only under `OneAtATime`
(the assumption is in the theorem); run `threads` is its counterexample
otherwise. What concerns sequences of calls rests on the stronger `InOrder`,
again for one call at a time: attempts and outcomes of a request alternate and
an outcome is of an attempt before it (`Settled`), what a call is about to append
still fits the journal its gate saw (`Timely`), and a run under way is of the
attempt appended last (`Underway`). The refinement maps each step of the loop to
one of `ChangeControl`'s or to none: the append of a forecast grants, that of an
attempt starts, the executor runs, an outcome settles, closing or refusing ends.

*The routes* are steps of the loop or leave it alone (`RouteIsHandler`), so what is
`Grounded` stays so. Two more parts are needed. That a receipt which any handler
holds, the registry or a thread, is of a recorded outcome of its request: then the
audit finds no verification of another. And that of the handlers about to set an
artifact each has the last one recorded, and without one the registry has it,
unless two were to set it at once: a thread that appends while no other is between
append and assignment makes its own artifact the last, and until it has set it
`Setting` is not empty.

*The argument for the journal.* An acknowledged entry is either on file, or it
was the open last line and was overwritten by a torn one, which stays torn and is
reported. The invariant `Kept` needs beside `LossIsReported` only that an open
line exists; neither the types of entries nor the chain. `Counted` bounds what
was lost: each tear either spoils an acknowledged line, which it puts among the
lost, or leaves a line open, which owes one tear for the loss to come. `InStep`
is for orderly histories: memory and what parses of the file are one list, up to
an entry a call is about to write, ids ascend, and each entry has its
predecessor's id; a checkpoint is answered because the list only grows.
`Loaded` names the n-th line that parses by counting instead of by recursion, so
that facts about it follow from cardinalities and the lemma `Least` (a nonempty
set of naturals has a least element).

*Executor.* `Sound` describes a run in the order it happens: the records are of
a prefix of the schedule, no column but theirs and the one in hand differs from
before, and only past its last statement; a rollback has taken the records of
its receipt in turn and those it has not come to are still honest. Then each of
the properties is read off one of its parts. A statement of one operation must
not disturb the record of another, which is where `OneEach` is needed (finding 9
has two operations on one column). `SavedStands` says that a receipt recorded
earlier is of the same records and that what it has not undone is still honest, so
that a rollback may start from it. `Schedule` is spelt, as `Loaded` is, by
counting; that it takes every operation once is a lemma. `VerdictStands` carries
a reconciled or completed verdict through a rollback that changed nothing.

*Erasure.* The world only loses the person's data (`NothingComesBack`), so
evidence that was true when taken stays true. It is true when taken since a
passing classification needs a probe that noticed nothing, a finished sweep and
measured channels (`PassStep`), a verification in progress carries what it read
(`ProbeHolds`), and a re-query says absent only of a table out of retention
(`Retained`, `ChecksHold`). `settle()` then joins one fact per table and, for a
subject with a token, one per store. The hypotheses are those the findings show to
be needed: a port per store, sweeps that finish, a plan for the one key that is
covered, and, for the pre-check, the engines in use.

*Vault and estate.* `Sound` is inductive for the vault: tables agree in memory
and in the file, a torn file has no process, and a file that is not torn has
every erasure and correction of memory, which is what makes a restart harmless
to them. The estate's steps are vault steps or leave it alone (`StepOfVault`),
so `Sound` carries over; `AllKnown` adds, for every text masked or about to be
written, that its claim owns its tokens and has its display names, and both
properties of the estate are read off it. An erasure disturbs only texts of the
erased identity, whose claim becomes `Gone`; a restart sets the claims it forgot.
`AllTraced` is what an erasure leaves behind: every token of an erased text is
destroyed or owned by somebody, in memory and in the file, for the file is what a
restart brings back. `Descent` says that every text governed after a step is one
from before under the same claim, unless its person was just erased or a restart
forgot it, or a fresh one; so it is enough that an erasure leaves each token it
touches destroyed or owned (`ShreddedIsSettled`). `OnCourse` follows a cleaning:
a vector is to do, to be deleted or re-embedded, never two of these, and what
still holds findings is to do, about to be masked, or was never given to it; at
the end nothing is to do and nothing is pending, which leaves what was missed.

*Simulation.* `IInv` says that what the caller holds was computed: a report is
`assess` of its estate, a plan compiled, the forecast `Forecast` of its own
inputs. The rest is the decision of one forecast, signal by signal: an operation
that cannot be undone or was not counted keeps the decision from AUTONOMOUS, and
so do every deficiency of the report over the budget and every floor above it
(`FloorBounds`). A graph that answered for all it reached has reached all there
is: what it reaches is then closed under the real dependencies too, and the least
closed set is in every closed one (`ReadableIsComplete`). Rows and listings are
counted as sets of rows and of listings, so that a sum is a cardinality, and a
rate of one makes two sets equal of which one is part of the other
(`CountOfPart`, `CountOfRest`).

*Resolution.* `IndexIsTaken` and `LinkedIsHeld` say where the held answer comes
from; that the asker is among those who match is a lemma on one index and query,
and a single match is then the asker.

*Postgres* shares its proof module with `Resolution` and nothing else. `PgInv`
takes records and receipts in the order of the plan (`InTurn`), so that a record
is of another column than the operation in hand, which is where the assumption
that a plan names a column once is needed. `ClaimsHold` says of the records, and
of those a rollback has not come to yet (`Awaiting`), that what they claim is so;
a statement of a run leaves every other column's grants and every view standing
(`StatementSpares`), a statement of a rollback only adds grants, and drops a view
only of a table in `dropped`. `UndoInHand` says that the snapshot is `Returned`,
given back or passed over, but for what is left to do, as long as nothing was
rejected or lost, and `NobodyElse` bounds the grants of every column by those before
and the audience. TLC
checked `PgInv` on the instance of the run before it was proved.

*Verifier.* `ProbeInv` keeps that an anchor with baselines was measured, its
upper baseline being the record's similarity less the radius (`IsMeasured`).
`PairedNoticesPresence` is the arithmetic: with the record still there the score
is at least the upper baseline, so it is nearer to it than to the lower one,
whatever came into the index since. `RankNoticesPresence` does so for the
unpaired test. `LogInv` needs only that the log's entries are entries.

Every invariant and every action property of the runs is a theorem, some under
the assumptions in the table. TLC only: the two liveness properties, since tlapm
does no liveness.

## 6 Findings

Disagreements between the code and what it says of itself, met while modelling.
`PROJECT.json` quotes the lines. The first is shown by a run; where a property is
named, the module states it and TLC refutes it when it is put in the place of the
checked ones (the instance the finding names, if another).

Control loop, API, journal:

1. `execute()` is check-then-append without a lock under a threading server: the
   plan runs twice (run `threads`), and a plan or forecast recorded between its
   checks and the run leaves the run on the one before (`RunIsNotStale`). Two
   handlers that record an artifact of one request may set the registry in the
   other order (`RegistryIsCurrent` without `raced`).
2. `reconcile()` compares with the last recorded plan, not with the attempt's
   (`ReconcilesWhatWasAttempted`).
3. `reconcile()` after REFUSE makes `replay()` call the request open again. The
   models count an entry of either kind as the end, as `_require` does;
   `health()` of `observability.py` does too, so it and `open_requests()` differ.
4. After a restart the HTTP routes never call `receipt_for()`
   (`ExecutedIsConcluded`).
5. A torn last line swallows the next acknowledged entry
   (`AcknowledgedIsDurable`).
6. `append()` extends the list before it writes, so a failed write leaves memory
   ahead of the file; `NoFalseAlarm` holds only of histories without one.
7. An approver may record PLAN or OBSERVE after approving, and only the audit
   notices (`NoApprovalFlaggedLater`).
8. `verify()` never writes the attestation-log references that `verify_bindings`
   demands, so an attested verification is always flagged.

Executors:

9. A rollback verifies nothing: an undo that was accepted and did nothing is
   recorded as rolled back, under Snowflake and Postgres alike. Rollback of a
   column governed earlier by the same policy leaves it bare
   (`RollbackNeverBares`); a rollback whose undos were all rejected returns
   COMPLETE; a lost undo followed by a rejected one is recorded as partially
   applied; two operations on one column are run as one.
10. Under Postgres the rollback of one column drops the view the table's other
    columns are verified by, and gives back access that was revoked meanwhile
    while leaving the audience what the run gave it. An empty answer to the query
    for the grants is a snapshot of none: such a column is rolled back by giving
    nothing back.

Erasure and its verifier:

11. An aborted sweep is a clean sweep; a verifier port attests its own store under
    any name and logs an attestation a second time; two keys of one table share
    one re-query; a subject without a token is settled by anybody's attestation;
    qdrant and generic engines are attestable in advance and never afterwards;
    channels read before the probe can be stale at the end of it; Time Travel is
    judged by the table's setting, so a window never closes.
12. A subject still present may be attested erased without baselines, when some
    controls have copies, or with a radius of the caller's
    (`PresentNeverPasses`); a log that cannot be read is replaced by one whose
    chain verifies (`LossOfTheLogShows`); the claim for Pinecone ignores that a
    paired verdict was uninformative.

Vault and vector platform:

13. Tokens are registered in memory only and nothing in the migrator saves them,
    so after a restart masked texts cannot be read; without a configured secret a
    restart forgets erasures; masking a text that mentions an erased person stores
    the name again. A text is filed under the first person it names, so an erasure
    asked for by the second one's name does not find it.
14. The report's `vectors_left_dirty` is the constant 0; a vector removed between
    fetch and write-back comes back; a chunk that fails is left out of a "whole
    index" scan; overlapping findings are resolved by start and not by length;
    only part of the identifiers become lookup keys.

Coverage, plan, forecast:

15. A report taken before there was a plan earns the credit of a clean one
    (`NothingFoundIsLeftUnasked`); a report is accepted as one on a plan of the
    same operations compiled from a later scan; a column with two identifiers,
    one treated, counts as governed; an unmeasured signal removes the floor of
    what was measured; excluded columns get operations; the UI's graph claims to
    know every table; the rubric's prior for erasures is keyed by a name no
    operation has.

Subject resolution:

16. The same name twice, or a name and a blank, corroborate each other
    (`NeverOnItsOwn`); an earlier key of a person resolves to whoever has it now;
    linked keys are compared by value alone.

Where a finding would break a property that is worth having, the property's
comment or its instance says how it is excluded: one port per store, one covered
key, engines in use, a plan that names no column twice, the ghosts `moved`,
`orderly`, `raced`, `unmoved` and `touched`, a subject with a token, current keys
only, a claim a restart forgot.

## 7 Not modelled

* The detector's regular expressions, name cues and NER backend, chunking,
  embedding, ranking and the clients' wire formats are string processing or
  services; what they return enters as sets of findings and records.
* Reports (PDF), telemetry, the prompt guard, the command line and the demos have
  no state that another step reads.
* Observability only projects the journal; where its rule differs from replay's
  is finding 3.
* Digests, signatures, encryption of anchors, SQL text and YAML configuration:
  the models take a digest to be what it digests and a statement to be its effect.
* The statistics of the probe beyond ranks and distances (random directions,
  Clopper-Pearson bounds) are not decidable by a model checker.
* The policy registry's and the intents' validation, constructors that only
  refuse a malformed argument, and the resolver's masked views and collision
  profile, which counts what the lookup it describes would find.
* `aagcp-merged/` is an older copy of the package that differs trivially in three
  files; it doubles the lines of the repository, not what there is to model.

Modelled in part: a table run inside an erasure is one step (its statements run
under `Executor`); `Erasure` has one key and one store, since with two the code
does what findings 11 describe.

## 8 Plan

Built, most important first: `Orchestrator` with `ChangeControl`, `Api`,
`Journal`, `Executor`, `Erasure` over `Attestation`; then `Vault` and `Estate`,
`Coverage` and `Simulation`, `Resolution`, `Postgres`, `Verifier`. All have proofs.

Left, in this order:

1. `Simulation` composed with `Orchestrator`, a forecast computed and not chosen.
2. `Erasure` for two keys and two stores, once with a plan per key, and with the
   statements of its table run from `Executor`.
3. `health()` and `learn()` as operators beside `replay()`.

## 9 Running it

```
cd tla
tlc -workers 2 -config MCOrchestrator.cfg MCOrchestrator
tlc -workers 2 -config MCThreads.cfg MCOrchestrator      # finds the violation
tlapm OrchestratorProofs.tla
```
Each run takes seconds to two minutes; the proofs together a few.
