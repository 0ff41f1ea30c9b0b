------------------------------- MODULE Erasure ------------------------------
(***************************************************************************)
(* The erasure of one person: aagcp.core.erasure.ErasureRequest, the erase *)
(* executors over tables and vector stores, and the verifier, acting on    *)
(* rows and vectors that are really there or not.                          *)
(*                                                                         *)
(* The request object takes what it is handed in any order and settles     *)
(* when asked.  A caller records what an executor or a re-query returned   *)
(* as it returns, so each such call is one step with its recording; a      *)
(* verification is two, since vectors move while it waits and probes.      *)
(* Nobody writes the person back while the erasure is under way.           *)
(***************************************************************************)
EXTENDS Attestation

CONSTANTS
  Table,        \* structured targets
  Store,        \* vector targets
  Key,          \* keys the person's rows are filed under
  Subject,      \* the key the request is made for
  Request,      \* [targets, retention, linked, covered, accepted, tokened]
  Port,         \* Port[s]: the store probed by the port asked about s
  SweepAborts,  \* may a sweep be cut short by an error
  None

ASSUME SubjectAssumption == Subject \in Key

ASSUME RequestAssumption ==
  Request \subseteq [targets: [Store -> Target],
                     retention: [Table -> {"closed", "open", "unread"}],
                     linked: SUBSET Key, covered: SUBSET Key,
                     accepted: SUBSET Store, tokened: BOOLEAN]

ASSUME PortAssumption == Port \in [Store -> Store] /\ SweepAborts \in BOOLEAN

VARIABLES
  request,            \* what the request was built with
  rows,               \* rows[t][k]: "held", "recoverable" or "gone"
  vectors,            \* vectors[s][v]: a Condition
  inflight,           \* inflight[s]: vectors a delete may still remove
  anchors,            \* the stores whose anchor and handle are at hand
  probing,            \* probing[s]: None, or what the first stages left
  state,              \* the RequestState
  execution_verdict,
  attestations,       \* per store
  structured_checks,  \* per table
  vector_receipts     \* per store

world == <<rows, vectors, inflight>>

evidence == <<execution_verdict, attestations, structured_checks,
              vector_receipts>>

vars == <<request, world, anchors, probing, state, evidence>>

View == [classification: Classification, ours: BOOLEAN, moved: BOOLEAN]

----------------------------------------------------------------------------

Fresh ==
  /\ state' = "OPEN"
  /\ execution_verdict' = "none"
  /\ attestations' = [s \in Store |-> None]
  /\ structured_checks' = [t \in Table |-> "unknown"]
  /\ vector_receipts' = [s \in Store |-> "none"]

Init ==
  /\ request \in Request
  /\ rows = [t \in Table |-> [k \in Key |-> "held"]]
  /\ vectors = [s \in Store |-> [v \in Vector |-> "live"]]
  /\ inflight = [s \in Store |-> {}]
  /\ anchors = {s \in Store : request.targets[s].registered}
  /\ probing = [s \in Store |-> None]
  /\ state = "OPEN"
  /\ execution_verdict = "none"
  /\ attestations = [s \in Store |-> None]
  /\ structured_checks = [t \in Table |-> "unknown"]
  /\ vector_receipts = [s \in Store |-> "none"]

\* authorise(): refused unless each store that cannot be attested is covered
\* by a named acceptance.
Blockers ==
  {s \in Store : ~Attestable(request.targets[s])} \ request.accepted

Authorise ==
  /\ Blockers # {}
  /\ state' = "REFUSED"
  /\ UNCHANGED <<request, world, anchors, probing, evidence>>

----------------------------------------------------------------------------
(* Tables.                                                                 *)

\* A deleted row stays readable while its table keeps a retention window.
Deleted(t) == IF request.retention[t] = "closed" THEN "gone" ELSE "recoverable"

\* structured_check(): rows that match the key, and if there are none what
\* that is worth under the retention the executor was told of.
FaultFound(t, row) == IF row = "held" THEN "present" ELSE "absent"
Found(t, row) ==
  IF row = "held" THEN "present"
  ELSE IF request.retention[t] = "closed" THEN "absent"
  ELSE "unknown"

\* The plan is compiled for one key; `deleted` are the tables whose statement
\* took effect.
Erased(k, deleted) ==
  [t \in Table |-> IF t \in deleted /\ rows[t][k] = "held"
                   THEN [rows[t] EXCEPT ![k] = Deleted(t)] ELSE rows[t]]

\* The run's verdict is COMPLETE only if every delete was accepted and then
\* verified by the re-query; the caller records it.
Execute(k) ==
  /\ k \in request.covered
  /\ \E deleted \in SUBSET Table, verified \in BOOLEAN :
       /\ rows' = Erased(k, deleted)
       /\ verified => \A t \in Table : Found(t, rows'[t][k]) = "absent"
       /\ execution_verdict' = IF verified THEN "COMPLETE" ELSE "incomplete"
  /\ state' = IF state = "REFUSED" THEN state ELSE "AWAITING_VERIFICATION"
  /\ UNCHANGED <<request, vectors, inflight, anchors, probing, attestations,
                 structured_checks, vector_receipts>>

RecordStructuredCheck(t, k) ==
  /\ k \in request.covered
  /\ \E answer \in {Found(t, rows[t][k]), "unknown"} :
       structured_checks' = [structured_checks EXCEPT ![t] = answer]
  /\ UNCHANGED <<request, world, anchors, probing, state, execution_verdict,
                 attestations, vector_receipts>>

\* The retention window runs out.
WindowCloses(t, k) ==
  /\ rows[t][k] = "recoverable"
  /\ rows' = [rows EXCEPT ![t][k] = "gone"]
  /\ UNCHANGED <<request, vectors, inflight, anchors, probing, state, evidence>>

----------------------------------------------------------------------------
(* Vector stores.                                                          *)

\* Memory forgets; an engine keeps what it deleted until it is compacted.
Removed(s, ids) ==
  [v \in Vector |->
     IF v \in ids /\ vectors[s][v] = "live"
     THEN IF request.targets[s].engine = "in_memory" THEN "gone" ELSE "residue"
     ELSE vectors[s][v]]

\* Vectors moved: a verification of s that is under way straddles it.
Disturb(s) ==
  probing' = [x \in Store |->
                IF probing[x] = None \/ Port[x] # s THEN probing[x]
                ELSE [probing[x] EXCEPT !.moved = TRUE]]

\* execute() of the vector executor.  Without an anchor handle it refuses.
\* The ids may name all, some or none of the person's vectors; the delete
\* lands now or later or never; and the fetch by id that follows may fail.
DeleteRefused(s) ==
  /\ s \notin anchors
  /\ vector_receipts' = [vector_receipts EXCEPT ![s] = "REFUSED"]
  /\ UNCHANGED <<request, world, anchors, probing, state, execution_verdict,
                 attestations, structured_checks>>

Receipt(ids, answered, after) ==
  IF answered /\ \A v \in ids : after[v] # "live" THEN "COMPLETE" ELSE "incomplete"

DeleteVectors(s) ==
  /\ s \in anchors
  /\ \E ids \in SUBSET Vector, lands \in BOOLEAN, answered \in BOOLEAN :
       /\ vectors' = [vectors EXCEPT ![s] = IF lands THEN Removed(s, ids) ELSE @]
       /\ inflight' = [inflight EXCEPT ![s] = IF lands THEN @ ELSE @ \cup ids]
       /\ vector_receipts' = [vector_receipts EXCEPT ![s] =
                                Receipt(ids, answered, vectors'[s])]
  /\ Disturb(s)
  /\ UNCHANGED <<request, rows, anchors, state, execution_verdict,
                 attestations, structured_checks>>

DeleteLands(s) ==
  /\ inflight[s] # {}
  /\ vectors' = [vectors EXCEPT ![s] = Removed(s, inflight[s])]
  /\ inflight' = [inflight EXCEPT ![s] = {}]
  /\ Disturb(s)
  /\ UNCHANGED <<request, rows, anchors, state, evidence>>

Compact(s) ==
  /\ \E v \in Vector : vectors[s][v] = "residue"
  /\ vectors' = [vectors EXCEPT ![s] =
                   [v \in Vector |-> IF @[v] = "residue" THEN "gone" ELSE @[v]]]
  /\ UNCHANGED <<request, rows, inflight, anchors, probing, state, evidence>>

----------------------------------------------------------------------------
(* Verification: LiveVerifierPort.attest and ErasureVerifier.verify.       *)

FaultAttested(s, class, moved) ==
  attestations' = [attestations EXCEPT ![s] =
                     [classification |-> class, ours |-> None, moved |-> moved]]
Attested(s, class, moved) ==
  attestations' = [attestations EXCEPT ![s] =
                     [classification |-> class, ours |-> TRUE, moved |-> moved]]

\* Without an anchor nothing can be measured.
AttestUnanchored(s) ==
  /\ Port[s] \notin anchors
  /\ Attested(s, "INCONCLUSIVE_UNMEASURED", FALSE)
  /\ UNCHANGED <<request, world, anchors, probing, state, execution_verdict,
                 structured_checks, vector_receipts>>

\* Inspection and sweep; what they find decides, and otherwise the probe.
AttestBegin(s) ==
  LET p == Port[s]
      t == request.targets[p]
  IN  /\ p \in anchors
      /\ probing[s] = None
      /\ \E i \in Inspections(t.engine, vectors[p]),
            found \in Sweeps(vectors[p], SweepAborts) :
           IF found \/ i = "residue"
           THEN Attested(s, "NOT_ERASED", FALSE) /\ UNCHANGED probing
           ELSE /\ probing' = [probing EXCEPT ![s] =
                                 [inspection |-> i, moved |-> FALSE]]
                /\ UNCHANGED attestations
      /\ UNCHANGED <<request, world, anchors, state, execution_verdict,
                     structured_checks, vector_receipts>>

\* Only the last probe is attested: one that is run again after a wait, for
\* the residue it saw, leaves nothing behind, and the stages before it are
\* not run again.
AttestEnd(s) ==
  LET t == request.targets[Port[s]]
  IN  /\ probing[s] # None
      /\ \E class \in Readings(t, probing[s].inspection,
                               vectors[Port[s]]["anchored"]) :
           Attested(s, class, probing[s].moved)
      /\ probing' = [probing EXCEPT ![s] = None]
      /\ UNCHANGED <<request, world, anchors, state, execution_verdict,
                     structured_checks, vector_receipts>>

\* Somebody records the attestation of another person's erasure.
RecordForeign(s) ==
  /\ attestations' = [attestations EXCEPT ![s] =
       [classification |-> "STRONG_EVIDENCE_ERASED", ours |-> FALSE,
        moved |-> FALSE]]
  /\ UNCHANGED <<request, world, anchors, probing, state, execution_verdict,
                 structured_checks, vector_receipts>>

----------------------------------------------------------------------------
(* Settlement.                                                             *)

\* adjudicate().
Closes(view) == view # None /\ view.classification \in Passing

\* That the attestation is about this subject is asked only where the subject
\* was given a token, which from_resolution() does not require.
AboutSubject(view) == request.tokened => view.ours

\* open_causes() is empty.
NothingOpen ==
  /\ execution_verdict = "COMPLETE"
  /\ request.linked \subseteq request.covered
  /\ \A t \in Table : structured_checks[t] = "absent"
  /\ \A s \in Store :
       /\ Closes(attestations[s])
       /\ AboutSubject(attestations[s])
       /\ vector_receipts[s] = "COMPLETE"

Settle ==
  /\ state # "REFUSED"
  /\ state' = IF NothingOpen THEN "COMPLETE" ELSE "AWAITING_VERIFICATION"
  /\ UNCHANGED <<request, world, anchors, probing, evidence>>

\* The process dies: the request and the verifier's anchors are in memory.
Restart ==
  /\ Fresh
  /\ anchors' = {}
  /\ probing' = [s \in Store |-> None]
  /\ UNCHANGED <<request, world>>

Next ==
  \/ Authorise
  \/ \E k \in Key : Execute(k)
  \/ \E t \in Table, k \in Key : RecordStructuredCheck(t, k) \/ WindowCloses(t, k)
  \/ \E s \in Store :
       \/ DeleteRefused(s) \/ DeleteVectors(s) \/ DeleteLands(s) \/ Compact(s)
       \/ AttestUnanchored(s) \/ AttestBegin(s) \/ AttestEnd(s)
       \/ RecordForeign(s)
  \/ Settle
  \/ Restart

Spec == Init /\ [][Next]_vars

----------------------------------------------------------------------------
(* What the evidence is worth.  With a port per store, sweeps that finish  *)
(* and a plan for one key; PROJECT.json's findings say what each of these  *)
(* three hides.                                                            *)

\* Every variable has its type.
TypeOK ==
  /\ request \in Request
  /\ rows \in [Table -> [Key -> {"held", "recoverable", "gone"}]]
  /\ vectors \in [Store -> [Vector -> Condition]]
  /\ inflight \in [Store -> SUBSET Vector]
  /\ anchors \subseteq Store
  /\ probing \in [Store -> [inspection: {"clean", "unmeasured"}, moved: BOOLEAN]
                            \cup {None}]
  /\ state \in {"OPEN", "AWAITING_VERIFICATION", "COMPLETE", "REFUSED"}
  /\ execution_verdict \in {"none", "incomplete", "COMPLETE"}
  /\ attestations \in [Store -> View \cup {None}]
  /\ structured_checks \in [Table -> {"unknown", "present", "absent"}]
  /\ vector_receipts \in [Store -> {"none", "REFUSED", "incomplete", "COMPLETE"}]

\* settle() says COMPLETE only of an erasure that happened: no row filed under
\* any key of the person is left, not even in a retention window, and, where
\* the subject has a token, no vector can be retrieved, in whatever order
\* executions, late deletes, re-queries, attestations of this person and of
\* others and restarts came.  Without a token any person's attestation settles
\* the store (erasure.py:648).
CompleteMeansErased ==
  state = "COMPLETE" =>
    /\ \A t \in Table, k \in request.linked \cup {Subject} : rows[t][k] = "gone"
    /\ request.tokened => \A s \in Store, v \in Vector : vectors[s][v] # "live"

\* A passing attestation of this subject is true of the store for good: it
\* is not retrievable (I2), and no residue is left in the engine (I1) unless
\* a delete landed between the inspection and the probe.
APassMeansErased ==
  \A s \in Store :
    Closes(attestations[s]) /\ attestations[s].ours =>
      \A v \in Vector : /\ vectors[s][v] # "live"
                        /\ ~attestations[s].moved => vectors[s][v] = "gone"

\* authorise() refuses, for want of a named acceptance, the erasures that no
\* verification could ever pass, and only those: attestability() "and the
\* classification later cannot drift apart" (erasure.py:311).
AttestabilityIsHonest ==
  \A s \in Store : Attestable(request.targets[s]) <=> CouldPass(request.targets[s])

\* "RESIDUE_DETECTED leaves it open. ... A missing attestation leaves it open."
\* A later attestation does not reopen a request until settle() is asked.
CompleteHasNothingOpen == state = "COMPLETE" => NothingOpen
=============================================================================
