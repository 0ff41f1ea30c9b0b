---------------------------- MODULE Attestation -----------------------------
(***************************************************************************)
(* What aagcp.verify.erasure_verifier may say of one vector store, and     *)
(* what aagcp.core.erasure predicts it could say.                          *)
(*                                                                         *)
(* A subject has vectors in a store: the one its anchor was registered on, *)
(* and others whose text carries a vault token of the subject.  A vector   *)
(* is live (retrieval finds it), residue (only the engine's own state      *)
(* shows it), or gone.  Scores are left out: what the probe can report is  *)
(* any reading that is sound, that is, one that notices a live anchored    *)
(* vector (invariant I2 of the verifier, which its statistics promise).    *)
(***************************************************************************)
EXTENDS Naturals

Vector == {"anchored", "other"}

Condition == {"live", "residue", "gone"}

Engine == {"in_memory", "pgvector_hnsw", "pgvector_ivfflat", "pinecone",
           "qdrant", "generic"}

\* A store: its engine, how many control anchors a verification samples, how
\* far apart the two baselines of the subject are, and was it registered.
Target == [engine: Engine, controls: Nat,
           baselines: {"unmeasured", "inseparable", "separable"},
           registered: BOOLEAN]

MIN_CONTROL_ANCHORS == 19

Passing == {"STRONG_EVIDENCE_ERASED", "MODERATE_EVIDENCE_ERASED"}

Classification ==
  Passing \cup {"NOT_ERASED", "RESIDUE_DETECTED", "RESIDUE_SUSPECTED",
                "INCONCLUSIVE_INDISTINGUISHABLE", "INCONCLUSIVE_CONTROLS",
                "INCONCLUSIVE_UNMEASURED"}

----------------------------------------------------------------------------
(* The three stages of verify().                                           *)

\* Stage 0.  The required channels taken together: one with residue decides,
\* then one that could not be measured.  Only Postgres can be asked, and it
\* counts the dead tuples of everybody; memory has nothing to ask.
Inspections(engine, vec) ==
  CASE engine = "in_memory" -> {"clean"}
    [] engine \in {"pgvector_hnsw", "pgvector_ivfflat"} ->
         {"residue", "unmeasured"}
           \cup {i \in {"clean"} : \A v \in Vector : vec[v] # "residue"}
    [] OTHER -> {"unmeasured"}

\* Stage 1.  The sweep reads every live text for the subject's tokens, which
\* may have been scrubbed from the anchored record.  A sweep that aborts
\* returns what it had found so far, which may be nothing.
Sweeps(vec, aborts) ==
  {found \in BOOLEAN :
     /\ found => \E v \in Vector : vec[v] = "live"
     /\ ~found => aborts \/ vec["other"] # "live"}

\* ErasureBound.classify(), strongest evidence first; p is at / (controls + 1).
FaultClassify(found, inspection, paired, controls, at) ==
  IF found \/ inspection = "residue" THEN "NOT_ERASED"
  ELSE IF paired = "present" THEN "RESIDUE_DETECTED"
  ELSE IF paired = "uninformative" THEN "INCONCLUSIVE_INDISTINGUISHABLE"
  ELSE IF controls < MIN_CONTROL_ANCHORS THEN "INCONCLUSIVE_CONTROLS"
  ELSE IF paired = "erased" THEN "STRONG_EVIDENCE_ERASED"
  ELSE IF 20 * at <= controls + 1 THEN "RESIDUE_SUSPECTED"
  ELSE IF inspection = "unmeasured" THEN "INCONCLUSIVE_UNMEASURED"
  ELSE "MODERATE_EVIDENCE_ERASED"

classify(found, inspection, paired, controls, at) ==
  IF found \/ inspection = "residue" THEN "NOT_ERASED"
  ELSE IF paired = "present" THEN "RESIDUE_DETECTED"
  ELSE IF paired = "uninformative" THEN "INCONCLUSIVE_INDISTINGUISHABLE"
  ELSE IF controls < MIN_CONTROL_ANCHORS THEN "INCONCLUSIVE_CONTROLS"
  ELSE IF paired # "erased" /\ 100 * at <= controls + 1 THEN "RESIDUE_DETECTED"
  ELSE IF paired # "erased" /\ 20 * at <= controls + 1 THEN "RESIDUE_SUSPECTED"
  ELSE IF inspection = "unmeasured" THEN "INCONCLUSIVE_UNMEASURED"
  ELSE IF paired = "erased" \/ 100 <= controls + 1 THEN "STRONG_EVIDENCE_ERASED"
  ELSE "MODERATE_EVIDENCE_ERASED"

\* Stage 2.  The paired test when both baselines exist; without them it is
\* the rank of the subject's region among the controls that decides.
PairedVerdicts(t, anchored) ==
  CASE t.baselines = "unmeasured"  -> {"unavailable"}
    [] t.baselines = "inseparable" -> {"uninformative"}
    [] t.baselines = "separable"   ->
         IF anchored = "live" THEN {"present"} ELSE {"present", "erased"}

Ranks(t, anchored) ==
  {at \in 1 .. t.controls + 1 :
     anchored = "live" /\ t.baselines = "unmeasured" =>
       20 * at <= t.controls + 1}

\* Every classification a probe may end in, after what was inspected; with
\* too few controls there is no probe.
Readings(t, inspection, anchored) ==
  {class \in Classification :
     IF t.controls < MIN_CONTROL_ANCHORS
     THEN class = classify(FALSE, inspection, "unavailable", t.controls, t.controls + 1)
     ELSE \E paired \in PairedVerdicts(t, anchored), at \in Ranks(t, anchored) :
            class = classify(FALSE, inspection, paired, t.controls, at)}

----------------------------------------------------------------------------
(* Before anything is deleted.                                             *)

UNINSPECTABLE_ENGINES == {"pinecone"}

\* attestability(): would the verifier be able to reach a pass?
FaultAttestable(t) ==
  /\ t.registered
  /\ t.engine \notin UNINSPECTABLE_ENGINES
  /\ t.controls >= MIN_CONTROL_ANCHORS
Attestable(t) ==
  /\ t.registered
  /\ t.engine \notin UNINSPECTABLE_ENGINES
  /\ t.baselines # "inseparable"
  /\ t.controls >= MIN_CONTROL_ANCHORS

\* Could it, then?  Even with every vector of the subject gone.
CouldPass(t) ==
  /\ t.registered
  /\ \E i \in Inspections(t.engine, [v \in Vector |-> "gone"]) :
       i # "residue" /\ Readings(t, i, "gone") \cap Passing # {}
=============================================================================
