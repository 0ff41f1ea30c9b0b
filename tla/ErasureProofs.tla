---------------------------- MODULE ErasureProofs ---------------------------
(***************************************************************************)
(* Proofs about the erasure of one person, for every set of tables, stores *)
(* and keys, every request and every target.                               *)
(*                                                                         *)
(* What the evidence says is true when it is taken, and the world only     *)
(* loses the person's data, so what was true stays true.  The hypotheses   *)
(* of the theorems are named here; without each of them the code does      *)
(* what PROJECT.json's findings describe.                                  *)
(***************************************************************************)
EXTENDS Erasure, TLAPS

\* The port asked about a store is the one that probes it.
OwnPorts == \A s \in Store : Port[s] = s

\* No sweep is cut short by an error.
SweepsFinish == SweepAborts = FALSE

\* The plan was compiled for the key the request is made for.
OnePlan == \A r \in Request : r.covered = {Subject}

\* The engines that attestability() tells apart as the verifier does.
EnginesInUse ==
  \A r \in Request, s \in Store :
    r.targets[s].engine \in {"in_memory", "pgvector_hnsw", "pgvector_ivfflat",
                             "pinecone"}

----------------------------------------------------------------------------
(* One reading of the probe.                                               *)

\* A reading passes only after a clean inspection, of a region in which the
\* anchored vector is not live, with enough controls and, if there are
\* baselines, separable ones.
LEMMA PassingReading ==
  ASSUME NEW t \in Target, NEW i, NEW anchored,
         NEW class \in Readings(t, i, anchored), class \in Passing
  PROVE  /\ i \notin {"residue", "unmeasured"}
         /\ anchored # "live"
         /\ t.controls >= MIN_CONTROL_ANCHORS
         /\ t.baselines # "inseparable"
<1>0. t.controls \in Nat /\ t.baselines \in {"unmeasured", "inseparable", "separable"}
  BY DEF Target
<1>1. t.controls >= 19 /\ ~(t.controls < MIN_CONTROL_ANCHORS)
  BY <1>0 DEF Readings, classify, Passing, MIN_CONTROL_ANCHORS
<1>2. PICK paired \in PairedVerdicts(t, anchored), at \in Ranks(t, anchored) :
        class = classify(FALSE, i, paired, t.controls, at)
  BY <1>1, Zenon DEF Readings
<1>3. at \in Nat
  BY <1>0 DEF Ranks
<1>4. paired \notin {"present", "uninformative"} /\ i \notin {"residue", "unmeasured"}
  BY <1>0, <1>1, <1>2 DEF classify, Passing, MIN_CONTROL_ANCHORS
<1>5. paired # "erased" => 20 * at > t.controls + 1
  BY <1>0, <1>1, <1>2, <1>3 DEF classify, Passing, MIN_CONTROL_ANCHORS
<1>6. t.baselines # "inseparable"
  BY <1>4 DEF PairedVerdicts
<1>7. anchored # "live"
  <2> SUFFICES ASSUME anchored = "live" PROVE FALSE
    OBVIOUS
  <2>1. t.baselines = "unmeasured"
    BY <1>0, <1>4 DEF PairedVerdicts
  <2>2. paired = "unavailable"
    BY <2>1 DEF PairedVerdicts
  <2>3. 20 * at <= t.controls + 1
    BY <2>1 DEF Ranks
  <2> QED
    BY <1>0, <1>3, <1>5, <2>2, <2>3
<1> QED
  BY <1>1, <1>4, <1>6, <1>7 DEF MIN_CONTROL_ANCHORS

\* The gate before anything is deleted and what a verification can reach
\* afterwards agree: authorise() asks for a named acceptance exactly for the
\* stores that could never be attested.
THEOREM AttestabilityAgrees ==
  ASSUME EnginesInUse
  PROVE  Spec => []AttestabilityIsHonest
<1> DEFINE Known == \A s \in Store :
                      /\ request.targets[s] \in Target
                      /\ request.targets[s].engine \in
                           {"in_memory", "pgvector_hnsw", "pgvector_ivfflat",
                            "pinecone"}
<1>1. ASSUME NEW t \in Target,
             t.engine \in {"in_memory", "pgvector_hnsw", "pgvector_ivfflat",
                           "pinecone"}
      PROVE  Attestable(t) <=> CouldPass(t)
  <2> DEFINE empty == [v \in Vector |-> "gone"]
  <2>0. t.controls \in Nat /\ t.baselines \in {"unmeasured", "inseparable", "separable"}
    BY DEF Target
  <2>1. ASSUME Attestable(t) PROVE CouldPass(t)
    <3>1. t.registered /\ t.controls >= 19 /\ t.engine # "pinecone"
          /\ t.baselines \in {"unmeasured", "separable"}
      BY <2>0, <2>1 DEF Attestable, MIN_CONTROL_ANCHORS, UNINSPECTABLE_ENGINES
    <3>2. "clean" \in Inspections(t.engine, empty)
      BY <1>1, <3>1 DEF Inspections
    <3> DEFINE at == t.controls + 1
               paired == IF t.baselines = "separable" THEN "erased" ELSE "unavailable"
    <3>3. at \in Ranks(t, "gone") /\ paired \in PairedVerdicts(t, "gone")
      BY <2>0, <3>1 DEF Ranks, PairedVerdicts
    <3>4. ~(100 * at <= t.controls + 1) /\ ~(20 * at <= t.controls + 1)
      BY <2>0
    <3>5. classify(FALSE, "clean", paired, t.controls, at) \in Passing
      BY <2>0, <3>1, <3>4 DEF classify, Passing, MIN_CONTROL_ANCHORS
    <3>6. Readings(t, "clean", "gone") \cap Passing # {}
      <4>1. ~(t.controls < MIN_CONTROL_ANCHORS)
        BY <2>0, <3>1 DEF MIN_CONTROL_ANCHORS
      <4>2. classify(FALSE, "clean", paired, t.controls, at) \in Classification
        BY <3>5 DEF Classification
      <4> HIDE DEF at, paired
      <4> QED
        BY <3>3, <3>5, <4>1, <4>2, Zenon DEF Readings
    <3> QED
      BY <3>1, <3>2, <3>6 DEF CouldPass
  <2>2. ASSUME CouldPass(t) PROVE Attestable(t)
    <3>1. PICK i \in Inspections(t.engine, empty) :
            i # "residue" /\ Readings(t, i, "gone") \cap Passing # {}
      BY <2>2 DEF CouldPass
    <3>2. /\ i # "unmeasured" /\ t.controls >= MIN_CONTROL_ANCHORS
          /\ t.baselines # "inseparable"
      BY <3>1, PassingReading
    <3>3. t.engine # "pinecone"
      BY <3>2 DEF Inspections
    <3> QED
      BY <2>2, <3>2, <3>3 DEF CouldPass, Attestable, UNINSPECTABLE_ENGINES
  <2> QED
    BY <2>1, <2>2
<1>2. Init => Known
  BY RequestAssumption DEF Init, EnginesInUse
<1>3. Known /\ [Next]_vars => Known'
  <2>1. [Next]_vars => request' = request
    BY DEF Next, vars, Authorise, Execute, RecordStructuredCheck, WindowCloses,
       DeleteRefused, DeleteVectors, DeleteLands, Compact, AttestUnanchored,
       AttestBegin, AttestEnd, RecordForeign, Settle, Restart
  <2> QED
    BY <2>1
<1>4. Known => AttestabilityIsHonest
  BY <1>1 DEF AttestabilityIsHonest
<1> QED
  BY <1>2, <1>3, <1>4, PTL DEF Spec
----------------------------------------------------------------------------
(* Type correctness, and what the world cannot do.                         *)

LEMMA RequestFields ==
  ASSUME TypeOK
  PROVE  /\ \A s \in Store : request.targets[s] \in Target
         /\ \A t \in Table : request.retention[t] \in {"closed", "open", "unread"}
         /\ request.covered \subseteq Key /\ request.linked \subseteq Key
  BY RequestAssumption DEF TypeOK

LEMMA RemovedIsCondition ==
  ASSUME TypeOK, NEW s \in Store, NEW ids
  PROVE  Removed(s, ids) \in [Vector -> Condition]
  BY DEF Removed, TypeOK, Condition

LEMMA ErasedIsTyped ==
  ASSUME TypeOK, NEW k \in Key, NEW deleted \in SUBSET Table
  PROVE  Erased(k, deleted) \in [Table -> [Key -> {"held", "recoverable", "gone"}]]
<1> SUFFICES ASSUME NEW t \in Table
             PROVE  Erased(k, deleted)[t] \in [Key -> {"held", "recoverable", "gone"}]
  BY DEF Erased
<1>1. Deleted(t) \in {"recoverable", "gone"}
  BY DEF Deleted
<1>2. rows[t] \in [Key -> {"held", "recoverable", "gone"}]
  BY DEF TypeOK
<1> QED
  BY <1>1, <1>2 DEF Erased

LEMMA TypeInit == Init => TypeOK
  BY RequestAssumption DEF Init, TypeOK, Condition

LEMMA TypeStep == TypeOK /\ [Next]_vars => TypeOK'
<1> SUFFICES ASSUME TypeOK, [Next]_vars PROVE TypeOK'
  OBVIOUS
<1>1. ASSUME Authorise PROVE TypeOK'
  BY <1>1 DEF Authorise, TypeOK, world, evidence
<1>2. ASSUME NEW k \in Key, Execute(k) PROVE TypeOK'
  <2>1. PICK deleted \in SUBSET Table : rows' = Erased(k, deleted)
    BY <1>2 DEF Execute
  <2> QED
    BY <1>2, <2>1, ErasedIsTyped DEF Execute, TypeOK
<1>3. ASSUME NEW t \in Table, NEW k \in Key, RecordStructuredCheck(t, k)
      PROVE  TypeOK'
  <2>1. Found(t, rows[t][k]) \in {"unknown", "present", "absent"}
    BY DEF Found
  <2> QED
    BY <1>3, <2>1 DEF RecordStructuredCheck, TypeOK, world
<1>4. ASSUME NEW t \in Table, NEW k \in Key, WindowCloses(t, k) PROVE TypeOK'
  BY <1>4 DEF WindowCloses, TypeOK, evidence
<1>5. ASSUME NEW s \in Store, DeleteRefused(s) PROVE TypeOK'
  BY <1>5 DEF DeleteRefused, TypeOK, world
<1>6. ASSUME NEW s \in Store, Disturb(s)
      PROVE  probing' \in [Store -> [inspection: {"clean", "unmeasured"},
                                     moved: BOOLEAN] \cup {None}]
  BY <1>6 DEF Disturb, TypeOK
<1>7. ASSUME NEW s \in Store, DeleteVectors(s) PROVE TypeOK'
  <2> PICK ids \in SUBSET Vector, lands \in BOOLEAN, answered \in BOOLEAN :
        /\ vectors' = [vectors EXCEPT ![s] = IF lands THEN Removed(s, ids) ELSE @]
        /\ inflight' = [inflight EXCEPT ![s] = IF lands THEN @ ELSE @ \cup ids]
        /\ vector_receipts' = [vector_receipts EXCEPT ![s] =
                                 Receipt(ids, answered, vectors'[s])]
    BY <1>7 DEF DeleteVectors
  <2>1. vectors' \in [Store -> [Vector -> Condition]]
    BY RemovedIsCondition DEF TypeOK
  <2>2. inflight' \in [Store -> SUBSET Vector]
    BY DEF TypeOK
  <2>3. vector_receipts' \in [Store -> {"none", "REFUSED", "incomplete", "COMPLETE"}]
    BY DEF TypeOK, Receipt
  <2> QED
    BY <1>6, <1>7, <2>1, <2>2, <2>3 DEF DeleteVectors, TypeOK
<1>8. ASSUME NEW s \in Store, DeleteLands(s) PROVE TypeOK'
  <2>1. vectors' \in [Store -> [Vector -> Condition]]
    BY <1>8, RemovedIsCondition DEF DeleteLands, TypeOK
  <2> QED
    BY <1>6, <1>8, <2>1 DEF DeleteLands, TypeOK, evidence
<1>9. ASSUME NEW s \in Store, Compact(s) PROVE TypeOK'
  BY <1>9 DEF Compact, TypeOK, Condition, evidence
<1>10. ASSUME NEW s \in Store, NEW class \in Classification,
              NEW moved \in BOOLEAN, Attested(s, class, moved)
       PROVE  attestations' \in [Store -> View \cup {None}]
  BY <1>10 DEF Attested, TypeOK, View
<1>11. ASSUME NEW s \in Store, AttestUnanchored(s) PROVE TypeOK'
  BY <1>10, <1>11 DEF AttestUnanchored, TypeOK, world, Classification
<1>12. ASSUME NEW s \in Store, AttestBegin(s) PROVE TypeOK'
  <2> DEFINE p == Port[s]
             t == request.targets[p]
  <2> PICK i \in Inspections(t.engine, vectors[p]),
           found \in Sweeps(vectors[p], SweepAborts) :
        IF found \/ i = "residue"
        THEN Attested(s, "NOT_ERASED", FALSE) /\ UNCHANGED probing
        ELSE /\ probing' = [probing EXCEPT ![s] = [inspection |-> i, moved |-> FALSE]]
             /\ UNCHANGED attestations
    BY <1>12 DEF AttestBegin
  <2>1. i \in {"clean", "unmeasured", "residue"}
    BY DEF Inspections
  <2>2. attestations' \in [Store -> View \cup {None}]
    BY <1>10 DEF Classification, TypeOK
  <2>3. probing' \in [Store -> [inspection: {"clean", "unmeasured"},
                                moved: BOOLEAN] \cup {None}]
    <3>1. CASE found \/ i = "residue"
      BY <3>1 DEF TypeOK
    <3>2. CASE ~(found \/ i = "residue")
      <4>1. probing' = [probing EXCEPT ![s] = [inspection |-> i, moved |-> FALSE]]
        BY <3>2
      <4>2. i \in {"clean", "unmeasured"}
        BY <2>1, <3>2
      <4> QED
        BY <4>1, <4>2 DEF TypeOK
    <3> QED
      BY <3>1, <3>2
  <2> QED
    BY <1>12, <2>2, <2>3 DEF AttestBegin, TypeOK, world
<1>13. ASSUME NEW s \in Store, AttestEnd(s) PROVE TypeOK'
  <2>1. PICK class \in Readings(request.targets[Port[s]], probing[s].inspection,
                                vectors[Port[s]]["anchored"]) :
          Attested(s, class, probing[s].moved)
    BY <1>13 DEF AttestEnd
  <2>2. class \in Classification
    BY DEF Readings
  <2>3. probing[s].moved \in BOOLEAN
    BY <1>13 DEF AttestEnd, TypeOK
  <2>4. attestations' \in [Store -> View \cup {None}]
    BY <1>10, <2>1, <2>2, <2>3
  <2> QED
    BY <1>13, <2>4 DEF AttestEnd, TypeOK, world
<1>14. ASSUME NEW s \in Store, RecordForeign(s) PROVE TypeOK'
  BY <1>14 DEF RecordForeign, TypeOK, View, Classification, Passing, world
<1>15. ASSUME Settle PROVE TypeOK'
  BY <1>15 DEF Settle, TypeOK, world, evidence
<1>16. ASSUME Restart PROVE TypeOK'
  BY <1>16 DEF Restart, Fresh, TypeOK, world
<1>17. CASE UNCHANGED vars
  BY <1>17 DEF vars, TypeOK, world, evidence
<1> QED
  BY <1>1, <1>2, <1>3, <1>4, <1>5, <1>7, <1>8, <1>9, <1>11, <1>12, <1>13,
     <1>14, <1>15, <1>16, <1>17 DEF Next

\* Every reachable state is well-typed.
THEOREM ErasureTypeCorrect == Spec => []TypeOK
  BY TypeInit, TypeStep, PTL DEF Spec

\* Nothing of the person comes back: a row that is gone stays gone, one that
\* is not held is never held again, a vector that is not live is never live
\* again, and one that is gone stays gone.
LEMMA NothingComesBack ==
  ASSUME TypeOK, [Next]_vars
  PROVE  /\ request' = request
         /\ \A t \in Table, k \in Key :
              /\ rows[t][k] # "held" => rows'[t][k] # "held"
              /\ rows[t][k] = "gone" => rows'[t][k] = "gone"
         /\ \A s \in Store, v \in Vector :
              /\ vectors[s][v] # "live" => vectors'[s][v] # "live"
              /\ vectors[s][v] = "gone" => vectors'[s][v] = "gone"
<1>1. request' = request
  BY DEF Next, vars, Authorise, Execute, RecordStructuredCheck, WindowCloses,
     DeleteRefused, DeleteVectors, DeleteLands, Compact, AttestUnanchored,
     AttestBegin, AttestEnd, RecordForeign, Settle, Restart
<1>2. ASSUME NEW t \in Table, NEW k \in Key
      PROVE  /\ rows[t][k] # "held" => rows'[t][k] # "held"
             /\ rows[t][k] = "gone" => rows'[t][k] = "gone"
  <2>1. ASSUME NEW j \in Key, Execute(j)
        PROVE  \/ rows'[t][k] = rows[t][k]
               \/ rows[t][k] = "held"
    BY <2>1 DEF Execute, Erased, TypeOK
  <2>2. ASSUME NEW u \in Table, NEW j \in Key, WindowCloses(u, j)
        PROVE  rows'[t][k] = rows[t][k] \/ rows'[t][k] = "gone"
    BY <2>2 DEF WindowCloses, TypeOK
  <2>3. \/ \E j \in Key : Execute(j)
        \/ \E u \in Table, j \in Key : WindowCloses(u, j)
        \/ rows' = rows
    BY DEF Next, vars, world, Authorise, RecordStructuredCheck,
       DeleteRefused, DeleteVectors, DeleteLands, Compact, AttestUnanchored,
       AttestBegin, AttestEnd, RecordForeign, Settle, Restart
  <2> QED
    BY <2>1, <2>2, <2>3
<1>3. ASSUME NEW s \in Store, NEW v \in Vector
      PROVE  /\ vectors[s][v] # "live" => vectors'[s][v] # "live"
             /\ vectors[s][v] = "gone" => vectors'[s][v] = "gone"
  <2>1. ASSUME NEW x \in Store, DeleteVectors(x) \/ DeleteLands(x)
        PROVE  \/ vectors'[s][v] = vectors[s][v]
               \/ vectors[s][v] = "live"
    BY <2>1 DEF DeleteVectors, DeleteLands, Removed, TypeOK
  <2>2. ASSUME NEW x \in Store, Compact(x)
        PROVE  vectors'[s][v] = vectors[s][v] \/ vectors'[s][v] = "gone"
    BY <2>2 DEF Compact, TypeOK
  <2>3. \/ \E x \in Store : DeleteVectors(x) \/ DeleteLands(x) \/ Compact(x)
        \/ vectors' = vectors
    BY DEF Next, vars, world, Authorise, Execute, RecordStructuredCheck,
       WindowCloses, DeleteRefused, AttestUnanchored,
       AttestBegin, AttestEnd, RecordForeign, Settle, Restart
  <2> QED
    BY <2>1, <2>2, <2>3
<1> QED
  BY <1>1, <1>2, <1>3
----------------------------------------------------------------------------
(* Attestations.                                                           *)

\* Memory keeps no residue.
Forgetful ==
  \A s \in Store : request.targets[s].engine = "in_memory" =>
    \A v \in Vector : vectors[s][v] # "residue"

\* What the first stages of a verification found is still so when the probe
\* is read, or the verification knows that vectors moved.
ProbeHolds ==
  \A s \in Store : probing[s] # None =>
    /\ vectors[s]["other"] # "live"
    /\ probing[s].inspection = "clean" /\ ~probing[s].moved =>
         \A v \in Vector : vectors[s][v] # "residue"

AttestInv == TypeOK /\ Forgetful /\ ProbeHolds /\ APassMeansErased

LEMMA ForgetfulStep ==
  ASSUME AttestInv, [Next]_vars
  PROVE  Forgetful'
<1> SUFFICES ASSUME NEW s \in Store, request.targets[s].engine = "in_memory",
                    NEW v \in Vector
             PROVE  vectors'[s][v] # "residue"
  BY NothingComesBack DEF Forgetful, AttestInv
<1>1. vectors[s][v] # "residue"
  BY DEF AttestInv, Forgetful
<1>2. ASSUME NEW x \in Store, DeleteVectors(x) \/ DeleteLands(x)
      PROVE  vectors'[s][v] # "residue"
  BY <1>1, <1>2 DEF DeleteVectors, DeleteLands, Removed, AttestInv, TypeOK
<1>3. ASSUME NEW x \in Store, Compact(x)
      PROVE  vectors'[s][v] # "residue"
  BY <1>1, <1>3 DEF Compact, AttestInv, TypeOK
<1>4. \/ \E x \in Store : DeleteVectors(x) \/ DeleteLands(x) \/ Compact(x)
      \/ vectors' = vectors
  BY DEF Next, vars, world, Authorise, Execute, RecordStructuredCheck,
     WindowCloses, DeleteRefused, AttestUnanchored,
     AttestBegin, AttestEnd, RecordForeign, Settle, Restart
<1> QED
  BY <1>1, <1>2, <1>3, <1>4

\* A step that changes no probe keeps what holds, unless vectors moved.
LEMMA ProbeStep ==
  ASSUME OwnPorts, SweepsFinish, AttestInv, [Next]_vars
  PROVE  ProbeHolds'
<1> SUFFICES ASSUME NEW s \in Store, probing'[s] # None
             PROVE  /\ vectors'[s]["other"] # "live"
                    /\ probing'[s].inspection = "clean" /\ ~probing'[s].moved =>
                         \A v \in Vector : vectors'[s][v] # "residue"
  BY DEF ProbeHolds
<1> USE DEF AttestInv
<1>0. Port[s] = s /\ "other" \in Vector
  BY DEF OwnPorts, Vector
<1> DEFINE Holds == /\ vectors[s]["other"] # "live"
                    /\ probing[s].inspection = "clean" /\ ~probing[s].moved =>
                         \A v \in Vector : vectors[s][v] # "residue"
<1>1. ASSUME UNCHANGED vectors, probing'[s] = probing[s]
      PROVE  Holds'
  BY <1>1 DEF ProbeHolds
<1>2. ASSUME NEW x \in Store, DeleteVectors(x) \/ DeleteLands(x)
      PROVE  Holds'
  <2>1. Disturb(x)
    BY <1>2 DEF DeleteVectors, DeleteLands
  <2>2. probing[s] # None
    BY <2>1 DEF Disturb
  <2>3. vectors'[s]["other"] # "live"
    BY <1>0, <2>2, NothingComesBack DEF ProbeHolds
  <2>4. CASE x = s
    <3>1. probing[s] \in [inspection: {"clean", "unmeasured"}, moved: BOOLEAN]
      BY <2>2 DEF TypeOK
    <3>2. probing'[s] = [probing[s] EXCEPT !.moved = TRUE]
      BY <1>0, <2>1, <2>2, <2>4 DEF Disturb
    <3>3. probing'[s].moved = TRUE
      BY <3>1, <3>2
    <3> QED
      BY <2>3, <3>3
  <2>5. CASE x # s
    <3>1. probing'[s] = probing[s]
      BY <1>0, <2>1, <2>5 DEF Disturb
    <3>2. vectors'[s] = vectors[s]
      BY <1>2, <2>5 DEF DeleteVectors, DeleteLands, TypeOK
    <3> QED
      BY <2>2, <3>1, <3>2 DEF ProbeHolds
  <2> QED
    BY <2>4, <2>5
<1>3. ASSUME NEW x \in Store, Compact(x)
      PROVE  Holds'
  <2>1. probing' = probing
    BY <1>3 DEF Compact
  <2>2. \A v \in Vector : vectors[s][v] # "residue" => vectors'[s][v] # "residue"
    BY <1>3 DEF Compact, TypeOK
  <2> QED
    BY <1>0, <2>1, <2>2, NothingComesBack DEF ProbeHolds
<1>4. ASSUME NEW x \in Store, AttestBegin(x)
      PROVE  Holds'
  <2>1. vectors' = vectors
    BY <1>4 DEF AttestBegin, world
  <2>2. CASE x # s \/ probing' = probing
    BY <1>1, <1>4, <2>1, <2>2 DEF AttestBegin, TypeOK
  <2>3. CASE x = s /\ probing' # probing
    <3> DEFINE t == request.targets[s]
               Sees == Inspections(t.engine, vectors[s])
               Finds == Sweeps(vectors[s], SweepAborts)
    <3>0. /\ Port[x] = s /\ x = s
      BY <1>0, <2>3 DEF OwnPorts
    <3>1a. \E i \in Sees, found \in Finds :
             IF found \/ i = "residue"
             THEN Attested(s, "NOT_ERASED", FALSE) /\ UNCHANGED probing
             ELSE /\ probing' = [probing EXCEPT ![s] =
                                   [inspection |-> i, moved |-> FALSE]]
                  /\ UNCHANGED attestations
      BY <3>0, <1>4, Zenon DEF AttestBegin
    <3> HIDE DEF Sees, Finds
    <3>1. PICK i \in Sees, found \in Finds :
            /\ ~found /\ i # "residue"
            /\ probing' = [probing EXCEPT ![s] = [inspection |-> i, moved |-> FALSE]]
      BY <3>1a, <2>3, Zenon
    <3> USE DEF Sees, Finds
    <3>2. vectors[s]["other"] # "live"
      BY <3>1 DEF Sweeps, SweepsFinish
    <3>3. probing'[s].inspection = i
      BY <3>1 DEF TypeOK
    <3>4. i = "clean" => \A v \in Vector : vectors[s][v] # "residue"
      BY <3>1 DEF Inspections, Forgetful
    <3> QED
      BY <2>1, <3>2, <3>3, <3>4
  <2> QED
    BY <2>2, <2>3
<1>5. ASSUME NEW x \in Store, AttestEnd(x)
      PROVE  Holds'
  BY <1>1, <1>5 DEF AttestEnd, TypeOK, world
<1>6. ASSUME Restart
      PROVE  FALSE
  BY <1>6 DEF Restart
<1>7. \/ \E x \in Store : \/ DeleteVectors(x) \/ DeleteLands(x) \/ Compact(x)
                          \/ AttestBegin(x) \/ AttestEnd(x)
      \/ Restart
      \/ UNCHANGED <<vectors, probing>>
  BY DEF Next, vars, world, Authorise, Execute, RecordStructuredCheck,
     WindowCloses, DeleteRefused, AttestUnanchored, RecordForeign, Settle
<1> QED
  BY <1>1, <1>2, <1>3, <1>4, <1>5, <1>6, <1>7

LEMMA PassStep ==
  ASSUME OwnPorts, AttestInv, [Next]_vars
  PROVE  APassMeansErased'
<1> SUFFICES ASSUME NEW s \in Store, Closes(attestations'[s]), attestations'[s].ours,
                    NEW v \in Vector
             PROVE  /\ vectors'[s][v] # "live"
                    /\ ~attestations'[s].moved => vectors'[s][v] = "gone"
  BY DEF APassMeansErased
<1> USE DEF AttestInv
<1>1. CASE attestations'[s] = attestations[s]
  <2>1. /\ vectors[s][v] # "live"
        /\ ~attestations[s].moved => vectors[s][v] = "gone"
    BY <1>1 DEF APassMeansErased
  <2> QED
    BY <1>1, <2>1, NothingComesBack
<1>2. CASE attestations'[s] # attestations[s] /\ AttestEnd(s)
  <2> DEFINE t == request.targets[s]
             i == probing[s].inspection
  <2>1. Port[s] = s
    BY DEF OwnPorts
  <2>2. PICK class \in Readings(t, i, vectors[s]["anchored"]) :
          Attested(s, class, probing[s].moved)
    BY <1>2, <2>1 DEF AttestEnd
  <2>3. attestations'[s] = [classification |-> class, ours |-> TRUE,
                            moved |-> probing[s].moved]
    BY <2>2 DEF Attested, TypeOK
  <2>4. class \in Passing
    BY <2>3 DEF Closes
  <2>5. t \in Target
    BY RequestFields
  <2>6. i # "unmeasured" /\ vectors[s]["anchored"] # "live"
    BY <2>2, <2>4, <2>5, PassingReading
  <2>7. probing[s] # None /\ i \in {"clean", "unmeasured"}
    BY <1>2 DEF AttestEnd, TypeOK
  <2>8. vectors' = vectors
    BY <1>2 DEF AttestEnd, world
  <2>9. \A u \in Vector : vectors[s][u] # "live"
    BY <2>6, <2>7 DEF ProbeHolds, Vector
  <2>10. ~probing[s].moved => \A u \in Vector : vectors[s][u] # "residue"
    BY <2>6, <2>7 DEF ProbeHolds
  <2>11. vectors[s][v] \in Condition
    BY DEF TypeOK
  <2> QED
    BY <2>3, <2>8, <2>9, <2>10, <2>11 DEF Condition
<1>3. CASE attestations'[s] # attestations[s] /\ ~AttestEnd(s)
  <2>1. ASSUME NEW x \in Store, AttestUnanchored(x)
        PROVE  FALSE
    BY <1>3, <2>1 DEF AttestUnanchored, Attested, Closes, Passing, TypeOK
  <2>2. ASSUME NEW x \in Store, AttestBegin(x)
        PROVE  FALSE
    <3>1. Attested(x, "NOT_ERASED", FALSE)
      BY <1>3, <2>2 DEF AttestBegin
    <3> QED
      BY <1>3, <3>1 DEF Attested, Closes, Passing, TypeOK
  <2>3. ASSUME NEW x \in Store, RecordForeign(x)
        PROVE  FALSE
    BY <1>3, <2>3 DEF RecordForeign, Closes, TypeOK
  <2>4. ASSUME NEW x \in Store \ {s}, AttestEnd(x)
        PROVE  FALSE
    BY <1>3, <2>4 DEF AttestEnd, Attested, TypeOK
  <2>5. ASSUME Restart PROVE FALSE
    BY <1>3, <2>5 DEF Restart, Fresh, Closes
  <2>6. \/ \E x \in Store : \/ AttestUnanchored(x) \/ AttestBegin(x)
                            \/ RecordForeign(x)
        \/ \E x \in Store \ {s} : AttestEnd(x)
        \/ Restart
    BY <1>3 DEF Next, vars, world, evidence, Authorise, Execute,
       RecordStructuredCheck, WindowCloses, DeleteRefused, DeleteVectors,
       DeleteLands, Compact, Settle
  <2> QED
    BY <2>1, <2>2, <2>3, <2>4, <2>5, <2>6
<1> QED
  BY <1>1, <1>2, <1>3

LEMMA AttestInvariance ==
  ASSUME OwnPorts, SweepsFinish
  PROVE  Spec => []AttestInv
<1>1. Init => AttestInv
  BY TypeInit DEF Init, AttestInv, Forgetful, ProbeHolds, APassMeansErased, Closes
<1>2. AttestInv /\ [Next]_vars => AttestInv'
  BY TypeStep, ForgetfulStep, ProbeStep, PassStep DEF AttestInv
<1> QED
  BY <1>1, <1>2, PTL DEF Spec

\* A passing attestation of the subject is true of its store for good: nothing
\* of the person can be retrieved from it, whatever late deletes, compactions
\* and other verifications follow, and unless a delete landed during the
\* verification no residue is left either.
THEOREM PassIsTrue ==
  ASSUME OwnPorts, SweepsFinish
  PROVE  Spec => []APassMeansErased
<1>1. AttestInv => APassMeansErased
  BY DEF AttestInv
<1> QED
  BY <1>1, AttestInvariance, PTL

----------------------------------------------------------------------------
(* Settlement.                                                             *)

\* A row is recoverable only in a table with a retention window.
Retained ==
  \A t \in Table, k \in Key :
    rows[t][k] = "recoverable" => request.retention[t] # "closed"

\* A re-query that answered absent was right.
ChecksHold ==
  \A t \in Table : structured_checks[t] = "absent" => rows[t][Subject] = "gone"

SettleInv == Retained /\ ChecksHold /\ CompleteMeansErased

LEMMA RetainedStep ==
  ASSUME TypeOK, Retained, [Next]_vars
  PROVE  Retained'
<1> SUFFICES ASSUME NEW t \in Table, NEW k \in Key, rows'[t][k] = "recoverable"
             PROVE  request.retention[t] # "closed"
  BY NothingComesBack DEF Retained
<1>1. ASSUME rows'[t][k] = rows[t][k]
      PROVE  request.retention[t] # "closed"
  BY <1>1 DEF Retained
<1>2. ASSUME NEW j \in Key, Execute(j)
      PROVE  rows'[t][k] = rows[t][k] \/ request.retention[t] # "closed"
  <2>1. PICK deleted \in SUBSET Table : rows' = Erased(j, deleted)
    BY <1>2 DEF Execute
  <2>2. rows'[t] = IF t \in deleted /\ rows[t][j] = "held"
                   THEN [rows[t] EXCEPT ![j] = Deleted(t)] ELSE rows[t]
    BY <2>1 DEF Erased
  <2> QED
    BY <2>2 DEF Deleted, TypeOK
<1>3. ASSUME NEW u \in Table, NEW j \in Key, WindowCloses(u, j)
      PROVE  rows'[t][k] = rows[t][k]
  BY <1>3 DEF WindowCloses, TypeOK
<1>4. \/ \E j \in Key : Execute(j)
      \/ \E u \in Table, j \in Key : WindowCloses(u, j)
      \/ rows' = rows
  BY DEF Next, vars, world, Authorise, RecordStructuredCheck,
     DeleteRefused, DeleteVectors, DeleteLands, Compact, AttestUnanchored,
     AttestBegin, AttestEnd, RecordForeign, Settle, Restart
<1> QED
  BY <1>1, <1>2, <1>3, <1>4

LEMMA ChecksStep ==
  ASSUME OnePlan, TypeOK, Retained, ChecksHold, [Next]_vars
  PROVE  ChecksHold'
<1> SUFFICES ASSUME NEW t \in Table, structured_checks'[t] = "absent"
             PROVE  rows'[t][Subject] = "gone"
  BY DEF ChecksHold
<1>1. CASE structured_checks'[t] = structured_checks[t]
  BY <1>1, SubjectAssumption, NothingComesBack DEF ChecksHold
<1>2. CASE structured_checks'[t] # structured_checks[t]
  <2>1. ASSUME Restart PROVE FALSE
    BY <2>1 DEF Restart, Fresh
  <2>2. PICK u \in Table, k \in Key : RecordStructuredCheck(u, k)
    BY <1>2, <2>1 DEF Next, vars, evidence, Authorise, Execute, WindowCloses,
       DeleteRefused, DeleteVectors, DeleteLands, Compact, AttestUnanchored,
       AttestBegin, AttestEnd, RecordForeign, Settle
  <2>3. u = t /\ Found(t, rows[t][k]) = "absent"
    BY <1>2, <2>2 DEF RecordStructuredCheck, TypeOK
  <2>4. k = Subject
    BY <2>2 DEF RecordStructuredCheck, OnePlan, TypeOK
  <2>5. rows[t][k] # "held" /\ request.retention[t] = "closed"
    BY <2>3 DEF Found
  <2>6. rows[t][k] = "gone"
    BY <2>5 DEF Retained, TypeOK
  <2> QED
    BY <2>2, <2>4, <2>6 DEF RecordStructuredCheck, world
<1> QED
  BY <1>1, <1>2

LEMMA CompleteStep ==
  ASSUME OnePlan, AttestInv, SettleInv, [Next]_vars
  PROVE  CompleteMeansErased'
<1> DEFINE Erasure(rs, vs) ==
             /\ \A t \in Table, k \in request.linked \cup {Subject} : rs[t][k] = "gone"
             /\ request.tokened => \A s \in Store, v \in Vector : vs[s][v] # "live"
<1>0. TypeOK /\ request' = request /\ request.linked \subseteq Key
  BY NothingComesBack, RequestFields DEF AttestInv
<1>1. Erasure(rows, vectors) => Erasure(rows', vectors')
  BY <1>0, SubjectAssumption, NothingComesBack
<1>2. ASSUME state' = "COMPLETE"
      PROVE  Erasure(rows, vectors)
  <2>1. CASE state = "COMPLETE"
    BY <2>1 DEF SettleInv, CompleteMeansErased
  <2>2. CASE state # "COMPLETE"
    <3>1. Settle
      BY <1>2, <2>2 DEF Next, vars, Authorise, Execute, RecordStructuredCheck,
         WindowCloses, DeleteRefused, DeleteVectors, DeleteLands, Compact,
         AttestUnanchored, AttestBegin, AttestEnd, RecordForeign, Restart, Fresh
    <3>2. NothingOpen
      BY <1>2, <3>1 DEF Settle
    <3>3. request.linked \subseteq {Subject}
      BY <1>0, <3>2 DEF NothingOpen, OnePlan, TypeOK
    <3>4. \A t \in Table : rows[t][Subject] = "gone"
      BY <3>2 DEF NothingOpen, SettleInv, ChecksHold
    <3>5. request.tokened => \A s \in Store, v \in Vector : vectors[s][v] # "live"
      BY <3>2 DEF NothingOpen, AboutSubject, AttestInv, APassMeansErased
    <3> QED
      BY <3>3, <3>4, <3>5
  <2> QED
    BY <2>1, <2>2
<1> QED
  BY <1>0, <1>1, <1>2 DEF CompleteMeansErased

\* COMPLETE is said only of an erasure that happened: no row of the person is
\* left under any key, not even recoverably, and no vector of a subject with a
\* token can be retrieved, in whatever order executions, late deletes,
\* re-queries, attestations, other people's among them, and restarts came.
THEOREM CompleteIsTrue ==
  ASSUME OwnPorts, SweepsFinish, OnePlan
  PROVE  Spec => []CompleteMeansErased
<1>1. Init => SettleInv
  BY DEF Init, SettleInv, Retained, ChecksHold, CompleteMeansErased
<1>2. AttestInv /\ SettleInv /\ [Next]_vars => SettleInv'
  BY RetainedStep, ChecksStep, CompleteStep DEF SettleInv, AttestInv
<1>3. SettleInv => CompleteMeansErased
  BY DEF SettleInv
<1> QED
  BY <1>1, <1>2, <1>3, AttestInvariance, PTL DEF Spec
=============================================================================
