------------------------------ MODULE Verifier ------------------------------
(***************************************************************************)
(* One ErasureVerifier over one store: registration, the three stages of   *)
(* verify() with its waits, and the log of attestations.                   *)
(*                                                                         *)
(* Module Attestation takes the probe as a set of readings that notice a   *)
(* subject who is still there.  Here the probe is what the code does:      *)
(* similarities are compared, in hundredths of a cosine, with what they    *)
(* were when the subject was registered, or with those of other records.   *)
(* A query is the middle one of many around an anchor; the detour of a     *)
(* radius takes the same off every similarity.                             *)
(***************************************************************************)
EXTENDS Attestation, Integers, Sequences, FiniteSets

CONSTANTS
  Similarity,   \* of the record nearest to the subject's, other than it
  Ordinary,     \* of an ordinary record to its nearest
  Sample,       \* the control anchors a verification may find
  Copies,       \* how many of them may have a copy in the index
  GivenCost,    \* what the radius of a caller who gives one takes off
  StoreName,
  MaxChanges, MaxRetries, MaxAttested,   \* bounds
  None

Same == 100

ASSUME ScoreAssumption ==
  /\ Similarity \subseteq 0 .. Same
  /\ Ordinary \subseteq 0 .. Same - 1
  /\ Sample \subseteq Nat /\ Copies \subseteq Nat /\ GivenCost \subseteq 0 .. 12

ASSUME NoneAssumption == None \notin Int

ASSUME BoundAssumption ==
  MaxChanges \in Nat /\ MaxRetries \in Nat /\ MaxAttested \in Nat

VARIABLES
  store,      \* the name of the store
  index,      \* [own, near, ordinary, copied]
  changes,
  anchor,     \* the handle register() gave, or None
  kept,       \* the embedding behind it is in the anchor store
  probing,    \* a verification between two of its probes, or None
  last,       \* what the last attestation rests on, or None
  log,        \* AttestationLog.entries
  file,       \* what its file reads
  torn,       \* it cannot be read
  up,         \* the process lives
  issued,     \* the attestations handed out, as [index, hash]
  fresh,      \* a process has started on an unreadable log
  signed      \* the attestations signed so far

world == <<store, index, changes>>
vars == <<world, anchor, kept, probing, last, log, file, torn, up, issued, fresh, signed>>

-----------------------------------------------------------------------------
(* The index: how similar the subject's record is to the embedding the     *)
(* caller has of it (None once it is deleted), how similar the nearest     *)
(* other record is, and an ordinary record to its own nearest; and whether *)
(* some records have copies.                                               *)

Index ==
  [own: Similarity \cup {Same, None}, near: Similarity, ordinary: Ordinary,
   copied: BOOLEAN]

\* The best answer to a query, the subject's record itself left out or not.
Top1(x, hidden) ==
  IF x.own # None /\ ~hidden /\ x.own > x.near THEN x.own ELSE x.near

\* Control anchors: some number of other records, of which some have copies.
Controls(x) ==
  {c \in [size: Sample, copies: Copies] :
     c.copies <= c.size /\ (c.copies > 0 => x.copied)}

\* The radius puts a probe half-way to the typical nearest neighbour of the
\* first controls, here of all; no control, no detour to speak of.
Calibrated(x, c) ==
  LET typical == IF 2 * c.copies > c.size THEN Same ELSE x.ordinary
      cost == (Same - typical) \div 2
  IN IF c.size = 0 THEN 0 ELSE IF cost > 12 THEN 12 ELSE cost

_detect_engine(name) ==
  CASE name \in {"in_memory", "pinecone", "qdrant"} -> name
    [] name = "pgvector" -> "pgvector_hnsw"
    [] OTHER -> "generic"

\* The baselines exist when register() was told which record is the subject's.
baselines(a) ==
  IF a.present = None THEN "unmeasured"
  ELSE IF a.present - a.absent < 1 /\ a.absent - a.present < 1 THEN "inseparable"
  ELSE "separable"

Distance(x, y) == IF x < y THEN y - x ELSE x - y

\* Compares the region with itself, before and after.
paired_verdict(a, score) ==
  CASE baselines(a) = "unmeasured" -> "unavailable"
    [] baselines(a) = "inseparable" -> "uninformative"
    [] baselines(a) = "separable" ->
         IF Distance(score, a.present) < Distance(score, a.absent)
         THEN "present" ELSE "erased"

\* The rank of the subject's region among those of the controls: p is
\* rank / (size + 1).
Rank(x, c, cost, score) ==
  1 + (IF Same - cost >= score THEN c.copies ELSE 0)
    + (IF x.ordinary - cost >= score THEN c.size - c.copies ELSE 0)

\* What the engine says of itself does not tell the subject from others, and
\* the texts that are swept may have been scrubbed.
Inspected(name) ==
  Inspections(_detect_engine(name), [v \in Vector |-> "gone"])

Found(x) ==
  Sweeps([v \in Vector |-> IF v = "anchored" /\ x.own # None THEN "live" ELSE "gone"], TRUE)

-----------------------------------------------------------------------------
(* The log.  An entry's number stands for its hash, which a timestamp and  *)
(* the signed payload make its own; `previous` is the hash before it.      *)

GENESIS == 0

LastHash(l) == IF l = <<>> THEN GENESIS ELSE l[Len(l)].hash

verify_chain(l) == \A i \in DOMAIN l : l[i].previous = LastHash(SubSeq(l, 1, i - 1))

Holds(l, a) == a.index \in DOMAIN l /\ l[a.index].hash = a.hash

\* Written before it is extended.
FaultAppendEntry(e) ==
  \/ log' = Append(log, e) /\ file' = log /\ torn' = FALSE
     /\ issued' = issued \cup {[index |-> Len(log) + 1, hash |-> e.hash]}
  \/ log' = Append(log, e) /\ torn' = TRUE /\ UNCHANGED <<file, issued>>

\* Every append rewrites the file.  If that fails the file is cut short, the
\* entry is in memory and verify() raises.
AppendEntry(e) ==
  \/ log' = Append(log, e) /\ file' = log' /\ torn' = FALSE
     /\ issued' = issued \cup {[index |-> Len(log) + 1, hash |-> e.hash]}
  \/ log' = Append(log, e) /\ torn' = TRUE /\ UNCHANGED <<file, issued>>

Attest(basis) ==
  /\ signed < MaxAttested
  /\ signed' = signed + 1
  /\ AppendEntry([hash |-> signed + 1, previous |-> LastHash(log)])
  /\ last' = basis
  /\ probing' = None
  /\ UNCHANGED <<world, anchor, kept, up, fresh>>

-----------------------------------------------------------------------------
Init ==
  /\ store \in StoreName
  /\ index \in Index
  /\ index.own = Same
  /\ changes = 0
  /\ anchor = None /\ kept = FALSE
  /\ probing = None /\ last = None
  /\ log = <<>> /\ file = <<>> /\ torn = FALSE
  /\ up = TRUE
  /\ issued = {} /\ fresh = FALSE /\ signed = 0

(* Others write the index: the subject's record is deleted or embedded     *)
(* anew, other records come and go.                                        *)
Others(x) ==
  /\ changes < MaxChanges
  /\ changes' = changes + 1
  /\ index' = x
  /\ UNCHANGED <<store, anchor, kept, probing, last, log, file, torn, issued,
                 fresh, signed, up>>

OthersWrite ==
  \/ index.own # None /\ \E own \in Similarity \cup {None} : Others([index EXCEPT !.own = own])
  \/ \E near \in Similarity : Others([index EXCEPT !.near = near])
  \/ \E ordinary \in Ordinary : Others([index EXCEPT !.ordinary = ordinary])
  \/ Others([index EXCEPT !.copied = ~@])

\* The two hypotheses: the region's score with the record, and without it.
Baselines(x, cost) == [present |-> Top1(x, FALSE) - cost, absent |-> Top1(x, TRUE) - cost]

register(told, c) ==
  /\ up /\ probing = None
  /\ c \in Controls(index)
  /\ LET cost == Calibrated(index, c)
         b == Baselines(index, cost) IN
     anchor' = IF told
               THEN [present |-> b.present, absent |-> b.absent, cost |-> cost,
                     own |-> index.own]
               ELSE [present |-> None, absent |-> None, cost |-> None,
                     own |-> Same]
  /\ kept' = TRUE
  /\ last' = None
  /\ UNCHANGED <<world, probing, log, file, torn, issued, fresh, signed, up>>

\* The handle stays with the caller.
forget ==
  /\ up /\ kept /\ probing = None
  /\ kept' = FALSE
  /\ UNCHANGED <<world, anchor, probing, last, log, file, torn, issued, fresh,
                 signed, up>>

\* Is the subject's record still where it was registered?
StillThere(a, x) == x.own # None /\ x.own = a.own

\* What an attestation rests on, with the index when it was last probed.
Basis(class, inspection, c, given) ==
  [ class |-> class, inspection |-> inspection, size |-> c.size, copies |-> c.copies,
    given |-> given, baselines |-> baselines(anchor), there |-> StillThere(anchor, index) ]

\* verify(), as far as its first probe.  Without the embedding it raises.
VerifyBegin(c, given) ==
  /\ up /\ kept /\ probing = None
  /\ c \in Controls(index)
  /\ \E i \in Inspected(store), found \in Found(index) :
       IF found \/ i = "residue"
       THEN Attest(None)
       ELSE IF c.size < MIN_CONTROL_ANCHORS
       THEN Attest(Basis(classify(FALSE, i, "unavailable", c.size, c.size + 1), i, c, given))
       ELSE /\ probing' = [controls |-> c, given |-> given, inspection |-> i, attempt |-> 0]
            /\ UNCHANGED <<world, anchor, kept, last, log, file, torn, issued, fresh,
                           signed, up>>

\* Measures with the radius of the index as it is now.
FaultCost(a, given, x, c) == IF given # None THEN given ELSE Calibrated(x, c)

Cost(a, given, x, c) ==
  IF given # None THEN given ELSE IF a.cost # None THEN a.cost ELSE Calibrated(x, c)

\* A residue is looked at again later, and the last look is attested.
Probe ==
  /\ up /\ probing # None
  /\ LET c == probing.controls
         cost == Cost(anchor, probing.given, index, c)
         score == Top1(index, FALSE) - cost
         paired == paired_verdict(anchor, score)
         at == Rank(index, c, cost, score)
         residue == paired = "present" \/ (paired = "unavailable" /\ 20 * at <= c.size + 1)
     IN IF residue /\ probing.attempt < MaxRetries
        THEN /\ probing' = [probing EXCEPT !.attempt = @ + 1]
             /\ UNCHANGED <<world, anchor, kept, last, log, file, torn, issued, fresh,
                            signed, up>>
        ELSE Attest(Basis(classify(FALSE, probing.inspection, paired, c.size, at),
                          probing.inspection, c, probing.given))

\* Anchors, handles and the verification under way are in memory.
Crash ==
  /\ up
  /\ up' = FALSE
  /\ anchor' = None /\ kept' = FALSE /\ probing' = None /\ last' = None
  /\ log' = <<>>
  /\ UNCHANGED <<world, file, torn, issued, fresh, signed>>

\* An unreadable log is logged as such, and a new one begun.
Restart ==
  /\ ~up
  /\ up' = TRUE
  /\ log' = IF torn THEN <<>> ELSE file
  /\ fresh' = (fresh \/ torn)
  /\ UNCHANGED <<world, anchor, kept, probing, last, file, torn, issued, signed>>

Next ==
  \/ OthersWrite
  \/ \E told \in BOOLEAN, c \in Controls(index) : register(told, c)
  \/ forget
  \/ \E c \in Controls(index), given \in GivenCost \cup {None} :
       VerifyBegin(c, given)
  \/ Probe
  \/ Crash \/ Restart

Spec == Init /\ [][Next]_vars

-----------------------------------------------------------------------------
(* I2, "a subject that is still present must NEVER classify as erased", as *)
(* Attestation assumes it: what the probe reports of a record that is      *)
(* where it was registered is one of Attestation's readings of a live one. *)
(* It is so while the caller leaves the radius alone and, if register()    *)
(* was not told which record is the subject's, no control has a copy.      *)
ProbeIsSound ==
  last # None /\ last.given = None /\ (last.baselines = "unmeasured" => last.copies = 0) =>
    last.class \in
      Readings([controls |-> last.size, baselines |-> last.baselines], last.inspection,
               IF last.there THEN "live" ELSE "gone")

(* AttestationLog: an attestation that was handed out is at its place in   *)
(* the log and on file, whatever was cut short, restarted or written over  *)
(* since, as long as the file could be read at each start.                 *)
AttestedStaysLogged ==
  ~fresh => \A a \in issued : (up => Holds(log, a)) /\ (torn \/ Holds(file, a))

(* "It detects corruption" (erasure_verifier.py:620).  False: the log that *)
(* could not be read is replaced by a new one, whose chain is whole.       *)
LossOfTheLogShows ==
  up /\ verify_chain(log) => \A a \in issued : Holds(log, a)

(* I2 as the module states it (erasure_verifier.py:19).  False: without    *)
(* baselines, controls with copies score as high as a subject still there, *)
(* and with the radius of another call the paired test compares scores     *)
(* taken differently.                                                      *)
PresentNeverPasses ==
  last # None /\ last.there => last.class \notin Passing
=============================================================================
