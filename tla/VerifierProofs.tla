--------------------------- MODULE VerifierProofs ---------------------------
(***************************************************************************)
(* The probe notices a record that is still there, for any similarities,   *)
(* radii and numbers of controls and any changes of the index between      *)
(* registration and probe; and the log keeps what was handed out.          *)
(***************************************************************************)
EXTENDS Verifier, TLAPS

Control == {c \in [size: Nat, copies: Nat] : c.copies <= c.size}

IndexType ==
  index \in [own: (0 .. Same) \cup {None}, near: 0 .. Same, ordinary: 0 .. Same - 1,
             copied: BOOLEAN]

\* Of an anchor whose baselines are apart, the upper one is of the record.
IsMeasured(a) ==
  IF a.present = None
  THEN a.cost = None /\ a.own = Same
  ELSE /\ a.present \in Int /\ a.absent \in Int /\ a.cost \in Nat
       /\ a.absent <= a.present
       /\ a.absent < a.present => a.own \in 0 .. Same /\ a.present = a.own - a.cost

IsProbing(p) ==
  /\ p = [controls |-> p.controls, given |-> p.given, inspection |-> p.inspection,
          attempt |-> p.attempt]
  /\ p.controls \in Control
  /\ p.controls.size >= MIN_CONTROL_ANCHORS
  /\ p.given = None \/ p.given \in Nat

Anchored ==
  /\ kept \/ probing # None => IsMeasured(anchor)
  /\ probing # None => IsProbing(probing)

Sound(b) ==
  b.given = None /\ (b.baselines = "unmeasured" => b.copies = 0) =>
    b.class \in Readings([controls |-> b.size, baselines |-> b.baselines], b.inspection,
                         IF b.there THEN "live" ELSE "gone")

ProbeInv == IndexType /\ Anchored /\ (last # None => Sound(last))

-----------------------------------------------------------------------------
(* Registration.                                                           *)

LEMMA ControlsType ==
  ASSUME NEW x, NEW c \in Controls(x) PROVE c \in Control
BY ScoreAssumption DEF Controls, Control

LEMMA CalibratedType ==
  ASSUME NEW x, x.ordinary \in 0 .. Same - 1, NEW c \in Control
  PROVE  Calibrated(x, c) \in Nat
<1> DEFINE typical == IF 2 * c.copies > c.size THEN Same ELSE x.ordinary
<1>1. typical \in 0 .. Same
  BY DEF Same
<1>2. (Same - typical) \div 2 \in Nat
  BY <1>1 DEF Same
<1>3. QED BY <1>2 DEF Calibrated

LEMMA RegistersMeasured ==
  ASSUME IndexType, NEW told \in BOOLEAN, NEW c \in Controls(index), register(told, c)
  PROVE  IsMeasured(anchor')
<1>1. c \in Control
  BY ControlsType
<1>2. Calibrated(index, c) \in Nat
  BY <1>1, CalibratedType DEF IndexType
<1> DEFINE cost == Calibrated(index, c)
           b == Baselines(index, cost)
<1>3. CASE ~told
  <2>1. anchor' = [present |-> None, absent |-> None, cost |-> None, own |-> Same]
    BY <1>3 DEF register
  <2>2. QED BY <2>1 DEF IsMeasured
<1>4. CASE told
  <2>1. anchor' = [present |-> b.present, absent |-> b.absent, cost |-> cost, own |-> index.own]
    BY <1>4 DEF register
  <2> DEFINE top == Top1(index, FALSE)
  <2>2. b.present = top - cost /\ b.absent = index.near - cost
    BY DEF Baselines, Top1
  <2>3. top = IF index.own # None /\ index.own > index.near THEN index.own ELSE index.near
    BY DEF Top1
  <2>4. cost \in Nat
    BY <1>2
  <2> HIDE DEF b, cost, top
  <2>5. /\ top \in Int /\ index.near \in Int /\ index.near <= top
        /\ top # index.near => index.own \in 0 .. Same /\ top = index.own
    <3>1. CASE index.own # None /\ index.own > index.near
      <4>1. index.own \in 0 .. Same /\ index.near \in 0 .. Same
        BY <3>1 DEF IndexType
      <4>2. QED BY <2>3, <3>1, <4>1 DEF Same
    <3>2. CASE ~(index.own # None /\ index.own > index.near)
      <4>1. index.near \in 0 .. Same /\ top = index.near
        BY <2>3, <3>2 DEF IndexType
      <4>2. QED BY <4>1 DEF Same
    <3>3. QED BY <3>1, <3>2
  <2>6. b.present \in Int /\ b.absent \in Int
    BY <2>2, <2>4, <2>5
  <2>7. b.absent <= b.present
    BY <2>2, <2>4, <2>5
  <2>8. b.absent < b.present => index.own \in 0 .. Same /\ b.present = index.own - cost
    BY <2>2, <2>4, <2>5
  <2>9. b.present # None
    BY <2>6, NoneAssumption
  <2>10. QED BY <2>1, <2>4, <2>6, <2>7, <2>8, <2>9 DEF IsMeasured
<1>5. QED BY <1>3, <1>4

-----------------------------------------------------------------------------
(* The attested probe.                                                     *)

LEMMA RankType ==
  ASSUME NEW x, NEW c \in Control, NEW cost, NEW score
  PROVE  Rank(x, c, cost, score) \in 1 .. c.size + 1
<1>1. c.size \in Nat /\ c.copies \in Nat /\ c.copies <= c.size
  BY DEF Control
<1> DEFINE s == IF Same - cost >= score THEN c.copies ELSE 0
           t == IF x.ordinary - cost >= score THEN c.size - c.copies ELSE 0
<1>2. s \in 0 .. c.copies /\ t \in 0 .. c.size - c.copies
  BY <1>1
<1>3. Rank(x, c, cost, score) = 1 + s + t
  BY DEF Rank
<1> HIDE DEF s, t
<1>4. QED BY <1>1, <1>2, <1>3

\* I2 for a subject whose baselines are apart: a score that is at least what
\* it was with the record is nearer to that than to the score without it.
LEMMA PairedNoticesPresence ==
  ASSUME IndexType, NEW a, IsMeasured(a), baselines(a) = "separable", StillThere(a, index)
  PROVE  paired_verdict(a, Top1(index, FALSE) - a.cost) = "present"
<1> DEFINE top == Top1(index, FALSE)
           score == top - a.cost
<1>1. a.present # None /\ a.present \in Int /\ a.absent \in Int /\ a.cost \in Nat
      /\ a.absent <= a.present /\ a.absent # a.present
  BY DEF baselines, IsMeasured
<1>2. a.own \in 0 .. Same /\ a.present = a.own - a.cost
  BY <1>1 DEF IsMeasured
<1>3. index.own = a.own /\ index.own # None /\ index.own \in 0 .. Same
  BY <1>2 DEF StillThere
<1>4. top \in Int /\ top >= index.own
  BY <1>3 DEF Top1, IndexType, Same
<1> HIDE DEF top
<1>5. score \in Int /\ score >= a.present
  BY <1>1, <1>2, <1>3, <1>4 DEF Same
<1> HIDE DEF score
<1>6. Distance(score, a.present) < Distance(score, a.absent)
  BY <1>1, <1>5 DEF Distance
<1>7. QED BY <1>6 DEF paired_verdict, score, top

\* Without baselines, and without copies among the controls, no control
\* scores as high as a record that is the anchor itself.
LEMMA RankNoticesPresence ==
  ASSUME IndexType, index.own = Same, NEW c \in Control, c.copies = 0, NEW cost \in Nat
  PROVE  Rank(index, c, cost, Top1(index, FALSE) - cost) = 1
<1>0. index.own # None
  BY NoneAssumption DEF Same
<1>1. Top1(index, FALSE) = Same
  BY <1>0 DEF Top1, IndexType, Same
<1>2. ~(index.ordinary - cost >= Same - cost)
  BY DEF IndexType, Same
<1>3. (IF Same - cost >= Same - cost THEN c.copies ELSE 0) = 0
  OBVIOUS
<1>4. Rank(index, c, cost, Same - cost) = 1 + 0 + 0
  BY <1>2, <1>3, Zenon DEF Rank
<1>5. Rank(index, c, cost, Same - cost) = 1
  BY <1>4
<1>6. QED BY <1>1, <1>5, Zenon

LEMMA VerdictNames ==
  ASSUME NEW a, NEW score
  PROVE  paired_verdict(a, score) \in
           IF baselines(a) = "unmeasured" THEN {"unavailable"}
           ELSE IF baselines(a) = "inseparable" THEN {"uninformative"}
           ELSE {"present", "erased"}
<1>1. baselines(a) \in {"unmeasured", "inseparable", "separable"}
  BY DEF baselines
<1>2. QED BY <1>1 DEF paired_verdict

LEMMA ClassifyType ==
  ASSUME NEW f, NEW i, NEW p, NEW m, NEW r
  PROVE  classify(f, i, p, m, r) \in Classification
BY DEF classify, Classification, Passing

LEMMA MeasuredIsAReading ==
  ASSUME NEW t, ~(t.controls < MIN_CONTROL_ANCHORS), NEW i, NEW there,
         NEW p \in PairedVerdicts(t, there), NEW r \in Ranks(t, there)
  PROVE  classify(FALSE, i, p, t.controls, r) \in Readings(t, i, there)
BY ClassifyType, Zenon DEF Readings

\* What Probe attests is sound.
LEMMA ProbesSoundly ==
  ASSUME IndexType, NEW a, IsMeasured(a), a = anchor, NEW c \in Control,
         c.size >= MIN_CONTROL_ANCHORS, NEW i, NEW given, given = None
  PROVE  LET cost == Cost(a, given, index, c)
             score == Top1(index, FALSE) - cost IN
         Sound(Basis(classify(FALSE, i, paired_verdict(a, score), c.size,
                              Rank(index, c, cost, score)), i, c, given))
<1> DEFINE cost == Cost(a, given, index, c)
           score == Top1(index, FALSE) - cost
           paired == paired_verdict(a, score)
           at == Rank(index, c, cost, score)
           class == classify(FALSE, i, paired, c.size, at)
           there == IF StillThere(a, index) THEN "live" ELSE "gone"
           t == [controls |-> c.size, baselines |-> baselines(a)]
<1> SUFFICES ASSUME baselines(a) = "unmeasured" => c.copies = 0
             PROVE  class \in Readings(t, i, there)
  BY DEF Sound, Basis
<1>1. at \in 1 .. c.size + 1
  BY RankType
<1>2. c.size \in Nat
  BY DEF Control
<1>3. baselines(a) \in {"unmeasured", "inseparable", "separable"}
  BY DEF baselines
<1>4. paired \in PairedVerdicts(t, there)
  <2>1. CASE baselines(a) = "unmeasured"
    BY <2>1, VerdictNames DEF PairedVerdicts
  <2>2. CASE baselines(a) = "inseparable"
    BY <2>2, VerdictNames DEF PairedVerdicts
  <2>3. CASE baselines(a) = "separable" /\ StillThere(a, index)
    <3>1. cost = a.cost
      <4>1. a.cost # None
        BY <2>3, NoneAssumption DEF baselines, IsMeasured
      <4>2. QED BY <4>1 DEF Cost
    <3>2. paired = "present"
      BY <2>3, <3>1, PairedNoticesPresence
    <3>3. QED BY <2>3, <3>2 DEF PairedVerdicts
  <2>4. CASE baselines(a) = "separable" /\ ~StillThere(a, index)
    BY <2>4, VerdictNames DEF PairedVerdicts
  <2>5. QED BY <1>3, <2>1, <2>2, <2>3, <2>4
<1>5. at \in Ranks(t, there)
  <2>1. CASE StillThere(a, index) /\ baselines(a) = "unmeasured"
    <3>1. a.own = Same /\ a.cost = None
      BY <2>1 DEF baselines, IsMeasured
    <3>2. index.own = Same
      BY <2>1, <3>1 DEF StillThere
    <3>3. cost \in Nat
      BY <3>1, CalibratedType DEF Cost, IndexType
    <3>4. at = 1
      BY <2>1, <3>2, <3>3, RankNoticesPresence
    <3> HIDE DEF at
    <3>5. QED BY <1>1, <1>2, <3>4 DEF Ranks, MIN_CONTROL_ANCHORS
  <2>2. CASE ~(StillThere(a, index) /\ baselines(a) = "unmeasured")
    <3> HIDE DEF at
    <3>1. QED BY <1>1, <2>2 DEF Ranks
  <2>3. QED BY <2>1, <2>2
<1>6. t.controls = c.size /\ ~(t.controls < MIN_CONTROL_ANCHORS)
  BY <1>2 DEF MIN_CONTROL_ANCHORS
<1> HIDE DEF paired, at, t, there
<1>7. classify(FALSE, i, paired, t.controls, at) \in Readings(t, i, there)
  BY <1>4, <1>5, <1>6, MeasuredIsAReading
<1>8. QED BY <1>6, <1>7

-----------------------------------------------------------------------------
(* Every step keeps the probe's invariant.                                 *)

LEMMA ProbeInvInit == Init => ProbeInv
<1> SUFFICES ASSUME Init PROVE ProbeInv
  OBVIOUS
<1>1. IndexType
  <2>1. Same \in 0 .. Same
    BY DEF Same
  <2>2. Similarity \cup {Same, None} \subseteq (0 .. Same) \cup {None}
    BY <2>1, ScoreAssumption
  <2>3. index \in Index
    BY DEF Init
  <2> QED BY <2>2, <2>3, ScoreAssumption DEF Index, IndexType
<1>2. anchor = None /\ kept = FALSE /\ probing = None /\ last = None
  BY DEF Init
<1>3. QED BY <1>1, <1>2 DEF ProbeInv, Anchored

LEMMA OthersKeepType ==
  ASSUME IndexType, OthersWrite PROVE IndexType'
<1>1. CASE index.own # None /\ \E own \in Similarity \cup {None} : Others([index EXCEPT !.own = own])
  BY <1>1, ScoreAssumption DEF Others, IndexType
<1>2. CASE \E near \in Similarity : Others([index EXCEPT !.near = near])
  BY <1>2, ScoreAssumption DEF Others, IndexType
<1>3. CASE \E ordinary \in Ordinary : Others([index EXCEPT !.ordinary = ordinary])
  BY <1>3, ScoreAssumption DEF Others, IndexType
<1>4. CASE Others([index EXCEPT !.copied = ~@])
  BY <1>4 DEF Others, IndexType
<1>5. QED BY <1>1, <1>2, <1>3, <1>4 DEF OthersWrite

\* Too few controls: there is no probe, and one reading.
LEMMA UnmeasuredIsSound ==
  ASSUME NEW c, c.size < MIN_CONTROL_ANCHORS, NEW i, NEW given
  PROVE  Sound(Basis(classify(FALSE, i, "unavailable", c.size, c.size + 1), i, c, given))
<1> DEFINE class == classify(FALSE, i, "unavailable", c.size, c.size + 1)
           there == IF StillThere(anchor, index) THEN "live" ELSE "gone"
           t == [controls |-> c.size, baselines |-> baselines(anchor)]
<1>1. t.controls = c.size
  OBVIOUS
<1> HIDE DEF there, t
<1>2. Readings(t, i, there) = {classify(FALSE, i, "unavailable", c.size, c.size + 1)}
  BY <1>1, ClassifyType DEF Readings
<1>3. class \in Readings(t, i, there)
  BY <1>2
<1>4. QED BY <1>3 DEF Sound, Basis, t, there

LEMMA BeginKeepsProbeInv ==
  ASSUME ProbeInv, NEW c \in Controls(index), NEW given \in GivenCost \cup {None},
         VerifyBegin(c, given)
  PROVE  ProbeInv'
<1>1. PICK i \in Inspected(store), found \in Found(index) :
        IF found \/ i = "residue"
        THEN Attest(None)
        ELSE IF c.size < MIN_CONTROL_ANCHORS
        THEN Attest(Basis(classify(FALSE, i, "unavailable", c.size, c.size + 1), i, c, given))
        ELSE /\ probing' = [controls |-> c, given |-> given, inspection |-> i, attempt |-> 0]
             /\ UNCHANGED <<world, anchor, kept, last, log, file, torn, issued, fresh, signed, up>>
  BY DEF VerifyBegin
<1>2. IsMeasured(anchor)
  BY DEF VerifyBegin, ProbeInv, Anchored
<1>3. CASE found \/ i = "residue"
  BY <1>1, <1>3 DEF Attest, ProbeInv, Anchored, IsMeasured, IndexType, world
<1>4. CASE ~(found \/ i = "residue") /\ c.size < MIN_CONTROL_ANCHORS
  <2> DEFINE b == Basis(classify(FALSE, i, "unavailable", c.size, c.size + 1), i, c, given)
  <2>1. Sound(b)
    BY <1>4, UnmeasuredIsSound
  <2>2. Attest(b)
    BY <1>1, <1>4
  <2> HIDE DEF b
  <2>3. last' = b /\ probing' = None /\ UNCHANGED <<index, anchor, kept>>
    BY <2>2 DEF Attest, world
  <2>4. QED BY <2>1, <2>3 DEF ProbeInv, Anchored, IndexType, IsMeasured
<1>5. CASE ~(found \/ i = "residue") /\ ~(c.size < MIN_CONTROL_ANCHORS)
  <2>1. /\ probing' = [controls |-> c, given |-> given, inspection |-> i, attempt |-> 0]
        /\ UNCHANGED <<index, anchor, kept, last>>
    BY <1>1, <1>5 DEF world
  <2>2. c \in Control /\ c.size \in Nat
    BY ControlsType DEF Control
  <2>3. given = None \/ given \in Nat
    BY ScoreAssumption
  <2>4. IsProbing(probing')
    BY <1>5, <2>1, <2>2, <2>3 DEF IsProbing, MIN_CONTROL_ANCHORS
  <2>5. QED BY <1>2, <2>1, <2>4 DEF ProbeInv, Anchored, IndexType
<1>6. QED BY <1>3, <1>4, <1>5

LEMMA ProbeKeepsProbeInv ==
  ASSUME ProbeInv, Probe PROVE ProbeInv'
<1> DEFINE c == probing.controls
           given == probing.given
           i == probing.inspection
           cost == Cost(anchor, given, index, c)
           score == Top1(index, FALSE) - cost
           paired == paired_verdict(anchor, score)
           at == Rank(index, c, cost, score)
           b == Basis(classify(FALSE, i, paired, c.size, at), i, c, given)
<1>1. IsMeasured(anchor) /\ IsProbing(probing) /\ IndexType
  BY DEF Probe, ProbeInv, Anchored
<1>2. \/ /\ probing' = [probing EXCEPT !.attempt = @ + 1]
         /\ UNCHANGED <<world, anchor, kept, last>>
      \/ Attest(b)
  BY DEF Probe
<1>3. CASE /\ probing' = [probing EXCEPT !.attempt = @ + 1]
           /\ UNCHANGED <<world, anchor, kept, last>>
  <2>1. IsProbing(probing')
    BY <1>1, <1>3 DEF IsProbing
  <2>2. QED BY <1>1, <1>3, <2>1 DEF ProbeInv, Anchored, IndexType, world
<1>4. CASE Attest(b)
  <2>1. c \in Control /\ c.size >= MIN_CONTROL_ANCHORS
    BY <1>1 DEF IsProbing
  <2>2. Sound(b)
    <3>1. CASE given = None
      BY <1>1, <2>1, <3>1, ProbesSoundly
    <3>2. CASE given # None
      BY <3>2 DEF Sound, Basis
    <3>3. QED BY <3>1, <3>2
  <2> HIDE DEF b
  <2>3. last' = b /\ probing' = None /\ UNCHANGED <<index, anchor, kept>>
    BY <1>4 DEF Attest, world
  <2>4. QED BY <1>1, <2>2, <2>3 DEF ProbeInv, Anchored, IndexType
<1>5. QED BY <1>2, <1>3, <1>4

LEMMA ProbeInvStep == ProbeInv /\ [Next]_vars => ProbeInv'
<1> SUFFICES ASSUME ProbeInv, [Next]_vars PROVE ProbeInv'
  OBVIOUS
<1>1. CASE OthersWrite
  <2>1. IndexType'
    BY <1>1, OthersKeepType DEF ProbeInv
  <2>2. UNCHANGED <<anchor, kept, probing, last>>
    BY <1>1 DEF OthersWrite, Others
  <2>3. QED BY <2>1, <2>2 DEF ProbeInv, Anchored
<1>2. CASE \E told \in BOOLEAN, c \in Controls(index) : register(told, c)
  <2>1. PICK told \in BOOLEAN, c \in Controls(index) : register(told, c)
    BY <1>2
  <2>2. IsMeasured(anchor')
    BY <2>1, RegistersMeasured DEF ProbeInv
  <2>3. probing' = None /\ last' = None /\ UNCHANGED index
    BY <2>1 DEF register, world
  <2>4. QED BY <2>2, <2>3 DEF ProbeInv, Anchored, IndexType
<1>3. CASE forget
  BY <1>3 DEF forget, ProbeInv, Anchored, IndexType, world
<1>4. CASE \E c \in Controls(index), given \in GivenCost \cup {None} : VerifyBegin(c, given)
  BY <1>4, BeginKeepsProbeInv
<1>5. CASE Probe
  BY <1>5, ProbeKeepsProbeInv
<1>6. CASE Crash
  BY <1>6 DEF Crash, ProbeInv, Anchored, IndexType, world
<1>7. CASE Restart
  BY <1>7 DEF Restart, ProbeInv, Anchored, IndexType, world
<1>8. CASE UNCHANGED vars
  BY <1>8 DEF vars, ProbeInv, Anchored, IndexType, world
<1>9. QED BY <1>1, <1>2, <1>3, <1>4, <1>5, <1>6, <1>7, <1>8 DEF Next

(* An attestation never calls erased a record that is where it was         *)
(* registered, whatever happened in between; see ProbeIsSound.             *)
THEOREM ProbeSoundness == Spec => []ProbeIsSound
<1>1. ProbeInv => ProbeIsSound
  BY DEF ProbeInv, Sound, ProbeIsSound
<1>2. QED BY ProbeInvInit, ProbeInvStep, <1>1, PTL DEF Spec

-----------------------------------------------------------------------------
(* The log.                                                                *)

Entry == [hash : Nat, previous : Nat]

LogInv ==
  /\ signed \in Nat
  /\ log \in Seq(Entry) /\ file \in Seq(Entry)
  /\ AttestedStaysLogged

LEMMA AppendKeepsHeld ==
  ASSUME NEW l \in Seq(Entry), NEW e \in Entry, NEW a, Holds(l, a)
  PROVE  Holds(Append(l, e), a)
BY DEF Holds

LEMMA AttestKeepsLog ==
  ASSUME LogInv, up, NEW basis, Attest(basis)
  PROVE  LogInv'
<1> DEFINE e == [hash |-> signed + 1, previous |-> LastHash(log)]
           given == [index |-> Len(log) + 1, hash |-> e.hash]
<1>1. LastHash(log) \in Nat
  <2>1. CASE log = <<>>
    BY <2>1 DEF LastHash, GENESIS
  <2>2. CASE log # <<>>
    <3>1. log[Len(log)] \in Entry
      BY <2>2 DEF LogInv
    <3>2. QED BY <2>2, <3>1 DEF LastHash, Entry
  <2>3. QED BY <2>1, <2>2
<1>2. e \in Entry
  BY <1>1 DEF LogInv, Entry
<1>3. signed' \in Nat /\ up' = up /\ fresh' = fresh /\ AppendEntry(e)
  BY DEF Attest, LogInv
<1> HIDE DEF e
<1>4. log' = Append(log, e) /\ log' \in Seq(Entry)
  BY <1>2, <1>3 DEF AppendEntry, LogInv
<1>5. CASE file' = log' /\ torn' = FALSE /\ issued' = issued \cup {given}
  <2>1. Holds(log', given)
    BY <1>2, <1>4 DEF Holds, LogInv
  <2>2. ~fresh => \A a \in issued' : Holds(log', a)
    BY <1>2, <1>4, <1>5, <2>1, AppendKeepsHeld DEF LogInv, AttestedStaysLogged
  <2>3. QED BY <1>3, <1>4, <1>5, <2>2 DEF LogInv, AttestedStaysLogged
<1>6. CASE torn' = TRUE /\ UNCHANGED <<file, issued>>
  <2>1. ~fresh => \A a \in issued' : Holds(log', a)
    BY <1>2, <1>4, <1>6, AppendKeepsHeld DEF LogInv, AttestedStaysLogged
  <2>2. QED BY <1>3, <1>4, <1>6, <2>1 DEF LogInv, AttestedStaysLogged
<1>7. QED BY <1>3, <1>5, <1>6 DEF AppendEntry

LEMMA LogUntouched ==
  ASSUME LogInv, UNCHANGED <<signed, log, file, torn, up, issued, fresh>>
  PROVE  LogInv'
BY DEF LogInv, AttestedStaysLogged, Holds

LEMMA LogInvStep == LogInv /\ [Next]_vars => LogInv'
<1> SUFFICES ASSUME LogInv, [Next]_vars PROVE LogInv'
  OBVIOUS
<1>1. CASE OthersWrite
  BY <1>1, LogUntouched DEF OthersWrite, Others
<1>2. CASE \E told \in BOOLEAN, c \in Controls(index) : register(told, c)
  BY <1>2, LogUntouched DEF register
<1>3. CASE forget
  BY <1>3, LogUntouched DEF forget
<1>4. CASE \E c \in Controls(index), given \in GivenCost \cup {None} : VerifyBegin(c, given)
  <2>1. \/ UNCHANGED <<signed, log, file, torn, up, issued, fresh>>
        \/ up /\ \E basis : Attest(basis)
    BY <1>4 DEF VerifyBegin
  <2>2. QED BY <2>1, AttestKeepsLog, LogUntouched
<1>5. CASE Probe
  <2>1. \/ UNCHANGED <<signed, log, file, torn, up, issued, fresh>>
        \/ up /\ \E basis : Attest(basis)
    BY <1>5 DEF Probe
  <2>2. QED BY <2>1, AttestKeepsLog, LogUntouched
<1>6. CASE Crash
  BY <1>6 DEF Crash, LogInv, AttestedStaysLogged, Holds
<1>7. CASE Restart
  <2>1. /\ log' = IF torn THEN <<>> ELSE file
        /\ fresh' = (fresh \/ torn)
        /\ UNCHANGED <<signed, file, torn, issued>>
    BY <1>7 DEF Restart
  <2>2. CASE torn
    <3>1. fresh' /\ log' = <<>>
      BY <2>1, <2>2
    <3>2. QED BY <2>1, <3>1 DEF LogInv, AttestedStaysLogged
  <2>3. CASE ~torn
    <3>1. (~fresh' => ~fresh) /\ log' = file
      BY <2>1, <2>3
    <3>2. ~fresh => \A a \in issued : Holds(file, a)
      BY <2>3 DEF LogInv, AttestedStaysLogged
    <3>3. QED BY <2>1, <3>1, <3>2 DEF LogInv, AttestedStaysLogged, Holds
  <2>4. QED BY <2>2, <2>3
<1>8. CASE UNCHANGED vars
  BY <1>8, LogUntouched DEF vars
<1>9. QED BY <1>1, <1>2, <1>3, <1>4, <1>5, <1>6, <1>7, <1>8 DEF Next

(* What was handed out is in the log and on file for as long as every      *)
(* start could read the file, however often appends failed or processes    *)
(* died.                                                                   *)
THEOREM LogKeepsAttested == Spec => []AttestedStaysLogged
<1>1. Init => LogInv
  BY DEF Init, LogInv, AttestedStaysLogged
<1>2. LogInv => AttestedStaysLogged
  BY DEF LogInv
<1>3. QED BY <1>1, <1>2, LogInvStep, PTL DEF Spec
=============================================================================
