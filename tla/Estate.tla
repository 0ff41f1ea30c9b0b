------------------------------- MODULE Estate -------------------------------
(***************************************************************************)
(* A vector index put under governance: the scanner, the migrator, the     *)
(* retriever and the vault over one store that its applications go on      *)
(* writing to.                                                             *)
(*                                                                         *)
(* scan() lists what holds identifiers; clean() fetches each listed        *)
(* vector, masks its source text with vault tokens, and writes the masked  *)
(* texts back in batches, deletions last.  Tokens are registered in memory *)
(* as texts are masked, so the store and the vault's file are written at   *)
(* different times.  A text is the set of findings the detector makes in   *)
(* it, or the set of tokens it holds once masked.                          *)
(***************************************************************************)
EXTENDS Vault, Naturals, FiniteSets

CONSTANTS
  Doc,        \* vector ids
  Finding,    \* [value, start, end, strength]: lower strength is stronger
  PersonName, \* the values that are names of people
  Text,       \* the texts applications write: sets of findings
  Batch,      \* clean(batch)
  MaxWrites,  \* bound: writes and removals by applications
  MaxActs,    \* bound: erasures, corrections and queries
  MaxCrash,   \* bound: deaths of the process
  None, Gone

ASSUME NoneAssumption == None \notin Value /\ Gone \notin Value /\ None # Gone

ASSUME FindingAssumption ==
  Finding \subseteq [value: Value, start: Nat, end: Nat, strength: Nat]

ASSUME PersonAssumption == PersonName \subseteq Nameable

ASSUME TextAssumption == Text \subseteq SUBSET Finding

ASSUME BoundAssumption ==
  MaxWrites \in Nat /\ MaxActs \in Nat /\ MaxCrash \in Nat

VARIABLES
  record,   \* record[d]: what the store holds under d
  job,      \* the cleaning under way, or its report
  budget    \* what is left of the three bounds

vars == <<vaultVars, record, job, budget>>

(* History of a masked text: `claim` is the identity it was masked under,  *)
(* Gone once that was erased, None once a restart forgot the registration; *)
(* `burnt` are the tokens that were erased already when it was masked, and *)
(* `safe` says the registration has been saved.                            *)
Masked ==
  [kind: {"masked"}, toks: SUBSET Value, named: SUBSET Nameable,
   claim: Value \cup {None, Gone}, burnt: SUBSET Value, safe: BOOLEAN]

Record ==
  {[kind |-> "absent"], [kind |-> "bare"]}
    \cup [kind: {"raw"}, text: Text] \cup Masked

\* A text that awaits its write is told from none.
ASSUME MaskedAssumption == None \notin Masked

Absent == [kind |-> "absent"]

\* `missed` and `touched` are history variables: vectors that a scan or a fetch
\* was not given, and vectors written by others since the scan.
Job ==
  [phase: {"idle", "cleaning", "done"}, todo: SUBSET Doc,
   pending: [Doc -> Masked \cup {None}], drop: SUBSET Doc,
   reembedded: SUBSET Doc, missed: SUBSET Doc, touched: SUBSET Doc]

Idle ==
  [phase |-> "idle", todo |-> {}, pending |-> [d \in Doc |-> None], drop |-> {},
   reembedded |-> {}, missed |-> {}, touched |-> {}]

Pending == {d \in Doc : job.pending[d] # None}

----------------------------------------------------------------------------
(* Detection.                                                              *)

Overlap(f, g) == ~(f.end <= g.start \/ f.start >= g.end)

\* The order in which spans are considered: by start, the longer one first.
Sooner(f, g) ==
  \/ f.start < g.start
  \/ f.start = g.start /\ f.end > g.end

\* scan() ends in _resolve_overlaps(): a span is kept unless one kept before it
\* overlaps it.
Scanned(text) ==
  LET kept == CHOOSE k \in SUBSET text :
                \A f \in text :
                  f \in k <=> ~\E g \in k : Sooner(g, f) /\ Overlap(g, f)
  IN text \cap kept

Values(found) == {f.value : f \in found}

----------------------------------------------------------------------------
(* History of what is masked.                                              *)

OnMasked(m(_)) ==
  /\ record' = [d \in Doc |-> IF record[d].kind = "masked" THEN m(record[d])
                              ELSE record[d]]
  /\ job' = [job EXCEPT !.pending =
               [d \in Doc |-> IF @[d] # None THEN m(@[d]) ELSE None]]

Disclaim(i, r) == IF r.claim = i THEN [r EXCEPT !.claim = Gone] ELSE r
Secure(r) == [r EXCEPT !.safe = TRUE]
Recall(r) == IF r.safe \/ r.claim = Gone THEN r ELSE [r EXCEPT !.claim = None]

----------------------------------------------------------------------------
(* The embedding application: erasures, corrections, queries, saves.       *)

Spend(field) == budget[field] > 0 /\ budget' = [budget EXCEPT ![field] = @ - 1]

\* An erasure and a correction rewrite the file, and with it whatever was
\* registered before.
Erase(i) ==
  /\ Spend("acts")
  /\ Shred(i)
  /\ OnMasked(LAMBDA r : Secure(Disclaim(i, r)))

Correct(t) ==
  /\ Spend("acts")
  /\ Rectify(t)
  /\ OnMasked(Secure)

Persist ==
  /\ Save
  /\ OnMasked(Secure)
  /\ UNCHANGED budget

\* query(): what the query itself mentions is tokenised, owned by nobody; the
\* rest of the call reads.
Query(text) ==
  /\ Spend("acts")
  /\ Ask(Values(Scanned(text)))
  /\ UNCHANGED <<record, job>>

Die ==
  /\ Spend("crashes")
  /\ Crash
  /\ job' = Idle
  /\ UNCHANGED record

Recover ==
  /\ Restart
  /\ OnMasked(Recall)
  /\ UNCHANGED budget

\* An application or a vector erasure writes the store, with no word to a
\* cleaning that may be under way.  Nothing happens once the file is torn.
Touch(d, r) ==
  /\ ~torn
  /\ Spend("writes")
  /\ record' = [record EXCEPT ![d] = r]
  /\ job' = [job EXCEPT !.touched = IF job.phase = "idle" THEN @ ELSE @ \cup {d}]
  /\ UNCHANGED vaultVars

Write(d) ==
  \/ \E text \in Text : Touch(d, [kind |-> "raw", text |-> text])
  \/ Touch(d, [kind |-> "bare"])

Remove(d) == record[d].kind # "absent" /\ Touch(d, Absent)

----------------------------------------------------------------------------
(* Scanner.scan() and Migrator.clean().                                    *)

\* iter_all(): ids are listed, then fetched in chunks; a chunk whose fetch fails
\* is skipped and the scan goes on without it.
Given(missed) == Doc \ missed

Scan(missed) ==
  /\ up
  /\ job.phase # "cleaning"
  /\ job' = [Idle EXCEPT
               !.phase = "cleaning", !.missed = missed,
               !.todo = {d \in Given(missed) : /\ record[d].kind = "raw"
                                              /\ Scanned(record[d].text) # {}}]
  /\ UNCHANGED <<vaultVars, record, budget>>

\* _mask(): the identity is the strongest finding, the leftmost of equals.
Canonical(c, found) ==
  \A g \in found : \/ c.strength < g.strength
                   \/ c.strength = g.strength /\ c.start <= g.start

\* Its display names: the first name of a person, and the strong identifiers.
Displayed(found) ==
  {v \in Nameable : \E f \in found :
     /\ f.value = v
     /\ v \in PersonName =>
          \A g \in found : g.value \in PersonName => f.start <= g.start}

MaskedAs(found, claim) ==
  [kind |-> "masked", toks |-> Values(found), named |-> Displayed(found),
   claim |-> claim, burnt |-> Values(found) \cap book.shredded, safe |-> FALSE]

Await(d, masked) ==
  job' = [job EXCEPT !.todo = @ \ {d}, !.pending[d] = masked,
                     !.reembedded = @ \cup {d}]

\* One exposure: fetched, and masked if it still has a source text, else
\* listed for deletion; a vector that is gone is skipped.
FetchRaw(d, found) ==
  \/ \E c \in found :
       /\ Canonical(c, found)
       /\ Register(Values(found), c.value, Displayed(found))
       /\ Await(d, MaskedAs(found, c.value))
  \/ found = {} /\ Await(d, MaskedAs({}, None)) /\ UNCHANGED vaultVars

FetchBare(d) ==
  /\ job' = [job EXCEPT !.todo = @ \ {d}, !.drop = @ \cup {d}]
  /\ UNCHANGED vaultVars

FetchAbsent(d) ==
  /\ job' = [job EXCEPT !.todo = @ \ {d}]
  /\ UNCHANGED vaultVars

\* The store's answer holds no record that can be made out; clean() takes the
\* vector for one that is gone.
FetchUnread(d) ==
  /\ job' = [job EXCEPT !.todo = @ \ {d}, !.missed = @ \cup {d}]
  /\ UNCHANGED vaultVars

\* A full batch is written before the next vector is fetched.
Fetch(d) ==
  /\ up
  /\ job.phase = "cleaning"
  /\ d \in job.todo
  /\ Cardinality(Pending) < Batch
  /\ \/ record[d].kind = "raw" /\ FetchRaw(d, Scanned(record[d].text))
     \/ record[d].kind = "bare" /\ FetchBare(d)
     \/ record[d].kind = "absent" /\ FetchAbsent(d)
     \/ record[d].kind # "absent" /\ FetchUnread(d)
  /\ UNCHANGED <<record, budget>>

Flushed ==
  [d \in Doc |-> IF d \in Pending THEN job.pending[d] ELSE record[d]]

\* upsert(): a full batch, or what is left at the end.
FaultFlush ==
  /\ up
  /\ job.phase = "cleaning"
  /\ Pending # {}
  /\ Cardinality(Pending) >= Batch \/ job.todo = {}
  /\ record' = IF Cardinality(Pending) >= Batch THEN Flushed ELSE record
  /\ job' = [job EXCEPT !.pending = [d \in Doc |-> None]]
  /\ UNCHANGED <<vaultVars, budget>>
Flush ==
  /\ up
  /\ job.phase = "cleaning"
  /\ Pending # {}
  /\ Cardinality(Pending) >= Batch \/ job.todo = {}
  /\ record' = Flushed
  /\ job' = [job EXCEPT !.pending = [d \in Doc |-> None]]
  /\ UNCHANGED <<vaultVars, budget>>

\* The deletions, and the report.
Finish ==
  /\ up
  /\ job.phase = "cleaning"
  /\ job.todo = {} /\ Pending = {}
  /\ record' = [d \in Doc |-> IF d \in job.drop THEN Absent ELSE record[d]]
  /\ job' = [job EXCEPT !.phase = "done", !.drop = {}]
  /\ UNCHANGED <<vaultVars, budget>>

\* A call to the store raises, and clean() with it; tokens stay registered.
Fail ==
  /\ up
  /\ job.phase = "cleaning"
  /\ job' = Idle
  /\ UNCHANGED <<vaultVars, record, budget>>

----------------------------------------------------------------------------

Init ==
  /\ VaultInit
  /\ record \in [Doc -> [kind: {"raw"}, text: Text]]
  /\ job = Idle
  /\ budget = [writes |-> MaxWrites, acts |-> MaxActs, crashes |-> MaxCrash]

Next ==
  \/ \E i \in Value : Erase(i)
  \/ \E t \in Value : Correct(t)
  \/ \E text \in Text : Query(text)
  \/ Persist \/ Die \/ Recover
  \/ \E d \in Doc : Write(d) \/ Remove(d)
  \/ \E missed \in SUBSET Doc : Scan(missed)
  \/ \E d \in Doc : Fetch(d)
  \/ Flush \/ Finish \/ Fail

Spec == Init /\ [][Next]_vars

----------------------------------------------------------------------------

\* The type invariant.
TypeOK ==
  /\ VaultType
  /\ record \in [Doc -> Record]
  /\ job \in Job
  /\ budget \in [writes: 0 .. MaxWrites, acts: 0 .. MaxActs, crashes: 0 .. MaxCrash]

\* query(): the text of a hit, as it is handed to a caller who may see
\* everything.
Shown(r) == [t \in r.toks |-> Rehydrate(book, t)]

\* What the store holds masked and what a cleaning is about to write.
Governed ==
  {record[d] : d \in {e \in Doc : record[e].kind = "masked"}}
    \cup {job.pending[d] : d \in Pending}

\* Erasing one person takes nothing from another: a masked text whose person
\* was not erased reads back in full, whoever else owned a token it shares, but
\* for values that had been erased when it was masked.  A text whose
\* registration a restart forgot is excepted: its tokens are lost.
OthersStayReadable ==
  up => \A r \in Governed :
    r.claim \in Value => \A t \in r.toks \ r.burnt : Shown(r)[t] = "value"

\* Erasing a person reaches every text masked as theirs: a value such a text
\* still reveals is owned by somebody who holds it and was not erased, however
\* many texts and queries mentioned it before or since.
ErasureReaches ==
  up => \A r \in Governed :
    r.claim = Gone => \A t \in r.toks :
      Shown(r)[t] = "value" => \E i \in book.owners[t] : t \in book.held[i]

\* The names a text is filed under, the first person's it mentions and its strong
\* identifiers (migrator.py:70-90), find the identity it was masked as until that
\* identity is erased: whoever else has the name, and whatever is erased under
\* it, registered again or forgotten by a restart.  A second person whom the text
\* mentions is filed under nothing.
FiledNamesFind ==
  up => \A r \in Governed :
    r.claim \in Value => \A n \in r.named : r.claim \in ResolveByName(book, n)

\* When a cleaning has ended, what it lists as re-embedded is masked, and a vector
\* that still holds identifiers is one that neither its scan nor its fetches were
\* given; vectors others wrote since excepted.  The report itself says of those it
\* was not given what it says of all: vectors_left_dirty 0 (migrator.py:42).
CleaningMasksWhatItGot ==
  job.phase = "done" =>
    \A d \in Doc \ job.touched :
      /\ d \in job.reembedded => record[d].kind = "masked"
      /\ record[d].kind = "raw" /\ Scanned(record[d].text) # {} => d \in job.missed
=============================================================================
