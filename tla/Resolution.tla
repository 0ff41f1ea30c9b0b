----------------------------- MODULE Resolution -----------------------------
(***************************************************************************)
(* aagcp.core.subject_resolution, with the constructor of core.erasure     *)
(* that takes its answer: who, exactly, is a request about?                *)
(*                                                                         *)
(* The estate files every person under keys of several kinds, a kind       *)
(* perhaps more than once, and goes on changing: people get new keys, and  *)
(* a number passes from one to another.  An identity index is a list of    *)
(* records taken of it at some time, of everybody or not.  A value is what *)
(* strip() and casefold() leave of it; Blank is what they leave of a field *)
(* nobody filled in.                                                       *)
(***************************************************************************)
EXTENDS Integers, Sequences, FiniteSets

CONSTANTS
  Person,
  Kind,        \* KeyKind
  Strong,      \* the kinds unique by construction
  Value, Blank,
  ValueOf,     \* the values a kind may have
  Outages,     \* the kinds an index may be unable to answer for, together
  Given,       \* the estates to begin with
  MaxChanges,  \* changes of the estate
  None

ASSUME ResolutionAssumption ==
  /\ Strong \subseteq Kind
  /\ Blank \notin Value
  /\ None \notin Person
  /\ ValueOf \in [Kind -> SUBSET Value] /\ Outages \subseteq SUBSET Kind
  /\ Given \subseteq [Person -> [Kind -> Seq(Value)]]
  /\ MaxChanges \in Nat
  /\ IsFiniteSet(Person)

VARIABLES
  estate,   \* estate[p][k]: the values p is filed under, the latest last
  changes,  \* the changes so far
  index,    \* the identity index in use
  taken,    \* the estate when it was taken
  held,     \* the Resolution the caller holds, or None
  asked     \* who had asked, and what was so at the time

vars == <<estate, changes, index, taken, held, asked>>

Values(record, k) == {record[k][i] : i \in DOMAIN record[k]}

\* IdentityRecord.get(): key_map() keeps the last value of a kind.
get(record, k) == IF record[k] = <<>> THEN Blank ELSE record[k][Len(record[k])]

\* An index is [records, complete, unavailable]: one record of each person it
\* lists, and the kinds for which it cannot answer.
Listed(ix) == DOMAIN ix.records

lookup(ix, key) == {p \in Listed(ix) : get(ix.records[p], key.kind) = key.value}

----------------------------------------------------------------------------
(* resolve(index, query): a query is a list of keys.                       *)

Unanswered(ix, query) == \E i \in DOMAIN query : query[i].kind \in ix.unavailable

\* The intersection: a second key corroborates, it does not widen.
Matching(ix, query) == {p \in Listed(ix) : \A i \in DOMAIN query : p \in lookup(ix, query[i])}

HasStrong(query) == \E i \in DOMAIN query : query[i].kind \in Strong

\* As counted by the code: the keys given, not the different ones.
Corroborated(query) == Len(query) > 1

FaultVerdict(ix, query) ==
  IF Unanswered(ix, query) THEN "INDEX_UNAVAILABLE"
  ELSE IF Matching(ix, query) = {} THEN "NOT_FOUND"
  ELSE IF Cardinality(Matching(ix, query)) > 1 THEN "AMBIGUOUS_SUBJECT"
  ELSE IF HasStrong(query) \/ Corroborated(query) THEN "RESOLVED"
  ELSE "AMBIGUOUS_UNVERIFIED"

Verdict(ix, query) ==
  IF Unanswered(ix, query) THEN "INDEX_UNAVAILABLE"
  ELSE IF Matching(ix, query) = {} THEN "NOT_FOUND"
  ELSE IF Cardinality(Matching(ix, query)) > 1 THEN "AMBIGUOUS_SUBJECT"
  ELSE IF (HasStrong(query) \/ Corroborated(query)) /\ ix.complete THEN "RESOLVED"
  ELSE "AMBIGUOUS_UNVERIFIED"

\* The kinds in which the candidates differ; a blank is not a difference.
Discriminators(records) ==
  {k \in Kind : Cardinality({get(records[p], k) : p \in DOMAIN records} \ {Blank}) > 1}

\* Every key of the person, the earlier values of a kind too.
FaultLinked(record) ==
  {[kind |-> k, value |-> get(record, k)] : k \in {l \in Kind : record[l] # <<>>}}
Linked(record) == UNION {{[kind |-> k, value |-> v] : v \in Values(record, k)} : k \in Kind}

Only(S) == CHOOSE p \in S : TRUE

\* candidates are the persons of records unless the verdict is RESOLVED.
resolve(ix, query) ==
  LET verdict == Verdict(ix, query)
      found == IF verdict = "INDEX_UNAVAILABLE" THEN {} ELSE Matching(ix, query)
      records == [p \in found |-> ix.records[p]]
      subject == IF verdict = "RESOLVED" THEN Only(found) ELSE None
  IN [verdict |-> verdict,
      by      |-> "lookup",
      query   |-> query,
      fields  |-> IF verdict = "RESOLVED" THEN {} ELSE Discriminators(records),
      subject |-> subject,
      linked  |-> IF subject = None THEN {} ELSE Linked(ix.records[subject]),
      records |-> records]

\* Resolution.select(): of the records held since the answer was given.
select(resolution, p) ==
  [verdict |-> "RESOLVED",
   by      |-> "human",
   query   |-> resolution.query,
   fields  |-> {},
   subject |-> p,
   linked  |-> Linked(resolution.records[p]),
   records |-> [q \in {p} |-> resolution.records[p]]]

\* ErasureRequest.from_resolution() refuses what is not resolved, and takes
\* the values to erase by from its caller.
Admitted(resolution, covered) == resolution.verdict = "RESOLVED" /\ covered # {}

\* uncovered_linked_keys(): keys are compared by value alone.
Uncovered(resolution, covered) == {l \in resolution.linked : l.value \notin covered}

----------------------------------------------------------------------------

Init ==
  /\ estate \in Given
  /\ changes = 0
  /\ index = [records |-> << >>, complete |-> FALSE, unavailable |-> {}]
  /\ taken = estate
  /\ held = None
  /\ asked = None

\* Somebody gets one more key, perhaps one that others have as well.
Gain(p, k, v) ==
  /\ changes < MaxChanges
  /\ v \notin Values(estate[p], k)
  /\ changes' = changes + 1
  /\ estate' = [estate EXCEPT ![p][k] = Append(@, v)]
  /\ UNCHANGED <<index, taken, held, asked>>

\* A key that is not unique by construction passes to somebody else.
Reassign(p, q, k) ==
  /\ changes < MaxChanges
  /\ k \notin Strong
  /\ p # q /\ estate[p][k] # <<>>
  /\ get(estate[p], k) \notin Values(estate[q], k)
  /\ changes' = changes + 1
  /\ estate' = [estate EXCEPT ![p][k] = SubSeq(@, 1, Len(@) - 1),
                              ![q][k] = Append(@, get(estate[p], k))]
  /\ UNCHANGED <<index, taken, held, asked>>

\* Whoever builds the index asserts completeness only of a list of everybody.
TakeIndex(listed, complete, unavailable) ==
  /\ complete => listed = Person
  /\ index' = [records |-> [p \in listed |-> estate[p]],
               complete |-> complete, unavailable |-> unavailable]
  /\ taken' = estate
  /\ UNCHANGED <<estate, changes, held, asked>>

\* The asker gives keys of their own, or leaves a field blank.
MayGive(asker) ==
  UNION {[kind : {k}, value : Values(estate[asker], k) \cup {Blank}] : k \in Kind}

Queries(asker) ==
  {<<a>> : a \in MayGive(asker)} \cup {<<a, b>> : a, b \in MayGive(asker)}

\* What the asker gives is what the estate had them filed under, as the latest
\* value of each kind, when the index was taken: no earlier value, no number
\* acquired since, nothing left blank that was filed.
Current(asker, query) ==
  \A i \in DOMAIN query : get(taken[asker], query[i].kind) = query[i].value

Resolve(asker, query) ==
  /\ held' = resolve(index, query)
  /\ asked' = [by |-> asker, current |-> Current(asker, query), complete |-> index.complete]
  /\ UNCHANGED <<estate, changes, index, taken>>

Select(p) ==
  /\ held # None
  /\ p \in DOMAIN held.records
  /\ held' = select(held, p)
  /\ UNCHANGED <<estate, changes, index, taken, asked>>

Next ==
  \/ \E p \in Person, k \in Kind : \E v \in ValueOf[k] : Gain(p, k, v)
  \/ \E p, q \in Person, k \in Kind : Reassign(p, q, k)
  \/ \E listed \in SUBSET Person, complete \in BOOLEAN, unavailable \in Outages :
       TakeIndex(listed, complete, unavailable)
  \/ \E asker \in Person : \E query \in Queries(asker) : Resolve(asker, query)
  \/ \E p \in Person : Select(p)

Spec == Init /\ [][Next]_vars

----------------------------------------------------------------------------

\* "An erasure keyed on [a name] is a coin toss with somebody else's record"
\* (subject_resolution.py:8-10).  An answer nobody was asked to choose is the
\* asker and no one else; and an index that lists everybody, if it answers,
\* has the asker among those it leaves to a human to choose from.
TheRightPerson ==
  held # None /\ held.by = "lookup" /\ asked.current =>
    /\ held.verdict = "RESOLVED" => held.subject = asked.by
    /\ asked.complete /\ held.verdict # "INDEX_UNAVAILABLE" =>
         asked.by \in DOMAIN held.records

\* Fragmentation is never silent (subject_resolution.py:33-40): a request
\* with no uncovered key covers every value the index that was asked knew the
\* person by, earlier ones too, whether it was resolved by lookup or by a
\* human, and whatever has become of the index since.
FragmentsShow ==
  held # None =>
    \A covered \in SUBSET Value :
      Admitted(held, covered) /\ Uncovered(held, covered) = {} =>
        \A k \in Kind : Values(held.records[held.subject], k) \subseteq covered

\* "A NAME NEVER RESOLVES ON ITS OWN" (subject_resolution.py:46).  The code
\* does not keep it: the same name given twice, or a name and a blank field,
\* is two keys.
NeverOnItsOwn ==
  held # None /\ held.verdict = "RESOLVED" /\ held.by = "lookup" =>
    \/ HasStrong(held.query)
    \/ \E i, j \in DOMAIN held.query :
         held.query[i] # held.query[j] /\ Blank \notin {held.query[i].value, held.query[j].value}
=============================================================================
