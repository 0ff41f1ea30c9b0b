----------------------------- MODULE EstateProofs ---------------------------
(* First the vault by itself: its tables agree and legal acts stand, for   *)
(* any values, names, calls, saves and deaths of the process.  Then the    *)
(* estate, which uses its vault only through the vault's operations, so    *)
(* what is proved of the vault holds of it, for any store and applications.*)
EXTENDS Estate, TLAPS

\* The inductive invariant.  That the file has the erasures and corrections of
\* memory unless it is torn is needed where a restart replaces memory by it.
Sound ==
  /\ VaultType
  /\ Agreed(book)
  /\ Agreed(file)
  /\ torn => ~up
  /\ ~torn => file.shredded = book.shredded /\ file.fixed = book.fixed

----------------------------------------------------------------------------

\* Registering keeps the type, agreement, and what was erased or corrected.
LEMMA RegisteredIsSound ==
  ASSUME NEW b \in Book, Agreed(b),
         NEW T \in SUBSET Value, NEW i \in Value, NEW N \in SUBSET Nameable
  PROVE  /\ Registered(b, T, i, N) \in Book
         /\ Agreed(Registered(b, T, i, N))
         /\ Registered(b, T, i, N).shredded = b.shredded
         /\ Registered(b, T, i, N).fixed = b.fixed
<1> DEFINE fresh == T \ b.shredded
           c == Registered(b, T, i, N)
<1>1. /\ c.live = b.live \cup fresh
      /\ c.fixed = b.fixed
      /\ c.owners = [t \in Value |-> IF t \in fresh THEN b.owners[t] \cup {i}
                                     ELSE b.owners[t]]
      /\ c.held = [b.held EXCEPT ![i] = @ \cup fresh]
      /\ c.shredded = b.shredded
  BY DEF Registered, TokensFor, Book
<1>2. c \in Book
  <2> DEFINE tf == TokensFor(b, T, i, N)
  <2>1. tf \in Book
    <3>1. [b.names EXCEPT ![i] = @ \cup N] \in [Value -> SUBSET Nameable]
      BY DEF Book
    <3>2. [b.held EXCEPT ![i] = @ \cup fresh] \in [Value -> SUBSET Value]
      BY DEF Book
    <3>3. [t \in Value |-> IF t \in fresh THEN b.owners[t] \cup {i} ELSE b.owners[t]]
            \in [Value -> SUBSET Value]
      BY DEF Book
    <3> QED
      BY <3>1, <3>2, <3>3 DEF TokensFor, Book
  <2> HIDE DEF tf
  <2>2. [tf EXCEPT !.names[i] = @ \cup N] \in Book
    BY <2>1 DEF Book
  <2> QED
    BY <2>2 DEF tf, Registered
<1>3. \A t, j \in Value : j \in c.owners[t] <=> t \in c.held[j]
  BY <1>1 DEF Agreed, Book
<1>4. \A t \in Value : c.owners[t] # {} => t \in c.live
  BY <1>1 DEF Agreed, Book
<1>5. c.live \cap c.shredded = {} /\ c.fixed \subseteq c.live
  BY <1>1 DEF Agreed, Book
<1> QED
  BY <1>1, <1>2, <1>3, <1>4, <1>5 DEF Agreed

\* Asking adds tokens without owners.
LEMMA AskedIsSound ==
  ASSUME NEW b \in Book, Agreed(b), NEW T \in SUBSET Value
  PROVE  /\ Unowned(b, T) \in Book
         /\ Agreed(Unowned(b, T))
         /\ Unowned(b, T).shredded = b.shredded
         /\ Unowned(b, T).fixed = b.fixed
<1> DEFINE c == Unowned(b, T)
<1>1. /\ c.live = b.live \cup (T \ b.shredded) /\ c.fixed = b.fixed
      /\ c.owners = b.owners /\ c.held = b.held /\ c.shredded = b.shredded
  BY DEF Unowned, Book
<1>2. c \in Book
  BY DEF Unowned, Book
<1> QED
  BY <1>1, <1>2 DEF Agreed

\* Shredding an identity destroys what it alone owns, and erases only that.
LEMMA ShreddedIsSound ==
  ASSUME NEW b \in Book, Agreed(b), NEW i \in Value
  PROVE  /\ Shredded(b, i) \in Book
         /\ Agreed(Shredded(b, i))
         /\ b.shredded \subseteq Shredded(b, i).shredded
         /\ b.fixed \ Shredded(b, i).shredded \subseteq Shredded(b, i).fixed
<1> DEFINE c == Shredded(b, i)
           dead == Destroyed(b, i)
<1>1. /\ c.live = b.live \ dead /\ c.fixed = b.fixed \ dead
      /\ c.shredded = b.shredded \cup dead
      /\ c.owners = [t \in Value |-> IF t \in b.held[i] \cap b.live
                                     THEN b.owners[t] \ {i} ELSE b.owners[t]]
      /\ c.held = [b.held EXCEPT ![i] = {}]
  BY DEF Shredded, Book
<1>2. dead \subseteq b.live /\ dead \subseteq Value
  BY DEF Destroyed, Book
<1>3. c \in Book
  BY <1>2 DEF Shredded, Book
<1>4. \A t \in Value : t \in b.held[i] => t \in b.live
  BY DEF Agreed
<1>5. \A t, j \in Value : j \in c.owners[t] <=> t \in c.held[j]
  BY <1>1, <1>4 DEF Agreed, Book
<1>6. \A t \in Value : c.owners[t] # {} => t \in c.live
  <2> SUFFICES ASSUME NEW t \in Value, c.owners[t] # {}
               PROVE  t \in b.live /\ t \notin dead
    BY <1>1
  <2>1. t \in b.live
    BY <1>1 DEF Agreed
  <2>2. t \notin dead
    BY <1>1 DEF Destroyed
  <2> QED
    BY <2>1, <2>2
<1>7. c.live \cap c.shredded = {} /\ c.fixed \subseteq c.live
  BY <1>1 DEF Agreed
<1>8. /\ b.shredded \subseteq c.shredded
      /\ b.fixed \ c.shredded \subseteq c.fixed
  BY <1>1
<1> QED
  BY <1>3, <1>5, <1>6, <1>7, <1>8 DEF Agreed

\* Correcting a token that exists changes nothing but its mark.
LEMMA RectifiedIsSound ==
  ASSUME NEW b \in Book, Agreed(b), NEW t \in Value
  PROVE  /\ Rectified(b, t) \in Book
         /\ Agreed(Rectified(b, t))
         /\ b.shredded = Rectified(b, t).shredded
         /\ b.fixed \subseteq Rectified(b, t).fixed
<1> DEFINE c == Rectified(b, t)
<1>1. /\ c.live = b.live /\ c.fixed = b.fixed \cup ({t} \cap b.live)
      /\ c.owners = b.owners /\ c.held = b.held /\ c.shredded = b.shredded
  BY DEF Rectified, Book
<1>2. c \in Book
  BY DEF Rectified, Book
<1> QED
  BY <1>1, <1>2 DEF Agreed

\* A step that saves sound tables that keep the legal acts is sound.
LEMMA SavingIsSound ==
  ASSUME Sound, up, NEW b \in Book, Agreed(b), Saving(b)
  PROVE  Sound'
<1>1. CASE file' = b /\ UNCHANGED <<torn, up>>
  BY <1>1 DEF Saving, Sound, VaultType, Agreed
<1>2. CASE torn' = TRUE /\ up' = FALSE /\ UNCHANGED file
  BY <1>2 DEF Saving, Sound, VaultType, Agreed
<1> QED
  BY <1>1, <1>2 DEF Saving

\* A step that saves nothing must leave the legal acts as the file has them.
LEMMA KeepingIsSound ==
  ASSUME Sound, NEW b \in Book, Agreed(b), Keeping(b),
         b.shredded = book.shredded, b.fixed = book.fixed
  PROVE  Sound'
BY DEF Keeping, Sound, VaultType, Agreed

----------------------------------------------------------------------------

\* What a step may do to the legal acts.
ActsStand ==
  /\ book.shredded \subseteq book'.shredded
  /\ book.fixed \ book'.shredded \subseteq book'.fixed

LEMMA StepIsSound ==
  ASSUME Sound, [VaultNext]_vaultVars
  PROVE  Sound' /\ ActsStand
<1> USE DEF ActsStand
<1>0. book \in Book /\ Agreed(book)
  BY DEF Sound, VaultType
<1>1. CASE \E T \in SUBSET Value, i \in Value, N \in SUBSET Nameable : Register(T, i, N)
  <2>1. PICK T \in SUBSET Value, i \in Value, N \in SUBSET Nameable : Register(T, i, N)
    BY <1>1
  <2> DEFINE c == Registered(book, T, i, N)
  <2>2. /\ c \in Book /\ Agreed(c)
        /\ c.shredded = book.shredded /\ c.fixed = book.fixed
    BY <1>0, RegisteredIsSound
  <2>3. Keeping(c) /\ book' = c
    BY <2>1 DEF Register, Keeping
  <2>4. Sound'
    BY <2>2, <2>3, KeepingIsSound
  <2> QED
    BY <2>2, <2>3, <2>4
<1>2. CASE \E T \in SUBSET Value : Ask(T)
  <2>1. PICK T \in SUBSET Value : Ask(T)
    BY <1>2
  <2>2. Keeping(Unowned(book, T)) /\ book' = Unowned(book, T)
    BY <2>1 DEF Ask, Keeping
  <2>3. Sound'
    BY <1>0, <2>2, AskedIsSound, KeepingIsSound
  <2> QED
    BY <1>0, <2>2, <2>3, AskedIsSound
<1>3. CASE \E i \in Value : Shred(i)
  <2>1. PICK i \in Value : Shred(i)
    BY <1>3
  <2>2. up /\ Saving(Shredded(book, i)) /\ book' = Shredded(book, i)
    BY <2>1 DEF Shred, Saving
  <2>3. Sound'
    BY <1>0, <2>2, ShreddedIsSound, SavingIsSound
  <2> QED
    BY <1>0, <2>2, <2>3, ShreddedIsSound
<1>4. CASE \E t \in Value : Rectify(t)
  <2>1. PICK t \in Value : Rectify(t)
    BY <1>4
  <2>2. up /\ Saving(Rectified(book, t)) /\ book' = Rectified(book, t)
    BY <2>1 DEF Rectify, Saving
  <2>3. Sound'
    BY <1>0, <2>2, RectifiedIsSound, SavingIsSound
  <2> QED
    BY <1>0, <2>2, <2>3, RectifiedIsSound
<1>5. CASE Save
  <2>1. up /\ Saving(book) /\ book' = book
    BY <1>5 DEF Save, Saving
  <2>2. Sound'
    BY <1>0, <2>1, SavingIsSound
  <2> QED
    BY <2>1, <2>2
<1>6. CASE Crash
  BY <1>6 DEF Crash, Sound, VaultType, Agreed
<1>7. CASE Restart
  BY <1>7 DEF Restart, Sound, VaultType, Agreed
<1>8. CASE UNCHANGED vaultVars
  BY <1>8 DEF vaultVars, Sound, VaultType, Agreed
<1> QED
  BY <1>1, <1>2, <1>3, <1>4, <1>5, <1>6, <1>7, <1>8 DEF VaultNext

LEMMA EmptyIsSound ==
  ASSUME VaultInit PROVE Sound
<1>1. Empty \in Book /\ Agreed(Empty)
  BY NameableAssumption DEF Empty, Book, Agreed
<1> QED
  BY <1>1 DEF VaultInit, Sound, VaultType

LEMMA VaultIsSound == VaultSpec => []Sound
<1>1. VaultInit => Sound
  BY EmptyIsSound
<1>2. Sound /\ [VaultNext]_vaultVars => Sound'
  BY StepIsSound
<1> QED
  BY <1>1, <1>2, PTL DEF VaultSpec

\* Owners and holders agree in memory and in the file, whatever is registered,
\* erased, corrected, saved or lost (vault.py:33-185).
THEOREM OwnersHold == VaultSpec => [](VaultType /\ ReferencesAgree)
<1>1. Sound => VaultType /\ ReferencesAgree
  BY DEF Sound, ReferencesAgree
<1> QED
  BY <1>1, VaultIsSound, PTL

\* No step, a restart included, undoes an erasure or a correction.
THEOREM ActsAreForGood == VaultSpec => LegalActsStand
<1>1. Sound /\ [VaultNext]_vaultVars => [ActsStand]_vaultVars
  BY StepIsSound
<1> QED
  BY <1>1, VaultIsSound, PTL DEF VaultSpec, LegalActsStand, ActsStand

----------------------------------------------------------------------------
(* The estate.                                                             *)

\* What the estate adds to the vault has its type.
EstateType ==
  /\ record \in [Doc -> Record]
  /\ job \in Job
  /\ budget \in [writes: 0 .. MaxWrites, acts: 0 .. MaxActs, crashes: 0 .. MaxCrash]

Typed == VaultType /\ EstateType

----------------------------------------------------------------------------

LEMMA ScannedIsFound ==
  ASSUME NEW text \in Text
  PROVE  /\ Scanned(text) \subseteq Finding
         /\ Values(Scanned(text)) \subseteq Value
<1>1. Scanned(text) \subseteq Finding
  BY TextAssumption DEF Scanned
<1> QED
  BY <1>1, FindingAssumption DEF Values

LEMMA RawIsText ==
  ASSUME EstateType, NEW d \in Doc, record[d].kind = "raw"
  PROVE  record[d].text \in Text
<1>1. record[d] \in Record
  BY DEF EstateType
<1> QED
  BY <1>1 DEF Record, Masked

LEMMA MaskedByKind ==
  ASSUME EstateType, NEW d \in Doc, record[d].kind = "masked"
  PROVE  record[d] \in Masked
<1>1. record[d] \in Record
  BY DEF EstateType
<1> QED
  BY <1>1 DEF Record, Masked

\* What history does to a masked text leaves it one.
LEMMA HistoryKeepsMasked ==
  ASSUME NEW r \in Masked
  PROVE  /\ Secure(r) \in Masked
         /\ Recall(r) \in Masked
         /\ \A i : Secure(Disclaim(i, r)) \in Masked
BY DEF Secure, Disclaim, Recall, Masked

LEMMA SpendKeepsType ==
  ASSUME EstateType, NEW f \in {"writes", "acts", "crashes"}, Spend(f)
  PROVE  budget' \in [writes: 0 .. MaxWrites, acts: 0 .. MaxActs, crashes: 0 .. MaxCrash]
BY BoundAssumption DEF EstateType, Spend

LEMMA MaskedAsIsMasked ==
  ASSUME VaultType, NEW found \in SUBSET Finding, NEW i \in Value \cup {None}
  PROVE  MaskedAs(found, i) \in Masked
<1>1. Values(found) \subseteq Value
  BY FindingAssumption DEF Values
<1> QED
  BY <1>1 DEF MaskedAs, Masked, Displayed

\* The three ways the history of the masked texts is rewritten.
LEMMA SecuredKeepsType ==
  ASSUME EstateType, OnMasked(Secure)
  PROVE  record' \in [Doc -> Record] /\ job' \in Job
<1>1. \A d \in Doc : record[d].kind = "masked" => Secure(record[d]) \in Record
  BY MaskedByKind, HistoryKeepsMasked DEF Record
<1>2. \A d \in Doc : job.pending[d] # None => Secure(job.pending[d]) \in Masked
  BY HistoryKeepsMasked DEF EstateType, Job
<1>3. record' \in [Doc -> Record]
  BY <1>1 DEF OnMasked, EstateType
<1>4. job' = [job EXCEPT !.pending =
                [d \in Doc |-> IF @[d] # None THEN Secure(@[d]) ELSE None]]
  BY DEF OnMasked
<1>5. [d \in Doc |-> IF job.pending[d] # None THEN Secure(job.pending[d]) ELSE None]
        \in [Doc -> Masked \cup {None}]
  BY <1>2
<1>6. job' \in Job
  BY <1>4, <1>5 DEF EstateType, Job
<1> QED
  BY <1>3, <1>6

LEMMA RecalledKeepsType ==
  ASSUME EstateType, OnMasked(Recall)
  PROVE  record' \in [Doc -> Record] /\ job' \in Job
<1>1. \A d \in Doc : record[d].kind = "masked" => Recall(record[d]) \in Record
  BY MaskedByKind, HistoryKeepsMasked DEF Record
<1>2. \A d \in Doc : job.pending[d] # None => Recall(job.pending[d]) \in Masked
  BY HistoryKeepsMasked DEF EstateType, Job
<1>3. record' \in [Doc -> Record]
  BY <1>1 DEF OnMasked, EstateType
<1>4. job' = [job EXCEPT !.pending =
                [d \in Doc |-> IF @[d] # None THEN Recall(@[d]) ELSE None]]
  BY DEF OnMasked
<1>5. [d \in Doc |-> IF job.pending[d] # None THEN Recall(job.pending[d]) ELSE None]
        \in [Doc -> Masked \cup {None}]
  BY <1>2
<1>6. job' \in Job
  BY <1>4, <1>5 DEF EstateType, Job
<1> QED
  BY <1>3, <1>6

LEMMA DisclaimedKeepsType ==
  ASSUME EstateType, NEW i \in Value,
         OnMasked(LAMBDA r : Secure(Disclaim(i, r)))
  PROVE  record' \in [Doc -> Record] /\ job' \in Job
<1>1. \A d \in Doc : record[d].kind = "masked" => Secure(Disclaim(i, record[d])) \in Record
  BY MaskedByKind, HistoryKeepsMasked DEF Record
<1>2. \A d \in Doc : job.pending[d] # None => Secure(Disclaim(i, job.pending[d])) \in Masked
  BY HistoryKeepsMasked DEF EstateType, Job
<1>3. record' \in [Doc -> Record]
  BY <1>1 DEF OnMasked, EstateType
<1>4. job' = [job EXCEPT !.pending =
                [d \in Doc |-> IF @[d] # None THEN Secure(Disclaim(i, @[d])) ELSE None]]
  BY DEF OnMasked
<1>5. [d \in Doc |-> IF job.pending[d] # None THEN Secure(Disclaim(i, job.pending[d])) ELSE None]
        \in [Doc -> Masked \cup {None}]
  BY <1>2
<1>6. job' \in Job
  BY <1>4, <1>5 DEF EstateType, Job
<1> QED
  BY <1>3, <1>6

----------------------------------------------------------------------------

\* Each step of the estate is a step of its vault, or leaves it alone.
LEMMA StepOfVault ==
  ASSUME Typed, [Next]_vars
  PROVE  [VaultNext]_vaultVars
<1>1. CASE \E i \in Value : Erase(i)
  BY <1>1 DEF Erase, VaultNext
<1>2. CASE \E t \in Value : Correct(t)
  BY <1>2 DEF Correct, VaultNext
<1>3. CASE \E text \in Text : Query(text)
  <2>1. PICK text \in Text : Ask(Values(Scanned(text)))
    BY <1>3 DEF Query
  <2> QED
    BY <2>1, ScannedIsFound DEF VaultNext
<1>4. CASE Persist \/ Die \/ Recover
  BY <1>4 DEF Persist, Die, Recover, VaultNext
<1>5. CASE \E d \in Doc : Write(d) \/ Remove(d)
  BY <1>5 DEF Write, Remove, Touch
<1>6. CASE \E missed \in SUBSET Doc : Scan(missed)
  BY <1>6 DEF Scan
<1>7. CASE \E d \in Doc : Fetch(d)
  <2>1. PICK d \in Doc : Fetch(d)
    BY <1>7
  <2>2. CASE UNCHANGED vaultVars
    BY <2>2
  <2>3. CASE record[d].kind = "raw" /\ FetchRaw(d, Scanned(record[d].text))
    <3> DEFINE found == Scanned(record[d].text)
    <3>1. /\ found \subseteq Finding /\ Values(found) \subseteq Value
          /\ Displayed(found) \subseteq Nameable
      BY <2>3, RawIsText, ScannedIsFound DEF Typed, Displayed
    <3>2. CASE UNCHANGED vaultVars
      BY <3>2
    <3>3. CASE \E c \in found : Register(Values(found), c.value, Displayed(found))
      <4>1. PICK c \in found : Register(Values(found), c.value, Displayed(found))
        BY <3>3
      <4>2. c.value \in Value
        BY <3>1, FindingAssumption
      <4> QED
        BY <4>1, <4>2, <3>1 DEF VaultNext
    <3> QED
      BY <2>3, <3>2, <3>3 DEF FetchRaw
  <2> QED
    BY <2>1, <2>2, <2>3 DEF Fetch, FetchBare, FetchAbsent, FetchUnread
<1>8. CASE Flush \/ Finish \/ Fail
  BY <1>8 DEF Flush, Finish, Fail
<1>9. CASE UNCHANGED vars
  BY <1>9 DEF vars
<1> QED
  BY <1>1, <1>2, <1>3, <1>4, <1>5, <1>6, <1>7, <1>8, <1>9 DEF Next

----------------------------------------------------------------------------

LEMMA IdleHasType == Idle \in Job
BY DEF Idle, Job

\* Each step keeps the type of the store and of the cleaning.
LEMMA StepKeepsEstateType ==
  ASSUME Typed, [Next]_vars
  PROVE  EstateType'
<1> USE DEF Typed
<1>0. record \in [Doc -> Record] /\ job \in Job
  BY DEF EstateType
<1>1. CASE \E i \in Value : Erase(i)
  BY <1>1, DisclaimedKeepsType, SpendKeepsType DEF Erase, EstateType
<1>2. CASE \E t \in Value : Correct(t)
  BY <1>2, SecuredKeepsType, SpendKeepsType DEF Correct, EstateType
<1>3. CASE \E text \in Text : Query(text)
  BY <1>3, <1>0, SpendKeepsType DEF Query, EstateType
<1>4. CASE Persist
  BY <1>4, SecuredKeepsType DEF Persist, EstateType
<1>5. CASE Die
  BY <1>5, <1>0, IdleHasType, SpendKeepsType DEF Die, EstateType
<1>6. CASE Recover
  BY <1>6, RecalledKeepsType DEF Recover, EstateType
<1>7. CASE \E d \in Doc : Write(d) \/ Remove(d)
  <2>1. PICK d \in Doc : Write(d) \/ Remove(d)
    BY <1>7
  <2>2. PICK r \in Record : Touch(d, r)
    BY <2>1 DEF Write, Remove, Record, Absent
  <2>3. record' \in [Doc -> Record] /\ job' \in Job
    BY <1>0, <2>2 DEF Touch, Job
  <2> QED
    BY <2>2, <2>3, SpendKeepsType DEF Touch, EstateType
<1>8. CASE \E missed \in SUBSET Doc : Scan(missed)
  <2>1. PICK missed \in SUBSET Doc : Scan(missed)
    BY <1>8
  <2>2. job' \in Job
    BY <2>1, IdleHasType DEF Scan, Job, Given
  <2> QED
    BY <2>1, <2>2 DEF Scan, EstateType
<1>9. CASE \E d \in Doc : Fetch(d)
  <2>1. PICK d \in Doc : Fetch(d)
    BY <1>9
  <2>2. CASE \E m \in Masked : Await(d, m)
    <3>1. PICK m \in Masked : Await(d, m)
      BY <2>2
    <3>2. [job.pending EXCEPT ![d] = m] \in [Doc -> Masked \cup {None}]
      BY <1>0 DEF Job
    <3>3. /\ job.todo \ {d} \in SUBSET Doc
          /\ job.reembedded \cup {d} \in SUBSET Doc
      BY <1>0 DEF Job
    <3>4. job' \in Job
      <4> HIDE DEF Masked
      <4> QED
        BY <1>0, <3>1, <3>2, <3>3 DEF Await, Job
    <3> QED
      BY <2>1, <3>4 DEF Fetch, EstateType
  <2>3. CASE record[d].kind = "raw" /\ FetchRaw(d, Scanned(record[d].text))
    <3> DEFINE found == Scanned(record[d].text)
    <3>1. found \in SUBSET Finding /\ {} \in SUBSET Finding
      BY <2>3, RawIsText, ScannedIsFound
    <3>2. \A c \in found : MaskedAs(found, c.value) \in Masked
      BY <3>1, FindingAssumption, MaskedAsIsMasked
    <3>3. MaskedAs({}, None) \in Masked
      BY <3>1, MaskedAsIsMasked
    <3> QED
      BY <2>2, <2>3, <3>2, <3>3 DEF FetchRaw
  <2>4. CASE FetchBare(d) \/ FetchAbsent(d) \/ FetchUnread(d)
    <3>1. /\ job.todo \ {d} \in SUBSET Doc
          /\ job.drop \cup {d} \in SUBSET Doc
          /\ job.missed \cup {d} \in SUBSET Doc
      BY <1>0 DEF Job
    <3>2. FetchBare(d) => job' \in Job
      BY <1>0, <3>1 DEF FetchBare, Job
    <3>3. FetchAbsent(d) => job' \in Job
      BY <1>0, <3>1 DEF FetchAbsent, Job
    <3>4. FetchUnread(d) => job' \in Job
      BY <1>0, <3>1 DEF FetchUnread, Job
    <3>5. job' \in Job
      BY <2>4, <3>2, <3>3, <3>4
    <3> QED
      BY <2>1, <3>5 DEF Fetch, EstateType
  <2> QED
    BY <2>1, <2>3, <2>4 DEF Fetch
<1>10. CASE Flush
  <2>1. Flushed \in [Doc -> Record]
    BY <1>0 DEF Flushed, Pending, Job, Record
  <2>2. job' \in Job
    BY <1>0, <1>10 DEF Flush, Job
  <2> QED
    BY <1>10, <2>1, <2>2 DEF Flush, EstateType
<1>11. CASE Finish
  <2>1. record' \in [Doc -> Record]
    BY <1>0, <1>11 DEF Finish, Record, Absent
  <2>2. job' \in Job
    BY <1>0, <1>11 DEF Finish, Job
  <2> QED
    BY <1>11, <2>1, <2>2 DEF Finish, EstateType
<1>12. CASE Fail
  BY <1>12, <1>0, IdleHasType DEF Fail, EstateType
<1>13. CASE UNCHANGED vars
  BY <1>13 DEF vars, EstateType
<1> QED
  BY <1>1, <1>2, <1>3, <1>4, <1>5, <1>6, <1>7, <1>8, <1>9, <1>10, <1>11, <1>12,
     <1>13 DEF Next

LEMMA EstateStarts ==
  ASSUME Init PROVE Sound /\ EstateType
<1>1. Sound
  BY EmptyIsSound DEF Init
<1>2. EstateType
  BY IdleHasType, BoundAssumption DEF Init, EstateType, Record
<1> QED
  BY <1>1, <1>2

LEMMA EstateIsSound == Spec => [](Sound /\ EstateType)
<1>1. Init => Sound /\ EstateType
  BY EstateStarts
<1>2. Sound /\ EstateType /\ [Next]_vars => (Sound /\ EstateType)'
  BY StepOfVault, StepIsSound, StepKeepsEstateType DEF Sound, Typed
<1> QED
  BY <1>1, <1>2, PTL DEF Spec

\* The type invariant of the estate.
THEOREM EstateTypeCorrect == Spec => []TypeOK
<1>1. Sound /\ EstateType => TypeOK
  BY DEF Sound, EstateType, TypeOK
<1> QED
  BY <1>1, EstateIsSound, PTL

\* The estate implements the vault: scanning, masking, querying and erasing
\* act on its tables only as the vault's own operations do.
THEOREM EstateUsesTheVault == Spec => VaultSpec
<1>1. Init => VaultInit
  BY DEF Init
<1>2. Sound /\ EstateType /\ [Next]_vars => [VaultNext]_vaultVars
  BY StepOfVault DEF Sound, Typed
<1> QED
  BY <1>1, <1>2, EstateIsSound, PTL DEF Spec, VaultSpec

----------------------------------------------------------------------------
(* Erasing one person leaves the others readable.                          *)

\* Tables that account for a masked text whose person was not erased: they own
\* its tokens and are found by its names.
Backed(b, r) ==
  r.claim \in Value =>
    /\ \A t \in r.toks \ r.burnt : r.claim \in b.owners[t]
    /\ r.named \subseteq b.names[r.claim]

\* Memory accounts for every such text, and the file for those saved: without
\* the second part a restart would break the first.
Known(r) == Backed(book, r) /\ (r.safe /\ ~torn => Backed(file, r))

AllKnown == \A r \in Governed : Known(r)

LEMMA GovernedIsMasked ==
  ASSUME EstateType PROVE Governed \subseteq Masked
<1>1. \A d \in Pending : job.pending[d] \in Masked
  BY DEF EstateType, Job, Pending
<1> QED
  BY <1>1, MaskedByKind DEF Governed

LEMMA SecuredAreGoverned ==
  ASSUME EstateType, OnMasked(Secure)
  PROVE  \A s \in Governed' : \E r \in Governed : s = Secure(r)
<1>1. SUFFICES ASSUME NEW s \in Governed' PROVE \E r \in Governed : s = Secure(r)
  OBVIOUS
<1>2. CASE \E d \in Doc : record'[d].kind = "masked" /\ s = record'[d]
  BY <1>2 DEF OnMasked, Governed
<1>3. CASE \E d \in Doc : job'.pending[d] # None /\ s = job'.pending[d]
  BY <1>3 DEF OnMasked, Governed, Pending, EstateType, Job
<1> QED
  BY <1>1, <1>2, <1>3 DEF Governed, Pending

LEMMA RecalledAreGoverned ==
  ASSUME EstateType, OnMasked(Recall)
  PROVE  \A s \in Governed' : \E r \in Governed : s = Recall(r)
<1>1. SUFFICES ASSUME NEW s \in Governed' PROVE \E r \in Governed : s = Recall(r)
  OBVIOUS
<1>2. CASE \E d \in Doc : record'[d].kind = "masked" /\ s = record'[d]
  BY <1>2 DEF OnMasked, Governed
<1>3. CASE \E d \in Doc : job'.pending[d] # None /\ s = job'.pending[d]
  BY <1>3 DEF OnMasked, Governed, Pending, EstateType, Job
<1> QED
  BY <1>1, <1>2, <1>3 DEF Governed, Pending

LEMMA DisclaimedAreGoverned ==
  ASSUME EstateType, NEW i \in Value,
         OnMasked(LAMBDA r : Secure(Disclaim(i, r)))
  PROVE  \A s \in Governed' : \E r \in Governed : s = Secure(Disclaim(i, r))
<1>1. SUFFICES ASSUME NEW s \in Governed' PROVE \E r \in Governed : s = Secure(Disclaim(i, r))
  OBVIOUS
<1>2. CASE \E d \in Doc : record'[d].kind = "masked" /\ s = record'[d]
  BY <1>2 DEF OnMasked, Governed
<1>3. CASE \E d \in Doc : job'.pending[d] # None /\ s = job'.pending[d]
  BY <1>3 DEF OnMasked, Governed, Pending, EstateType, Job
<1> QED
  BY <1>1, <1>2, <1>3 DEF Governed, Pending

\* Tables that only gain owners and names account for what they did before.
LEMMA GrowthKeepsKnown ==
  ASSUME NEW r \in Masked, Known(r), UNCHANGED <<file, torn>>,
         \A t \in Value : book.owners[t] \subseteq book'.owners[t],
         \A i \in Value : book.names[i] \subseteq book'.names[i]
  PROVE  Known(r)'
BY DEF Known, Backed, Masked

LEMMA RegisterGrows ==
  ASSUME Sound, NEW T \in SUBSET Value, NEW i \in Value, NEW N \in SUBSET Nameable,
         Register(T, i, N)
  PROVE  /\ \A t \in Value : book.owners[t] \subseteq book'.owners[t]
         /\ \A j \in Value : book.names[j] \subseteq book'.names[j]
         /\ \A t \in T \ book.shredded : i \in book'.owners[t]
         /\ N \subseteq book'.names[i]
         /\ UNCHANGED <<file, torn>>
<1> DEFINE tf == TokensFor(book, T, i, N)
<1>1. /\ tf.owners = [t \in Value |-> IF t \in T \ book.shredded
                                     THEN book.owners[t] \cup {i} ELSE book.owners[t]]
      /\ tf.names \in [Value -> SUBSET Nameable]
      /\ \A j \in Value : book.names[j] \subseteq tf.names[j]
  BY DEF TokensFor, Sound, VaultType, Book
<1>2. book' = [tf EXCEPT !.names[i] = @ \cup N] /\ UNCHANGED <<file, torn>>
  BY DEF Register, Keeping, Registered
<1>3. DOMAIN tf = {"live", "fixed", "owners", "held", "names", "shredded"}
  BY DEF TokensFor
<1> HIDE DEF tf
<1>4. book'.owners = tf.owners /\ book'.names = [tf.names EXCEPT ![i] = @ \cup N]
  BY <1>2, <1>3
<1> QED
  BY <1>1, <1>2, <1>4

\* What an erasure and a save do to a text and to the tables that know it.
LEMMA ErasedAreKnown ==
  ASSUME Sound, NEW i \in Value, Shred(i), NEW r \in Masked, Known(r)
  PROVE  Known(Secure(Disclaim(i, r)))'
<1> DEFINE s == Secure(Disclaim(i, r))
<1>1. /\ s.claim = IF r.claim = i THEN Gone ELSE r.claim
      /\ s.toks = r.toks /\ s.burnt = r.burnt /\ s.named = r.named
  BY DEF Secure, Disclaim, Masked
<1>2. book' = Shredded(book, i) /\ (file' = book' \/ torn')
  BY DEF Shred, Saving
<1>3. /\ \A t \in Value : book.owners[t] \ {i} \subseteq book'.owners[t]
      /\ \A j \in Value \ {i} : book'.names[j] = book.names[j]
  BY <1>2 DEF Shredded, Sound, VaultType, Book
<1>4. Backed(book', s)
  BY <1>1, <1>3, NoneAssumption DEF Backed, Known, Masked
<1> HIDE DEF s
<1>5. Known(s)'
  BY <1>2, <1>4 DEF Known, Backed
<1> QED
  BY <1>5 DEF s

LEMMA SavedAreKnown ==
  ASSUME NEW r \in Masked, Known(r), file' = book' \/ torn',
         book'.owners = book.owners, book'.names = book.names
  PROVE  Known(Secure(r))'
<1>1. /\ Secure(r).claim = r.claim /\ Secure(r).toks = r.toks
      /\ Secure(r).burnt = r.burnt /\ Secure(r).named = r.named
  BY DEF Secure, Masked
<1> QED
  BY <1>1 DEF Known, Backed

LEMMA RecalledAreKnown ==
  ASSUME NEW r \in Masked, Known(r), Restart
  PROVE  Known(Recall(r))'
<1>1. /\ Recall(r).toks = r.toks /\ Recall(r).burnt = r.burnt
      /\ Recall(r).named = r.named
      /\ r.safe => Recall(r).claim = r.claim
      /\ ~r.safe => Recall(r).claim \notin Value
  BY NoneAssumption DEF Recall, Masked
<1>2. ~torn /\ book' = file /\ file' = file
  BY DEF Restart
<1> QED
  BY <1>1, <1>2 DEF Known, Backed

\* One masked text more: its tokens that were not erased have just been
\* registered for its person.
LEMMA AwaitedAreKnown ==
  ASSUME Sound, EstateType, AllKnown, NEW d \in Doc, NEW m \in Masked,
         Await(d, m), record' = record, Known(m)', ~m.safe \/ m.claim \notin Value,
         \A r \in Governed : Known(r)'
  PROVE  AllKnown'
<1>1. \A s \in Governed' : s \in Governed \/ s = m
  <2>1. job'.pending = [job.pending EXCEPT ![d] = m]
    BY DEF Await, EstateType, Job
  <2> QED
    BY <2>1 DEF Governed, Pending, EstateType, Job
<1> QED
  BY <1>1 DEF AllKnown

LEMMA StepKeepsKnown ==
  ASSUME Sound, EstateType, AllKnown, [Next]_vars
  PROVE  AllKnown'
<1>0. /\ Governed \subseteq Masked
      /\ \A r \in Governed : Known(r)
  BY GovernedIsMasked DEF AllKnown
<1>a. ASSUME UNCHANGED <<record, job, file, torn>>,
             \A t \in Value : book.owners[t] \subseteq book'.owners[t],
             \A i \in Value : book.names[i] \subseteq book'.names[i]
      PROVE  AllKnown'
  BY <1>0, <1>a, GrowthKeepsKnown DEF AllKnown, Governed, Pending
<1>b. ASSUME UNCHANGED <<book, file, torn>>, Governed' \subseteq Governed
      PROVE  AllKnown'
  BY <1>0, <1>b DEF AllKnown, Known, Backed
<1>1. CASE \E i \in Value : Erase(i)
  <2>1. PICK i \in Value : Erase(i)
    BY <1>1
  <2>2. Shred(i) /\ OnMasked(LAMBDA r : Secure(Disclaim(i, r)))
    BY <2>1 DEF Erase
  <2> QED
    BY <1>0, <2>2, DisclaimedAreGoverned, ErasedAreKnown DEF AllKnown
<1>2. CASE \E t \in Value : Correct(t)
  <2>1. PICK t \in Value : Rectify(t) /\ OnMasked(Secure)
    BY <1>2 DEF Correct
  <2>2. book' = Rectified(book, t) /\ (file' = book' \/ torn')
    BY <2>1 DEF Rectify, Saving
  <2>3. book'.owners = book.owners /\ book'.names = book.names
    BY <2>2 DEF Rectified, Sound, VaultType, Book
  <2> QED
    BY <1>0, <2>1, <2>2, <2>3, SecuredAreGoverned, SavedAreKnown DEF AllKnown
<1>3. CASE \E text \in Text : Query(text)
  <2>1. PICK text \in Text : Ask(Values(Scanned(text))) /\ UNCHANGED <<record, job>>
    BY <1>3 DEF Query
  <2>2. book'.owners = book.owners /\ book'.names = book.names
    BY <2>1 DEF Ask, Keeping, Unowned, Sound, VaultType, Book
  <2> QED
    BY <1>a, <2>1, <2>2 DEF Ask, Keeping
<1>4. CASE Persist
  <2>1. book' = book /\ (file' = book' \/ torn') /\ OnMasked(Secure)
    BY <1>4 DEF Persist, Save, Saving
  <2> QED
    BY <1>0, <2>1, SecuredAreGoverned, SavedAreKnown DEF AllKnown
<1>5. CASE Die
  <2>1. Governed' \subseteq Governed
    BY <1>5 DEF Die, Idle, Governed, Pending
  <2> QED
    BY <1>5, <1>b, <2>1 DEF Die, Crash
<1>6. CASE Recover
  <2>1. Restart /\ OnMasked(Recall)
    BY <1>6 DEF Recover
  <2> QED
    BY <1>0, <2>1, RecalledAreGoverned, RecalledAreKnown DEF AllKnown
<1>7. CASE \E d \in Doc : Write(d) \/ Remove(d)
  <2>1. PICK d \in Doc : Write(d) \/ Remove(d)
    BY <1>7
  <2>2. PICK r : Touch(d, r) /\ r.kind # "masked"
    <3>1. CASE \E text \in Text : Touch(d, [kind |-> "raw", text |-> text])
      BY <3>1
    <3>2. CASE Touch(d, [kind |-> "bare"]) \/ Touch(d, Absent)
      BY <3>2 DEF Absent
    <3> QED
      BY <2>1, <3>1, <3>2 DEF Write, Remove
  <2>3. job'.pending = job.pending
    BY <2>2 DEF Touch, EstateType, Job
  <2>4. Governed' \subseteq Governed
    BY <2>2, <2>3 DEF Touch, Governed, Pending, EstateType
  <2> QED
    BY <1>b, <2>2, <2>4 DEF Touch, vaultVars
<1>8. CASE \E missed \in SUBSET Doc : Scan(missed)
  <2>1. \A d \in Doc : job'.pending[d] = None
    BY <1>8 DEF Scan, Idle
  <2>2. Governed' \subseteq Governed
    BY <1>8, <2>1 DEF Scan, Governed, Pending
  <2> QED
    BY <1>8, <1>b, <2>2 DEF Scan, vaultVars
<1>9. CASE \E d \in Doc : Fetch(d)
  <2>1. PICK d \in Doc : Fetch(d)
    BY <1>9
  <2>2. CASE FetchBare(d) \/ FetchAbsent(d) \/ FetchUnread(d)
    <3>1. job'.pending = job.pending
      BY <2>2 DEF FetchBare, FetchAbsent, FetchUnread, EstateType, Job
    <3>2. Governed' \subseteq Governed
      BY <2>1, <3>1 DEF Fetch, Governed, Pending
    <3> QED
      BY <1>b, <2>2, <3>2 DEF FetchBare, FetchAbsent, FetchUnread, vaultVars
  <2>3. CASE record[d].kind = "raw" /\ FetchRaw(d, Scanned(record[d].text))
    <3> DEFINE found == Scanned(record[d].text)
    <3>1. /\ found \in SUBSET Finding /\ Values(found) \in SUBSET Value
          /\ Displayed(found) \in SUBSET Nameable
      BY <2>3, RawIsText, ScannedIsFound DEF Displayed
    <3>2. record' = record
      BY <2>1 DEF Fetch
    <3>3. CASE \E c \in found :
                 /\ Register(Values(found), c.value, Displayed(found))
                 /\ Await(d, MaskedAs(found, c.value))
      <4>1. PICK c \in found :
                 /\ Register(Values(found), c.value, Displayed(found))
                 /\ Await(d, MaskedAs(found, c.value))
        BY <3>3
      <4>2. c.value \in Value
        BY <3>1, FindingAssumption
      <4>3. PICK m \in Masked : m = MaskedAs(found, c.value)
        BY <3>1, <4>2, MaskedAsIsMasked DEF Sound
      <4>4. /\ m.toks = Values(found) /\ m.named = Displayed(found)
            /\ m.claim = c.value /\ m.safe = FALSE
            /\ m.burnt = Values(found) \cap book.shredded
        BY <4>3 DEF MaskedAs
      <4> HIDE DEF found
      <4>5. /\ \A t \in Value : book.owners[t] \subseteq book'.owners[t]
            /\ \A j \in Value : book.names[j] \subseteq book'.names[j]
            /\ \A t \in Values(found) \ book.shredded : c.value \in book'.owners[t]
            /\ Displayed(found) \subseteq book'.names[c.value]
            /\ UNCHANGED <<file, torn>>
        BY <3>1, <4>1, <4>2, RegisterGrows
      <4>6. Known(m)'
        BY <4>4, <4>5 DEF Known, Backed
      <4>7. \A r \in Governed : Known(r)'
        BY <1>0, <4>5, GrowthKeepsKnown
      <4> QED
        BY <3>2, <4>1, <4>3, <4>4, <4>6, <4>7, AwaitedAreKnown
    <3>4. CASE found = {} /\ Await(d, MaskedAs({}, None)) /\ UNCHANGED vaultVars
      <4>1. PICK m \in Masked : m = MaskedAs({}, None)
        BY MaskedAsIsMasked DEF Sound
      <4>2. m.claim = None
        BY <4>1 DEF MaskedAs
      <4>3. Known(m)'
        BY <4>2, NoneAssumption DEF Known, Backed
      <4>4. \A r \in Governed : Known(r)'
        BY <1>0, <3>4 DEF Known, Backed, vaultVars
      <4> QED
        BY <3>2, <3>4, <4>1, <4>2, <4>3, <4>4, NoneAssumption, AwaitedAreKnown
    <3> QED
      BY <2>3, <3>3, <3>4 DEF FetchRaw
  <2> QED
    BY <2>1, <2>2, <2>3 DEF Fetch
<1>10. CASE Flush
  <2>1. Governed' \subseteq Governed
    BY <1>10 DEF Flush, Flushed, Governed, Pending, EstateType, Job
  <2> QED
    BY <1>10, <1>b, <2>1 DEF Flush, vaultVars
<1>11. CASE Finish
  <2>1. Governed' \subseteq Governed
    BY <1>11 DEF Finish, Absent, Governed, Pending, EstateType, Job
  <2> QED
    BY <1>11, <1>b, <2>1 DEF Finish, vaultVars
<1>12. CASE Fail
  <2>1. Governed' \subseteq Governed
    BY <1>12 DEF Fail, Idle, Governed, Pending
  <2> QED
    BY <1>12, <1>b, <2>1 DEF Fail, vaultVars
<1>13. CASE UNCHANGED vars
  BY <1>13, <1>b DEF vars, vaultVars, Governed, Pending
<1> QED
  BY <1>1, <1>2, <1>3, <1>4, <1>5, <1>6, <1>7, <1>8, <1>9, <1>10, <1>11, <1>12,
     <1>13 DEF Next

LEMMA EstateIsKnown == Spec => [](Sound /\ EstateType /\ AllKnown)
<1>1. Init => Sound /\ EstateType /\ AllKnown
  <2>1. Init => Governed = {}
    BY DEF Init, Governed, Pending, Idle
  <2> QED
    BY <2>1, EstateStarts DEF AllKnown
<1>2. Sound /\ EstateType /\ AllKnown /\ [Next]_vars
        => (Sound /\ EstateType /\ AllKnown)'
  BY StepOfVault, StepIsSound, StepKeepsEstateType, StepKeepsKnown DEF Sound, Typed
<1> QED
  BY <1>1, <1>2, PTL DEF Spec

\* Whoever is erased, whatever is queried, corrected, rescanned or lost to a
\* restart, a masked text whose person was not erased reads back in full.
THEOREM ErasingSparesOthers == Spec => []OthersStayReadable
<1>1. Sound /\ EstateType /\ AllKnown => OthersStayReadable
  <2> SUFFICES ASSUME Sound, EstateType, AllKnown, NEW r \in Governed,
                      r.claim \in Value, NEW t \in r.toks \ r.burnt
               PROVE  Shown(r)[t] = "value"
    BY DEF OthersStayReadable
  <2>1. r \in Masked /\ r.claim \in book.owners[t] /\ t \in Value
    BY GovernedIsMasked DEF AllKnown, Known, Backed, Masked
  <2>2. t \in book.live /\ t \notin book.shredded
    BY <2>1 DEF Sound, Agreed
  <2> QED
    BY <2>2 DEF Shown, Rehydrate
<1> QED
  BY <1>1, EstateIsKnown, PTL

\* And its person is found by every name the text is filed under: migrator.py:70-90.
THEOREM NamesReachTheirTexts == Spec => []FiledNamesFind
<1>1. Sound /\ EstateType /\ AllKnown => FiledNamesFind
  BY DEF FiledNamesFind, AllKnown, Known, Backed, ResolveByName
<1> QED
  BY <1>1, EstateIsKnown, PTL
----------------------------------------------------------------------------
(* Erasing a person reaches their texts.                                   *)

\* A token that is erased, or that somebody owns: none that a person's erasure
\* left readable with nobody to answer for it.
Settled(b, t) == t \in b.shredded \/ b.owners[t] # {}

\* The file too, since a restart may bring it back.
Accounted(t) == Settled(book, t) /\ (~torn => Settled(file, t))

\* An erased text's tokens are all accounted for, and what was erased when a
\* text was masked is erased still.
Traced(r) ==
  /\ r.burnt \subseteq book.shredded
  /\ r.claim = Gone => \A t \in r.toks : Accounted(t)

AllTraced == \A r \in Governed : Traced(r)

\* An erasure leaves a token with an owner, or destroys it.
LEMMA ShreddedIsSettled ==
  ASSUME NEW b \in Book, NEW i \in Value, NEW t \in Value, Settled(b, t)
  PROVE  Settled(Shredded(b, i), t)
<1> DEFINE c == Shredded(b, i)
<1>1. /\ c.shredded = b.shredded \cup Destroyed(b, i)
      /\ c.owners[t] = IF t \in b.held[i] \cap b.live
                       THEN b.owners[t] \ {i} ELSE b.owners[t]
  BY DEF Shredded, Book
<1> QED
  BY <1>1 DEF Settled, Destroyed

LEMMA StepKeepsAccounted ==
  ASSUME Sound, [VaultNext]_vaultVars, NEW t \in Value, Accounted(t)
  PROVE  Accounted(t)'
<1>0. book \in Book /\ Settled(book, t)
  BY DEF Sound, VaultType, Accounted
<1>1. ASSUME NEW b, Saving(b), Settled(b, t)
      PROVE  Accounted(t)'
  BY <1>1 DEF Saving, Accounted, Settled
<1>2. ASSUME NEW b, Keeping(b), Settled(b, t)
      PROVE  Accounted(t)'
  BY <1>2 DEF Keeping, Accounted, Settled
<1>3. CASE \E T \in SUBSET Value, i \in Value, N \in SUBSET Nameable : Register(T, i, N)
  <2>1. PICK T \in SUBSET Value, i \in Value, N \in SUBSET Nameable : Register(T, i, N)
    BY <1>3
  <2> DEFINE c == Registered(book, T, i, N)
  <2>2. /\ c.shredded = book.shredded
        /\ c.owners = [u \in Value |-> IF u \in T \ book.shredded
                                       THEN book.owners[u] \cup {i} ELSE book.owners[u]]
    BY <1>0 DEF Registered, TokensFor, Book
  <2>3. Settled(c, t)
    BY <1>0, <2>2 DEF Settled
  <2> QED
    BY <1>2, <2>1, <2>3 DEF Register
<1>4. CASE \E T \in SUBSET Value : Ask(T)
  <2>1. PICK T \in SUBSET Value : Ask(T)
    BY <1>4
  <2>2. Settled(Unowned(book, T), t)
    BY <1>0 DEF Settled, Unowned, Book
  <2> QED
    BY <1>2, <2>1, <2>2 DEF Ask
<1>5. CASE \E i \in Value : Shred(i)
  BY <1>0, <1>1, <1>5, ShreddedIsSettled DEF Shred
<1>6. CASE \E u \in Value : Rectify(u)
  <2>1. PICK u \in Value : Rectify(u)
    BY <1>6
  <2>2. Settled(Rectified(book, u), t)
    BY <1>0 DEF Settled, Rectified, Book
  <2> QED
    BY <1>1, <2>1, <2>2 DEF Rectify
<1>7. CASE Save
  BY <1>0, <1>1, <1>7 DEF Save
<1>8. CASE Crash \/ Restart \/ UNCHANGED vaultVars
  BY <1>8 DEF Crash, Restart, vaultVars, Accounted, Settled
<1> QED
  BY <1>3, <1>4, <1>5, <1>6, <1>7, <1>8 DEF VaultNext

\* A masked text after a step is one from before it, under the same claim
\* unless its person was just erased or a restart forgot it, or a new one.
Descends(s, r) ==
  /\ s.toks = r.toks /\ s.burnt = r.burnt
  /\ s.claim = Gone => r.claim = Gone \/ (r.claim \in Value /\ Shred(r.claim))

Fresh(s) == s.burnt \subseteq book.shredded /\ (s.claim = Gone => s.toks = {})

LEMMA Descent ==
  ASSUME Sound, EstateType, [Next]_vars, NEW s \in Governed'
  PROVE  Fresh(s) \/ \E r \in Governed : Descends(s, r)
<1>0. Governed \subseteq Masked
  BY GovernedIsMasked
<1>a. ASSUME Governed' \subseteq Governed
      PROVE  \E r \in Governed : Descends(s, r)
  BY <1>a DEF Descends
<1>b. ASSUME OnMasked(Secure)
      PROVE  \E r \in Governed : Descends(s, r)
  <2>1. PICK r \in Governed : s = Secure(r)
    BY <1>b, SecuredAreGoverned
  <2>2. s.toks = r.toks /\ s.burnt = r.burnt /\ s.claim = r.claim
    BY <1>0, <2>1 DEF Secure, Masked
  <2> QED
    BY <2>2 DEF Descends
<1>1. CASE \E i \in Value : Erase(i)
  <2>1. PICK i \in Value : Shred(i) /\ OnMasked(LAMBDA r : Secure(Disclaim(i, r)))
    BY <1>1 DEF Erase
  <2>2. PICK r \in Governed : s = Secure(Disclaim(i, r))
    BY <2>1, DisclaimedAreGoverned
  <2>3. /\ s.toks = r.toks /\ s.burnt = r.burnt
        /\ s.claim = IF r.claim = i THEN Gone ELSE r.claim
    BY <1>0, <2>2 DEF Secure, Disclaim, Masked
  <2> QED
    BY <2>1, <2>3 DEF Descends
<1>2. CASE (\E t \in Value : Correct(t)) \/ Persist
  BY <1>2, <1>b DEF Correct, Persist
<1>3. CASE \E text \in Text : Query(text)
  BY <1>3, <1>a DEF Query, Governed, Pending
<1>5. CASE Die
  BY <1>5, <1>a DEF Die, Idle, Governed, Pending
<1>6. CASE Recover
  <2>1. OnMasked(Recall)
    BY <1>6 DEF Recover
  <2>2. PICK r \in Governed : s = Recall(r)
    BY <2>1, RecalledAreGoverned
  <2>3. /\ s.toks = r.toks /\ s.burnt = r.burnt
        /\ s.claim = r.claim \/ s.claim = None
    BY <1>0, <2>2 DEF Recall, Masked
  <2> QED
    BY <2>3, NoneAssumption DEF Descends
<1>7. CASE \E d \in Doc : Write(d) \/ Remove(d)
  <2>1. PICK d \in Doc : Write(d) \/ Remove(d)
    BY <1>7
  <2>2. PICK r : Touch(d, r) /\ r.kind # "masked"
    <3>1. CASE \E text \in Text : Touch(d, [kind |-> "raw", text |-> text])
      BY <3>1
    <3>2. CASE Touch(d, [kind |-> "bare"]) \/ Touch(d, Absent)
      BY <3>2 DEF Absent
    <3> QED
      BY <2>1, <3>1, <3>2 DEF Write, Remove
  <2>3. job'.pending = job.pending
    BY <2>2 DEF Touch, EstateType, Job
  <2>4. Governed' \subseteq Governed
    BY <2>2, <2>3 DEF Touch, Governed, Pending, EstateType
  <2> QED
    BY <1>a, <2>4
<1>8. CASE \E missed \in SUBSET Doc : Scan(missed)
  <2>1. \A d \in Doc : job'.pending[d] = None
    BY <1>8 DEF Scan, Idle
  <2>2. Governed' \subseteq Governed
    BY <1>8, <2>1 DEF Scan, Governed, Pending
  <2> QED
    BY <1>a, <2>2
<1>9. CASE \E d \in Doc : Fetch(d)
  <2>1. PICK d \in Doc : Fetch(d)
    BY <1>9
  <2>2. CASE FetchBare(d) \/ FetchAbsent(d) \/ FetchUnread(d)
    <3>1. job'.pending = job.pending
      BY <2>2 DEF FetchBare, FetchAbsent, FetchUnread, EstateType, Job
    <3>2. Governed' \subseteq Governed
      BY <2>1, <3>1 DEF Fetch, Governed, Pending
    <3> QED
      BY <1>a, <3>2
  <2>3. CASE record[d].kind = "raw" /\ FetchRaw(d, Scanned(record[d].text))
    <3>0. PICK found \in SUBSET Finding : FetchRaw(d, found)
      BY <2>3, RawIsText, ScannedIsFound
    <3>1. PICK m : /\ Await(d, m)
                   /\ m.burnt \subseteq book.shredded
                   /\ m.claim = Gone => m.toks = {}
      <4>1. CASE \E c \in found : Await(d, MaskedAs(found, c.value))
        <5>1. PICK c \in found : Await(d, MaskedAs(found, c.value))
          BY <4>1
        <5>2. c.value # Gone
          BY <5>1, FindingAssumption, NoneAssumption
        <5> QED
          BY <5>1, <5>2 DEF MaskedAs
      <4>2. CASE Await(d, MaskedAs({}, None))
        BY <4>2 DEF MaskedAs, Values
      <4> QED
        BY <3>0, <4>1, <4>2 DEF FetchRaw
    <3>2. s \in Governed \/ s = m
      <4>1. job'.pending = [job.pending EXCEPT ![d] = m] /\ record' = record
        BY <2>1, <3>1 DEF Await, Fetch, EstateType, Job
      <4> QED
        BY <4>1 DEF Governed, Pending, EstateType, Job
    <3> QED
      BY <3>1, <3>2 DEF Fresh, Descends
  <2> QED
    BY <2>1, <2>2, <2>3 DEF Fetch
<1>10. CASE Flush
  <2>1. Governed' \subseteq Governed
    BY <1>10 DEF Flush, Flushed, Governed, Pending, EstateType, Job
  <2> QED
    BY <1>a, <2>1
<1>11. CASE Finish
  <2>1. Governed' \subseteq Governed
    BY <1>11 DEF Finish, Absent, Governed, Pending, EstateType, Job
  <2> QED
    BY <1>a, <2>1
<1>12. CASE Fail
  <2>1. Governed' \subseteq Governed
    BY <1>12 DEF Fail, Idle, Governed, Pending
  <2> QED
    BY <1>a, <2>1
<1>13. CASE UNCHANGED vars
  BY <1>13, <1>a DEF vars, Governed, Pending
<1> QED
  BY <1>1, <1>2, <1>3, <1>5, <1>6, <1>7, <1>8, <1>9, <1>10, <1>11, <1>12,
     <1>13 DEF Next

LEMMA StepKeepsTraced ==
  ASSUME Sound, EstateType, AllKnown, AllTraced, [Next]_vars
  PROVE  AllTraced'
<1>0. [VaultNext]_vaultVars /\ book.shredded \subseteq book'.shredded
  BY StepOfVault, StepIsSound DEF Sound, Typed, ActsStand
<1> SUFFICES ASSUME NEW s \in Governed'
             PROVE  Traced(s)'
  BY DEF AllTraced
<1>1. CASE Fresh(s)
  BY <1>0, <1>1 DEF Fresh, Traced
<1>2. CASE \E r \in Governed : Descends(s, r)
  <2>1. PICK r \in Governed : Descends(s, r)
    BY <1>2
  <2>2. r \in Masked /\ Known(r) /\ Traced(r)
    BY <2>1, GovernedIsMasked DEF AllKnown, AllTraced
  <2>3. s.burnt \subseteq book'.shredded
    BY <1>0, <2>1, <2>2 DEF Descends, Traced
  <2>4. ASSUME s.claim = Gone, NEW t \in s.toks
        PROVE  Accounted(t)'
    <3>1. t \in r.toks /\ t \in Value
      BY <2>1, <2>2, <2>4 DEF Descends, Masked
    <3>2. CASE r.claim = Gone
      BY <1>0, <2>2, <3>1, <3>2, StepKeepsAccounted DEF Traced
    <3>3. CASE r.claim \in Value /\ Shred(r.claim)
      <4>1. Settled(book, t)
        BY <2>2, <3>1, <3>3 DEF Known, Backed, Traced, Settled
      <4>2. Settled(Shredded(book, r.claim), t)
        BY <3>1, <3>3, <4>1, ShreddedIsSettled DEF Sound, VaultType
      <4> QED
        BY <3>3, <4>2 DEF Shred, Saving, Accounted, Settled
    <3> QED
      BY <2>1, <2>4, <3>2, <3>3 DEF Descends
  <2> QED
    BY <2>3, <2>4 DEF Traced
<1> QED
  BY <1>1, <1>2, Descent

LEMMA EstateIsTraced == Spec => [](Sound /\ EstateType /\ AllTraced)
<1>1. Init => AllTraced
  BY DEF Init, Governed, Pending, Idle, AllTraced
<1>2. Sound /\ EstateType /\ AllKnown /\ AllTraced /\ [Next]_vars => AllTraced'
  BY StepKeepsTraced
<1> QED
  BY <1>1, <1>2, EstateIsKnown, PTL DEF Spec

\* After a person was erased, a value that one of their texts still reveals is
\* owned and held by somebody else, whatever was queried, shared, corrected or
\* lost to a restart since.
THEOREM ErasureReachesTexts == Spec => []ErasureReaches
<1>1. Sound /\ EstateType /\ AllTraced => ErasureReaches
  <2> SUFFICES ASSUME Sound, EstateType, AllTraced, NEW r \in Governed,
                      r.claim = Gone, NEW t \in r.toks, Shown(r)[t] = "value"
               PROVE  \E i \in book.owners[t] : t \in book.held[i]
    BY DEF ErasureReaches
  <2>1. r \in Masked /\ t \in Value
    BY GovernedIsMasked DEF Masked
  <2>2. t \notin book.shredded
    BY DEF Shown, Rehydrate
  <2>3. PICK i : i \in book.owners[t]
    BY <2>2 DEF AllTraced, Traced, Accounted, Settled
  <2> QED
    BY <2>1, <2>3 DEF Sound, VaultType, Book, Agreed
<1> QED
  BY <1>1, EstateIsTraced, PTL
----------------------------------------------------------------------------
(* The report of a cleaning.                                               *)

HoldsFindings(d) == record[d].kind = "raw" /\ Scanned(record[d].text) # {}

\* A cleaning has each vector in one place: still to do, to be deleted, or
\* masked.  What others did not write is masked or about to be once it was
\* re-embedded, and what holds findings is to do, about to be masked, or was
\* never given to it.
OnCourse ==
  /\ job.todo \cap (job.drop \cup job.reembedded) = {}
  /\ job.drop \cap job.reembedded = {}
  /\ job.phase # "cleaning" => job.todo = {} /\ Pending = {}
  /\ job.phase # "idle" =>
       \A d \in Doc \ job.touched :
         /\ d \in job.reembedded => record[d].kind = "masked" \/ d \in Pending
         /\ HoldsFindings(d) => d \in job.missed \cup job.todo \cup Pending

LEMMA SameCourse ==
  ASSUME OnCourse, Pending' = Pending,
         job'.todo = job.todo, job'.drop = job.drop, job'.phase = job.phase,
         job'.reembedded = job.reembedded, job'.touched = job.touched,
         job'.missed = job.missed,
         \A d \in Doc : /\ record'[d].kind = record[d].kind
                        /\ record[d].kind = "raw" => record'[d] = record[d]
  PROVE  OnCourse'
BY DEF OnCourse, HoldsFindings

LEMMA SecuredKeepsCourse ==
  ASSUME EstateType, OnCourse, OnMasked(Secure)
  PROVE  OnCourse'
<1>1. /\ job'.todo = job.todo /\ job'.drop = job.drop /\ job'.phase = job.phase
      /\ job'.reembedded = job.reembedded /\ job'.touched = job.touched
      /\ job'.missed = job.missed
      /\ job'.pending = [d \in Doc |-> IF job.pending[d] # None
                                       THEN Secure(job.pending[d]) ELSE None]
  BY DEF OnMasked, EstateType, Job
<1>2. \A d \in Pending : Secure(job.pending[d]) # None
  BY HistoryKeepsMasked, MaskedAssumption DEF Pending, EstateType, Job
<1>3. Pending' = Pending
  BY <1>1, <1>2 DEF Pending
<1>4. \A d \in Doc : /\ record'[d].kind = record[d].kind
                     /\ record[d].kind = "raw" => record'[d] = record[d]
  BY MaskedByKind DEF OnMasked, Secure, Masked
<1> QED
  BY <1>1, <1>3, <1>4, SameCourse

LEMMA RecalledKeepsCourse ==
  ASSUME EstateType, OnCourse, OnMasked(Recall)
  PROVE  OnCourse'
<1>1. /\ job'.todo = job.todo /\ job'.drop = job.drop /\ job'.phase = job.phase
      /\ job'.reembedded = job.reembedded /\ job'.touched = job.touched
      /\ job'.missed = job.missed
      /\ job'.pending = [d \in Doc |-> IF job.pending[d] # None
                                       THEN Recall(job.pending[d]) ELSE None]
  BY DEF OnMasked, EstateType, Job
<1>2. \A d \in Pending : Recall(job.pending[d]) # None
  BY HistoryKeepsMasked, MaskedAssumption DEF Pending, EstateType, Job
<1>3. Pending' = Pending
  BY <1>1, <1>2 DEF Pending
<1>4. \A d \in Doc : /\ record'[d].kind = record[d].kind
                     /\ record[d].kind = "raw" => record'[d] = record[d]
  BY MaskedByKind DEF OnMasked, Recall, Masked
<1> QED
  BY <1>1, <1>3, <1>4, SameCourse

LEMMA DisclaimedKeepsCourse ==
  ASSUME EstateType, OnCourse, NEW i \in Value,
         OnMasked(LAMBDA r : Secure(Disclaim(i, r)))
  PROVE  OnCourse'
<1>1. /\ job'.todo = job.todo /\ job'.drop = job.drop /\ job'.phase = job.phase
      /\ job'.reembedded = job.reembedded /\ job'.touched = job.touched
      /\ job'.missed = job.missed
      /\ job'.pending = [d \in Doc |-> IF job.pending[d] # None
                                       THEN Secure(Disclaim(i, job.pending[d])) ELSE None]
  BY DEF OnMasked, EstateType, Job
<1>2. \A d \in Pending : Secure(Disclaim(i, job.pending[d])) # None
  BY HistoryKeepsMasked, MaskedAssumption DEF Pending, EstateType, Job
<1>3. Pending' = Pending
  BY <1>1, <1>2 DEF Pending
<1>4. \A d \in Doc : /\ record'[d].kind = record[d].kind
                     /\ record[d].kind = "raw" => record'[d] = record[d]
  BY MaskedByKind DEF OnMasked, Secure, Disclaim, Masked
<1> QED
  BY <1>1, <1>3, <1>4, SameCourse

LEMMA IdleIsOnCourse ==
  ASSUME job' = Idle PROVE OnCourse'
BY DEF OnCourse, Idle, Pending

LEMMA StepKeepsCourse ==
  ASSUME Typed, OnCourse, [Next]_vars
  PROVE  OnCourse'
<1>0. job \in Job /\ record \in [Doc -> Record] /\ EstateType /\ VaultType
  BY DEF Typed, EstateType
<1>1. CASE \E i \in Value : Erase(i)
  BY <1>0, <1>1, DisclaimedKeepsCourse DEF Erase
<1>2. CASE (\E t \in Value : Correct(t)) \/ Persist
  BY <1>0, <1>2, SecuredKeepsCourse DEF Correct, Persist
<1>3. CASE \E text \in Text : Query(text)
  BY <1>3 DEF Query, OnCourse, HoldsFindings, Pending
<1>4. CASE Die \/ Fail
  BY <1>4, IdleIsOnCourse DEF Die, Fail
<1>6. CASE Recover
  BY <1>0, <1>6, RecalledKeepsCourse DEF Recover
<1>7. CASE \E d \in Doc : Write(d) \/ Remove(d)
  <2>1. PICK d \in Doc : Write(d) \/ Remove(d)
    BY <1>7
  <2>2. PICK r : Touch(d, r)
    BY <2>1 DEF Write, Remove
  <2>3. /\ job'.todo = job.todo /\ job'.drop = job.drop /\ job'.phase = job.phase
        /\ job'.reembedded = job.reembedded /\ job'.missed = job.missed
        /\ job'.touched = IF job.phase = "idle" THEN job.touched ELSE job.touched \cup {d}
        /\ job'.pending = job.pending
        /\ \A e \in Doc \ {d} : record'[e] = record[e]
    BY <1>0, <2>2 DEF Touch, Job
  <2> QED
    BY <2>3 DEF OnCourse, Pending, HoldsFindings
<1>8. CASE \E missed \in SUBSET Doc : Scan(missed)
  <2>1. PICK missed \in SUBSET Doc : Scan(missed)
    BY <1>8
  <2>2. /\ job'.phase = "cleaning" /\ job'.missed = missed /\ job'.drop = {}
        /\ job'.reembedded = {} /\ record' = record
        /\ job'.todo = {d \in Doc \ missed : HoldsFindings(d)}
    BY <2>1 DEF Scan, Idle, Given, HoldsFindings
  <2> QED
    BY <2>2 DEF OnCourse, HoldsFindings
<1>9. CASE \E d \in Doc : Fetch(d)
  <2>1. PICK d \in Doc : Fetch(d)
    BY <1>9
  <2>2. d \in job.todo /\ job.phase = "cleaning" /\ record' = record
    BY <2>1 DEF Fetch
  <2>3. CASE record[d].kind = "raw" /\ FetchRaw(d, Scanned(record[d].text))
    <3>0. PICK found \in SUBSET Finding : FetchRaw(d, found)
      BY <1>0, <2>3, RawIsText, ScannedIsFound
    <3>1. PICK m \in Masked : Await(d, m)
      <4>1. \A i \in Value \cup {None} :
              MaskedAs(found, i) \in Masked /\ MaskedAs({}, i) \in Masked
        BY <1>0, MaskedAsIsMasked
      <4> QED
        BY <3>0, <4>1, FindingAssumption DEF FetchRaw
    <3>2. /\ job'.todo = job.todo \ {d} /\ job'.drop = job.drop
          /\ job'.phase = job.phase /\ job'.reembedded = job.reembedded \cup {d}
          /\ job'.touched = job.touched /\ job'.missed = job.missed
          /\ job'.pending = [job.pending EXCEPT ![d] = m]
      BY <1>0, <3>1 DEF Await, Job
    <3>3. Pending' = Pending \cup {d}
      BY <1>0, <3>1, <3>2, MaskedAssumption DEF Pending, Job
    <3> QED
      BY <2>2, <3>2, <3>3 DEF OnCourse, HoldsFindings
  <2>4. CASE record[d].kind = "bare" /\ FetchBare(d)
    <3>1. /\ job'.todo = job.todo \ {d} /\ job'.drop = job.drop \cup {d}
          /\ job'.phase = job.phase /\ job'.reembedded = job.reembedded
          /\ job'.touched = job.touched /\ job'.missed = job.missed
          /\ job'.pending = job.pending
      BY <1>0, <2>4 DEF FetchBare, Job
    <3> QED
      BY <2>2, <2>4, <3>1 DEF OnCourse, HoldsFindings, Pending
  <2>5. CASE record[d].kind = "absent" /\ FetchAbsent(d)
    <3>1. /\ job'.todo = job.todo \ {d} /\ job'.drop = job.drop
          /\ job'.phase = job.phase /\ job'.reembedded = job.reembedded
          /\ job'.touched = job.touched /\ job'.missed = job.missed
          /\ job'.pending = job.pending
      BY <1>0, <2>5 DEF FetchAbsent, Job
    <3> QED
      BY <2>2, <2>5, <3>1 DEF OnCourse, HoldsFindings, Pending
  <2>6. CASE FetchUnread(d)
    <3>1. /\ job'.todo = job.todo \ {d} /\ job'.drop = job.drop
          /\ job'.phase = job.phase /\ job'.reembedded = job.reembedded
          /\ job'.touched = job.touched /\ job'.missed = job.missed \cup {d}
          /\ job'.pending = job.pending
      BY <1>0, <2>6 DEF FetchUnread, Job
    <3> QED
      BY <2>2, <3>1 DEF OnCourse, HoldsFindings, Pending
  <2> QED
    BY <2>1, <2>3, <2>4, <2>5, <2>6 DEF Fetch
<1>10. CASE Flush
  <2>1. /\ job'.todo = job.todo /\ job'.drop = job.drop /\ job'.phase = job.phase
        /\ job'.reembedded = job.reembedded /\ job'.touched = job.touched
        /\ job'.missed = job.missed /\ job.phase = "cleaning"
        /\ Pending' = {}
    BY <1>0, <1>10 DEF Flush, Job, Pending
  <2>2. \A d \in Doc : IF d \in Pending THEN record'[d].kind = "masked"
                       ELSE record'[d] = record[d]
    BY <1>0, <1>10 DEF Flush, Flushed, Pending, Job, Masked
  <2> QED
    BY <2>1, <2>2 DEF OnCourse, HoldsFindings
<1>11. CASE Finish
  <2>1. /\ job'.todo = job.todo /\ job'.drop = {} /\ job'.phase = "done"
        /\ job'.reembedded = job.reembedded /\ job'.touched = job.touched
        /\ job'.missed = job.missed /\ job.phase = "cleaning"
        /\ Pending' = Pending /\ Pending = {} /\ job.todo = {}
    BY <1>0, <1>11 DEF Finish, Job, Pending
  <2>2. \A d \in Doc : IF d \in job.drop THEN record'[d].kind = "absent"
                       ELSE record'[d] = record[d]
    BY <1>11 DEF Finish, Absent
  <2> QED
    BY <2>1, <2>2 DEF OnCourse, HoldsFindings
<1>12. CASE UNCHANGED vars
  BY <1>12 DEF vars, OnCourse, HoldsFindings, Pending
<1> QED
  BY <1>1, <1>2, <1>3, <1>4, <1>6, <1>7, <1>8, <1>9, <1>10, <1>11, <1>12 DEF Next

\* A finished cleaning has masked every vector it was given, of those nobody else
\* wrote since the scan: migrator.py:98-133.
THEOREM CleaningsMask == Spec => []CleaningMasksWhatItGot
<1>1. Init => OnCourse
  BY DEF Init, OnCourse, Idle, Pending
<1>2. Sound /\ EstateType /\ OnCourse /\ [Next]_vars => OnCourse'
  BY StepKeepsCourse DEF Sound, Typed
<1>3. OnCourse => CleaningMasksWhatItGot
  BY DEF OnCourse, CleaningMasksWhatItGot, HoldsFindings
<1> QED
  BY <1>1, <1>2, <1>3, EstateIsSound, PTL DEF Spec
=============================================================================
