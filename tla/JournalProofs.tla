--------------------------- MODULE JournalProofs ----------------------------
(* What the file is worth to whoever opens it, for any number of threads,  *)
(* entries, failed writes and crashes: nothing an append acknowledged is   *)
(* lost without _load reporting it, what is lost is bounded by the writes  *)
(* cut short, and the chain raises no false alarm.                         *)
EXTENDS Journal, FiniteSetTheorems, WellFoundedInduction, TLAPS

\* The file is a sequence of lines of some kind; which kind does not matter.
IsFile(file) == \E S : file \in Seq(S)

\* The inductive invariant.  That an open line exists is needed where the
\* next write lands on it: what it replaces is then a line of the file.
Kept ==
  /\ IsFile(lines)
  /\ open \in BOOLEAN
  /\ open => lines # <<>>
  /\ LossIsReported

----------------------------------------------------------------------------

\* Writing keeps the file a sequence, and a write that leaves no torn line
\* keeps every line there was.
LEMMA WrittenKeeps ==
  ASSUME NEW e, NEW extent \in Extent, Kept
  PROVE  /\ IsFile(Written(lines, e, extent))
         /\ Len(Written(lines, e, extent)) >= Len(lines)
         /\ extent # "nothing" => Written(lines, e, extent) # <<>>
         /\ LoadErrors(Written(lines, e, extent)) = {} =>
              /\ LoadErrors(lines) = {}
              /\ \A i \in 1 .. Len(lines) :
                   Written(lines, e, extent)[i] = lines[i]
<1> DEFINE after == Written(lines, e, extent)
<1>1. PICK S : lines \in Seq(S)
  BY DEF Kept, IsFile
<1>2. lines \in Seq(S \cup {e, Torn}) /\ Len(lines) \in Nat
  BY <1>1
<1>3. CASE extent = "nothing"
  <2>1. after = lines
    BY <1>3 DEF Written
  <2> QED
    BY <2>1, <1>2, <1>3 DEF IsFile
<1>4. CASE extent # "nothing" /\ open
  <2>1. lines # <<>> /\ Len(lines) \in 1 .. Len(lines)
    BY <1>2, <1>4 DEF Kept
  <2>2. after = [lines EXCEPT ![Len(lines)] = Torn]
    BY <1>4 DEF Written
  <2>3. /\ after \in Seq(S \cup {e, Torn})
        /\ Len(after) = Len(lines)
        /\ after[Len(lines)] = Torn
    BY <2>1, <2>2, <1>2
  <2>4. LoadErrors(after) # {}
    BY <2>1, <2>3 DEF LoadErrors
  <2> QED
    BY <2>1, <2>3, <2>4, <1>2 DEF IsFile
<1>5. CASE extent # "nothing" /\ ~open
  <2>1. PICK l \in {e, Torn} : after = Append(lines, l)
    BY <1>5 DEF Written
  <2>2. /\ after \in Seq(S \cup {e, Torn})
        /\ Len(after) = Len(lines) + 1
        /\ \A i \in 1 .. Len(lines) : after[i] = lines[i]
    BY <2>1, <1>2
  <2>3. LoadErrors(after) = {} => LoadErrors(lines) = {}
    BY <2>2, <1>2 DEF LoadErrors
  <2> QED
    BY <2>2, <2>3, <1>2 DEF IsFile
<1> QED
  BY <1>3, <1>4, <1>5 DEF Kept

\* A whole line that leaves no torn line is on the file.
LEMMA WrittenArrives ==
  ASSUME NEW e, Kept, LoadErrors(Written(lines, e, "line")) = {}
  PROVE  \E i \in 1 .. Len(Written(lines, e, "line")) :
           Written(lines, e, "line")[i] = e
<1>1. PICK S : lines \in Seq(S)
  BY DEF Kept, IsFile
<1>2. lines \in Seq(S \cup {e, Torn}) /\ Len(lines) \in Nat
  BY <1>1
<1>3. CASE open
  <2>1. lines # <<>> /\ Len(lines) \in 1 .. Len(lines)
    BY <1>2, <1>3 DEF Kept
  <2>2. Written(lines, e, "line") = [lines EXCEPT ![Len(lines)] = Torn]
    BY <1>3 DEF Written
  <2>3. /\ Len(Written(lines, e, "line")) = Len(lines)
        /\ Written(lines, e, "line")[Len(lines)] = Torn
    BY <2>1, <2>2, <1>2
  <2> QED
    BY <2>1, <2>3 DEF LoadErrors
<1>4. CASE ~open
  <2>1. Written(lines, e, "line") = Append(lines, e)
    BY <1>4 DEF Written
  <2> QED
    BY <2>1, <1>2
<1> QED
  BY <1>3, <1>4 DEF Kept

\* Putting a line keeps the invariant when nothing but a whole line is
\* acknowledged.
LEMMA PutKeeps ==
  ASSUME NEW e, NEW extent \in Extent, Kept, Put(e, extent),
         \/ acked' = acked
         \/ extent = "line" /\ acked' = acked \cup {e}
  PROVE  Kept'
<1>1. lines' = Written(lines, e, extent)
  BY DEF Put
<1>2. /\ IsFile(lines')
      /\ Len(lines') >= Len(lines)
      /\ extent # "nothing" => lines' # <<>>
      /\ LoadErrors(lines') = {} =>
           /\ LoadErrors(lines) = {}
           /\ \A i \in 1 .. Len(lines) : lines'[i] = lines[i]
  BY <1>1, WrittenKeeps, Zenon
<1>3. /\ open' \in BOOLEAN
      /\ open' => lines' # <<>>
  <2>1. CASE extent = "nothing"
    BY <2>1, <1>1 DEF Put, Written, Kept
  <2>2. CASE extent # "nothing"
    BY <2>2, <1>2 DEF Put, Kept
  <2> QED
    BY <2>1, <2>2
<1>4. Len(lines) \in Nat /\ Len(lines') \in Nat
  BY <1>2 DEF Kept, IsFile
<1>5. LossIsReported'
  <2> SUFFICES ASSUME LoadErrors(lines') = {}, NEW a \in acked'
               PROVE  \E i \in 1 .. Len(lines') : lines'[i] = a
    BY DEF LossIsReported, OnFile, LoadErrors
  <2>1. CASE a \in acked
    <3>1. PICK i \in 1 .. Len(lines) : lines[i] = a
      BY <2>1, <1>2 DEF Kept, LossIsReported, OnFile
    <3>2. i \in 1 .. Len(lines') /\ lines'[i] = a
      BY <3>1, <1>2, <1>4
    <3> QED
      BY <3>2
  <2>2. CASE extent = "line" /\ a = e
    BY <2>2, <1>1, WrittenArrives
  <2> QED
    BY <2>1, <2>2
<1> QED
  BY <1>2, <1>3, <1>5 DEF Kept

LEMMA Initially == Init => Kept
<1> SUFFICES ASSUME Init PROVE Kept
  OBVIOUS
<1>1. lines \in Seq({}) /\ open = FALSE /\ acked = {}
  BY DEF Init
<1> QED
  BY <1>1 DEF Kept, IsFile, LossIsReported

LEMMA Step == Kept /\ [Next]_vars => Kept'
<1> SUFFICES ASSUME Kept, [Next]_vars PROVE Kept'
  OBVIOUS
<1> DEFINE Untouched == UNCHANGED <<lines, open, acked>>
<1>1. ASSUME Untouched PROVE Kept'
  BY <1>1 DEF Kept, IsFile, LossIsReported, OnFile, LoadErrors
<1>2. ASSUME NEW w \in Worker, Build(w) PROVE Kept'
  BY <1>1, <1>2 DEF Build
<1>3. ASSUME NEW w \in Worker, Extend(w) PROVE Kept'
  BY <1>1, <1>3 DEF Extend
<1>4. ASSUME NEW w \in Worker, Persist(w) PROVE Kept'
  <2>1. Put(call[w].entry, "line") /\ acked' = acked \cup {call[w].entry}
    BY <1>4 DEF Persist
  <2> QED
    BY <2>1, PutKeeps DEF Extent
<1>5. ASSUME NEW w \in Worker, NEW extent \in Extent, PersistFails(w, extent)
      PROVE  Kept'
  <2>1. Put(call[w].entry, extent) /\ acked' = acked
    BY <1>5 DEF PersistFails
  <2> QED
    BY <2>1, PutKeeps
<1>6. ASSUME NEW w \in Worker, NEW extent \in Extent, CrashInWrite(w, extent)
      PROVE  Kept'
  <2>1. Put(call[w].entry, extent) /\ acked' = acked
    BY <1>6 DEF CrashInWrite, Restart
  <2> QED
    BY <2>1, PutKeeps
<1>7. ASSUME CrashBetweenWrites PROVE Kept'
  BY <1>1, <1>7 DEF CrashBetweenWrites, Restart
<1>8. ASSUME TakeCheckpoint PROVE Kept'
  BY <1>1, <1>8 DEF TakeCheckpoint
<1>9. ASSUME UNCHANGED vars PROVE Kept'
  BY <1>1, <1>9 DEF vars
<1> QED
  BY <1>2, <1>3, <1>4, <1>5, <1>6, <1>7, <1>8, <1>9 DEF Next

\* "detected and reported rather than silently dropped" (journal.py:38):
\* when a load of the file reports nothing, it holds every entry whose
\* append() returned.
THEOREM NothingIsDroppedSilently == Spec => []LossIsReported
<1>1. Kept => LossIsReported
  BY DEF Kept
<1> QED
  BY <1>1, Initially, Step, PTL DEF Spec

----------------------------------------------------------------------------
(* Loaded: the lines that parse, in their order.                           *)

\* A set of naturals that is not empty has a least element.
LEMMA Least ==
  ASSUME NEW T, T \subseteq Nat, T # {}
  PROVE  \E x \in T : \A y \in T : x <= y
<1> DEFINE Below == {ss \in Nat \X Nat : ss[1] < ss[2]}
<1>1. IsWellFoundedOn(Below, Nat)
  BY NatLessThanWellFounded, Zenon DEF OpToRel
<1>2. PICK x \in T : \A y \in T : <<y, x>> \notin Below
  <2> HIDE DEF Below
  <2> QED
    BY <1>1, WFMin, Zenon
<1>3. ASSUME NEW y \in T PROVE x <= y
  <2>1. <<y, x>> \in Nat \X Nat /\ <<y, x>>[1] = y /\ <<y, x>>[2] = x
    OBVIOUS
  <2>2. ~(y < x)
    BY <1>2, <2>1
  <2> QED
    BY <2>2
<1> QED
  BY <1>3

\* A finite set of positive numbers has an n-th element for every n up to
\* its size: the least number that n of them do not exceed.
LEMMA HasNth ==
  ASSUME NEW m \in Nat, NEW S \in SUBSET (1 .. m), NEW n \in 1 .. Cardinality(S)
  PROVE  /\ Nth(S, n) \in S
         /\ Cardinality({j \in S : j <= Nth(S, n)}) = n
<1> DEFINE UpTo(i) == {j \in S : j <= i}
           Enough == {i \in Nat : Cardinality(UpTo(i)) >= n}
<1>0. \A j \in S : j \in Nat /\ 1 <= j /\ j <= m
  OBVIOUS
<1>1. IsFiniteSet(S)
  <2>1. IsFiniteSet(1 .. m)
    BY FS_Interval
  <2> QED
    BY <2>1, FS_Subset
<1>2. \A i \in Nat : IsFiniteSet(UpTo(i)) /\ Cardinality(UpTo(i)) \in Nat
  BY <1>1, FS_Subset, FS_CardinalityType
<1>3. UpTo(m) = S /\ UpTo(0) = {}
  <2>1. \A j \in S : ~(j <= 0)
    BY <1>0
  <2> QED
    BY <1>0, <2>1
<1>4. ASSUME NEW k \in Nat, NEW i \in Nat, i = k + 1
      PROVE  /\ i \notin UpTo(k)
             /\ i \in S => UpTo(i) = UpTo(k) \cup {i}
             /\ i \notin S => UpTo(i) = UpTo(k)
  <2>1. \A j \in S : j <= i <=> j <= k \/ j = i
    BY <1>0, <1>4
  <2>2. ~(i <= k)
    BY <1>4
  <2> QED
    BY <2>1, <2>2
<1>5. Enough \subseteq Nat /\ \A i \in Nat : i \in Enough <=> Cardinality(UpTo(i)) >= n
  OBVIOUS
<1> HIDE DEF UpTo, Enough
<1>6. Enough # {}
  BY <1>2, <1>3, <1>5
<1>7. PICK i \in Enough : \A k \in Enough : i <= k
  BY <1>5, <1>6, Least
<1>8. i \in Nat /\ i # 0
  BY <1>3, <1>5, FS_EmptySet
<1>9. PICK k \in Nat : i = k + 1
  BY <1>8
<1>10. Cardinality(UpTo(k)) < n /\ Cardinality(UpTo(i)) >= n
  BY <1>2, <1>5, <1>7, <1>8, <1>9
<1>11. i \in S /\ Cardinality(UpTo(i)) = Cardinality(UpTo(k)) + 1
  <2>0. /\ i \notin UpTo(k)
        /\ i \in S => UpTo(i) = UpTo(k) \cup {i}
        /\ i \notin S => UpTo(i) = UpTo(k)
    BY <1>4, <1>8, <1>9, Zenon
  <2>1. i \in S
    BY <1>2, <1>9, <1>10, <2>0
  <2>2. UpTo(i) = UpTo(k) \cup {i} /\ i \notin UpTo(k) /\ IsFiniteSet(UpTo(k))
    BY <1>2, <1>9, <2>0, <2>1
  <2> QED
    BY <2>1, <2>2, FS_AddElement
<1>12. i \in S /\ Cardinality(UpTo(i)) = n
  BY <1>2, <1>9, <1>10, <1>11
<1> QED
  BY <1>12, Zenon DEF Nth, UpTo

\* Loaded reads entries out of a file of entries and torn lines.
LEMMA LoadedType ==
  ASSUME NEW S, NEW file \in Seq(S \cup {Torn})
  PROVE  Loaded(file) \in Seq(S)
<1> DEFINE P == Parses(file)
<1>1. Len(file) \in Nat /\ P \in SUBSET (1 .. Len(file))
  BY DEF Parses
<1>2. IsFiniteSet(P) /\ Cardinality(P) \in Nat
  <2>1. IsFiniteSet(1 .. Len(file))
    BY <1>1, FS_Interval
  <2> HIDE DEF P
  <2> QED
    BY <1>1, <2>1, FS_Subset, FS_CardinalityType
<1>3. \A n \in 1 .. Cardinality(P) : file[Nth(P, n)] \in S
  <2> TAKE n \in 1 .. Cardinality(P)
  <2>1. Nth(P, n) \in P
    BY <1>1, HasNth
  <2> QED
    BY <2>1 DEF Parses
<1> HIDE DEF P
<1>4. [n \in 1 .. Cardinality(P) |-> file[Nth(P, n)]] \in Seq(S)
  BY <1>2, <1>3
<1> QED
  BY <1>4 DEF Loaded, P

\* A file with nothing torn loads as it is.
LEMMA LoadedWhole ==
  ASSUME NEW S, NEW file \in Seq(S), LoadErrors(file) = {}
  PROVE  Loaded(file) = file
<1> DEFINE m == Len(file)
<1>1. m \in Nat /\ Parses(file) = 1 .. m
  BY DEF Parses, LoadErrors
<1>2. \A n \in 0 .. m : Cardinality(1 .. n) = n
  BY <1>1, FS_Interval
<1>3. ASSUME NEW n \in 1 .. m PROVE Nth(1 .. m, n) = n
  <2> DEFINE i == Nth(1 .. m, n)
  <2>0. Cardinality(1 .. m) = m /\ (1 .. m) \in SUBSET (1 .. m)
    BY <1>1, <1>2
  <2>1. i \in 1 .. m /\ Cardinality({j \in 1 .. m : j <= i}) = n
    BY <1>1, <2>0, HasNth
  <2>2. {j \in 1 .. m : j <= i} = 1 .. i
    BY <2>1, <1>1
  <2> QED
    <3>1. i \in 0 .. m
      BY <1>1, <2>1
    <3> QED
      BY <2>1, <2>2, <3>1, <1>2, Zenon
<1>4. Loaded(file) = [n \in 1 .. m |-> file[n]]
  BY <1>1, <1>2, <1>3 DEF Loaded
<1>5. file = [n \in 1 .. m |-> file[n]]
  OBVIOUS
<1> QED
  BY <1>4, <1>5
----------------------------------------------------------------------------
(* Types, and what a write does to the file.                               *)

\* The calls under way.
Busy(w) == call[w] # Idle

LEMMA CallType ==
  ASSUME TypeOK, NEW w \in Worker
  PROVE  /\ Busy(w) <=> call[w].at \in {"built", "listed"}
         /\ Busy(w) => /\ call[w] \in [at: {"built", "listed"}, entry: Entry]
                       /\ call[w].entry \in Entry
<1>1. call[w] \in Call
  BY DEF TypeOK
<1>2. Idle.at = "idle"
  BY DEF Idle
<1> QED
  BY <1>1, <1>2 DEF Busy, Call

\* A write changes nothing, tears the line that is open, or adds one.
LEMMA PutType ==
  ASSUME TypeOK, NEW e \in Entry, NEW extent \in Extent, Put(e, extent)
  PROVE  /\ lines' \in Seq(Entry \cup {Torn})
         /\ open' \in BOOLEAN
         /\ open' => lines' # <<>>
         /\ tears' \in Nat
         /\ extent = "nothing" => UNCHANGED <<lines, open, tears>>
         /\ extent # "nothing" /\ open =>
              /\ Len(lines') = Len(lines)
              /\ Len(lines) \in 1 .. Len(lines)
              /\ lines'[Len(lines)] = Torn
              /\ \A i \in 1 .. Len(lines) : i # Len(lines) => lines'[i] = lines[i]
         /\ extent # "nothing" /\ ~open =>
              lines' = Append(lines, IF extent = "part" THEN Torn ELSE e)
<1>1. CASE extent = "nothing"
  BY <1>1 DEF Put, Written, TypeOK, Short
<1>2. CASE extent # "nothing" /\ open
  <2>1. lines' = [lines EXCEPT ![Len(lines)] = Torn]
    BY <1>2 DEF Put, Written
  <2>2. lines \in Seq(Entry \cup {Torn}) /\ Len(lines) \in 1 .. Len(lines)
    BY <1>2 DEF TypeOK
  <2>3. lines' \in Seq(Entry \cup {Torn}) /\ Len(lines') = Len(lines)
    BY <2>1, <2>2
  <2>4. lines' # <<>>
    BY <2>2, <2>3
  <2>5. open' \in BOOLEAN /\ tears' \in Nat
    BY <1>2 DEF Put, TypeOK, Short
  <2>6. /\ lines'[Len(lines)] = Torn
        /\ \A i \in 1 .. Len(lines) : i # Len(lines) => lines'[i] = lines[i]
    BY <2>1, <2>2
  <2> QED
    BY <1>2, <2>2, <2>3, <2>4, <2>5, <2>6, Zenon
<1>3. CASE extent # "nothing" /\ ~open
  <2>1. PICK l \in Entry \cup {Torn} :
          l = (IF extent = "part" THEN Torn ELSE e) /\ lines' = Append(lines, l)
    BY <1>3 DEF Put, Written
  <2>2. lines' \in Seq(Entry \cup {Torn}) /\ lines' # <<>>
    BY <2>1 DEF TypeOK
  <2>3. open' \in BOOLEAN /\ tears' \in Nat
    BY <1>3 DEF Put, TypeOK, Short
  <2> QED
    BY <1>3, <2>1, <2>2, <2>3, Zenon
<1> QED
  BY <1>1, <1>2, <1>3 DEF TypeOK

LEMMA HeadType ==
  ASSUME TypeOK
  PROVE  head(entries) \in Nat /\ Len(entries) \in Nat
<1>1. entries \in Seq(Entry) /\ Len(entries) \in Nat
  BY DEF TypeOK
<1>2. CASE entries = <<>>
  BY <1>1, <1>2 DEF head, GENESIS
<1>3. CASE entries # <<>>
  <2>1. entries[Len(entries)] \in Entry
    BY <1>1, <1>3
  <2> QED
    BY <1>1, <1>3, <2>1 DEF head, Entry
<1> QED
  BY <1>2, <1>3

LEMMA RestartType ==
  ASSUME TypeOK, lines' \in Seq(Entry \cup {Torn}), Restart
  PROVE  /\ entries' \in Seq(Entry)
         /\ call' \in [Worker -> Call]
         /\ UNCHANGED <<made, acked, orderly, witnessed>>
<1>1. Loaded(lines') \in Seq(Entry)
  BY LoadedType
<1> QED
  BY <1>1 DEF Restart, Call

LEMMA TypeInitially == Init => TypeOK
<1> SUFFICES ASSUME Init PROVE TypeOK
  OBVIOUS
<1>1. entries \in Seq(Entry) /\ lines \in Seq(Entry \cup {Torn})
  BY DEF Init
<1>2. call \in [Worker -> Call]
  BY DEF Init, Call
<1> QED
  BY <1>1, <1>2 DEF Init, TypeOK

LEMMA TypeStep == TypeOK /\ [Next]_vars => TypeOK'
<1> SUFFICES ASSUME TypeOK, [Next]_vars PROVE TypeOK'
  OBVIOUS
<1>1. ASSUME NEW w \in Worker, Build(w) PROVE TypeOK'
  <2>1. NewEntry(entries, made + 1) \in Entry
    BY HeadType DEF NewEntry, Entry, TypeOK
  <2>2. [at |-> "built", entry |-> NewEntry(entries, made + 1)] \in Call
    BY <2>1 DEF Call
  <2> QED
    BY <1>1, <2>2 DEF Build, TypeOK
<1>2. ASSUME NEW w \in Worker, Extend(w) PROVE TypeOK'
  <2>1. Busy(w)
    BY <1>2, CallType DEF Extend
  <2>2. call[w] \in [at: {"built", "listed"}, entry: Entry]
        /\ call[w].entry \in Entry
    BY <2>1, CallType
  <2>3. [call[w] EXCEPT !.at = "listed"] \in Call
    BY <2>2 DEF Call
  <2>4. call' \in [Worker -> Call]
    BY <1>2, <2>3 DEF Extend, TypeOK
  <2>5. entries' \in Seq(Entry)
    BY <1>2, <2>2 DEF Extend, TypeOK
  <2> QED
    BY <1>2, <2>4, <2>5 DEF Extend, TypeOK
<1>3. ASSUME NEW w \in Worker, Persist(w) PROVE TypeOK'
  <2>1. call[w].entry \in Entry
    BY <1>3, CallType DEF Persist
  <2>2. Put(call[w].entry, "line")
    BY <1>3 DEF Persist
  <2> QED
    BY <1>3, <2>1, <2>2, PutType DEF Persist, TypeOK, Call, Extent
<1>4. ASSUME NEW w \in Worker, NEW extent \in Extent, PersistFails(w, extent)
      PROVE  TypeOK'
  <2>1. call[w].entry \in Entry
    BY <1>4, CallType DEF PersistFails
  <2>2. Put(call[w].entry, extent)
    BY <1>4 DEF PersistFails
  <2> QED
    BY <1>4, <2>1, <2>2, PutType DEF PersistFails, TypeOK, Call
<1>5. ASSUME NEW w \in Worker, NEW extent \in Extent, CrashInWrite(w, extent)
      PROVE  TypeOK'
  <2>1. call[w].entry \in Entry
    BY <1>5, CallType DEF CrashInWrite
  <2>2. Put(call[w].entry, extent) /\ Restart
    BY <1>5 DEF CrashInWrite
  <2>3. /\ lines' \in Seq(Entry \cup {Torn})
        /\ open' \in BOOLEAN /\ (open' => lines' # <<>>) /\ tears' \in Nat
    BY <2>1, <2>2, PutType
  <2> QED
    BY <2>2, <2>3, RestartType DEF TypeOK
<1>6. ASSUME CrashBetweenWrites PROVE TypeOK'
  <2>1. lines' = lines /\ open' = open /\ tears' = tears /\ Restart
    BY <1>6 DEF CrashBetweenWrites
  <2>2. lines' \in Seq(Entry \cup {Torn})
    BY <2>1 DEF TypeOK
  <2> QED
    BY <2>1, <2>2, RestartType DEF TypeOK
<1>7. ASSUME TakeCheckpoint PROVE TypeOK'
  BY <1>7, HeadType DEF TakeCheckpoint, TypeOK, Checkpoint
<1>8. ASSUME UNCHANGED vars PROVE TypeOK'
  BY <1>8 DEF vars, TypeOK
<1> QED
  BY <1>1, <1>2, <1>3, <1>4, <1>5, <1>6, <1>7, <1>8 DEF Next

\* Every variable of the journal has its type.
THEOREM JournalTypeCorrect == Spec => []TypeOK
BY TypeInitially, TypeStep, PTL DEF Spec
----------------------------------------------------------------------------
(* What a torn write costs.                                                *)

Lost == {e \in acked : ~OnFile(e)}

\* The inductive invariant.  No entry is acknowledged twice, so what a write
\* onto an open line tears is never acknowledged; and while a line is open,
\* one tear has not yet cost anything.
Counted ==
  /\ IsFiniteSet(acked)
  /\ \A e \in acked : e.id <= made
  /\ \A w \in Worker :
       Busy(w) => call[w].entry.id <= made /\ call[w].entry \notin acked
  /\ \A v, w \in Worker :
       Busy(v) /\ Busy(w) /\ v # w => call[v].entry # call[w].entry
  /\ open => lines[Len(lines)] \notin acked
  /\ Cardinality(Lost) <= tears
  /\ open => Cardinality(Lost) + 1 <= tears

LEMMA LostType ==
  ASSUME IsFiniteSet(acked)
  PROVE  IsFiniteSet(Lost) /\ Cardinality(Lost) \in Nat
BY FS_Subset, FS_CardinalityType DEF Lost

\* Two entries with different ids are different, and none is a torn line.
LEMMA PutCounts ==
  ASSUME TypeOK, Counted, NEW e \in Entry, e \notin acked,
         NEW extent \in Extent, Put(e, extent),
         \/ acked' = acked
         \/ extent = "line" /\ acked' = acked \cup {e}
  PROVE  /\ IsFiniteSet(acked')
         /\ open' => lines'[Len(lines')] \notin acked'
         /\ Cardinality(Lost') <= tears'
         /\ open' => Cardinality(Lost') + 1 <= tears'
<1>0. /\ IsFiniteSet(Lost) /\ Cardinality(Lost) \in Nat /\ tears \in Nat
      /\ IsFiniteSet(acked')
  BY LostType, FS_AddElement DEF Counted, TypeOK
<1>1. Torn \notin acked
  BY TornAssumption DEF TypeOK, Entry
<1>2. lines \in Seq(Entry \cup {Torn}) /\ Len(lines) \in Nat
  BY DEF TypeOK
<1>3. tears' = IF extent \in Short THEN tears + 1 ELSE tears
  BY DEF Put
<1>4. CASE extent = "nothing"
  <2>1. UNCHANGED <<lines, open, tears>> /\ acked' = acked
    BY <1>4, PutType
  <2>2. Lost' = Lost
    BY <2>1 DEF Lost, OnFile
  <2> QED
    BY <1>0, <2>1, <2>2 DEF Counted
<1>5. CASE extent # "nothing" /\ open
  <2>1. /\ Len(lines') = Len(lines)
        /\ lines'[Len(lines)] = Torn
        /\ \A i \in 1 .. Len(lines) : i # Len(lines) => lines'[i] = lines[i]
    BY <1>5, PutType
  <2>2. \A a \in acked : OnFile(a) => OnFile(a)'
    BY <1>5, <2>1 DEF OnFile, Counted
  <2>3. Cardinality(Lost) + 1 <= tears
    BY <1>5 DEF Counted
  <2>4. CASE acked' = acked
    <3>1. Lost' \subseteq Lost
      BY <2>2, <2>4 DEF Lost
    <3>2. Cardinality(Lost') <= Cardinality(Lost) /\ Cardinality(Lost') \in Nat
      BY <1>0, <3>1, FS_Subset, FS_CardinalityType
    <3>3. open' => extent \in Short
      BY <1>5 DEF Put
    <3> QED
      BY <1>0, <1>1, <1>3, <2>1, <2>3, <2>4, <3>2, <3>3
  <2>5. CASE extent = "line" /\ acked' = acked \cup {e}
    <3>1. Lost' \subseteq Lost \cup {e}
      BY <2>2, <2>5 DEF Lost
    <3>2. /\ IsFiniteSet(Lost \cup {e})
          /\ Cardinality(Lost \cup {e}) \in Nat
          /\ Cardinality(Lost \cup {e}) <= Cardinality(Lost) + 1
      <4>1. /\ IsFiniteSet(Lost \cup {e})
            /\ \/ Cardinality(Lost \cup {e}) = Cardinality(Lost)
               \/ Cardinality(Lost \cup {e}) = Cardinality(Lost) + 1
        BY <1>0, FS_AddElement
      <4> QED
        BY <1>0, <4>1
    <3>3. Cardinality(Lost') <= Cardinality(Lost) + 1 /\ Cardinality(Lost') \in Nat
      BY <1>0, <3>1, <3>2, FS_Subset, FS_CardinalityType
    <3>4. ~open' /\ tears' = tears
      BY <1>3, <1>5, <2>5 DEF Put, Short
    <3> QED
      BY <1>0, <2>3, <3>3, <3>4
  <2> QED
    BY <2>4, <2>5
<1>6. CASE extent # "nothing" /\ ~open
  <2>1. PICK l \in Entry \cup {Torn} :
          l = (IF extent = "part" THEN Torn ELSE e) /\ lines' = Append(lines, l)
    BY <1>6, PutType
  <2>2. /\ Len(lines') = Len(lines) + 1
        /\ lines'[Len(lines) + 1] = l
        /\ \A i \in 1 .. Len(lines) : lines'[i] = lines[i]
    BY <1>2, <2>1
  <2>3. \A a \in acked : OnFile(a) => OnFile(a)'
    BY <1>2, <2>2 DEF OnFile
  <2>4. extent = "line" => OnFile(e)'
    <3> SUFFICES ASSUME extent = "line" PROVE \E i \in 1 .. Len(lines') : lines'[i] = e
      BY DEF OnFile
    <3> QED
      BY <1>2, <2>1, <2>2
  <2>5. Lost' \subseteq Lost
    BY <2>3, <2>4 DEF Lost
  <2>6. Cardinality(Lost') <= Cardinality(Lost) /\ Cardinality(Lost') \in Nat
    BY <1>0, <2>5, FS_Subset, FS_CardinalityType
  <2>7. open' => extent \in Short /\ acked' = acked /\ l \notin acked
    BY <1>1, <1>6, <2>1 DEF Put, Short
  <2>8. Cardinality(Lost) <= tears
    BY DEF Counted
  <2> QED
    BY <1>0, <1>3, <2>2, <2>6, <2>7, <2>8
<1> QED
  BY <1>0, <1>4, <1>5, <1>6

\* Putting the entry of a call, and ending that call or all of them, keeps
\* the count.
LEMMA PutKeepsCount ==
  ASSUME TypeOK, Counted, NEW w \in Worker, Busy(w),
         NEW extent \in Extent, Put(call[w].entry, extent),
         made' = made,
         call' = [call EXCEPT ![w] = Idle] \/ call' = [v \in Worker |-> Idle],
         \/ acked' = acked
         \/ extent = "line" /\ acked' = acked \cup {call[w].entry}
  PROVE  Counted'
<1> DEFINE e == call[w].entry
<1>1. e \in Entry /\ e \notin acked /\ e.id <= made
  BY CallType DEF Counted
<1>2. /\ IsFiniteSet(acked')
      /\ open' => lines'[Len(lines')] \notin acked'
      /\ Cardinality(Lost') <= tears'
      /\ open' => Cardinality(Lost') + 1 <= tears'
  BY <1>1, PutCounts
<1>3. \A a \in acked' : a.id <= made'
  BY <1>1 DEF Counted
<1>4. \A v \in Worker : Busy(v)' => v # w /\ Busy(v) /\ call'[v] = call[v]
  BY DEF Busy, TypeOK
<1>5. \A v \in Worker :
        Busy(v)' => call'[v].entry.id <= made' /\ call'[v].entry \notin acked'
  BY <1>4 DEF Counted
<1>6. \A v, u \in Worker :
        Busy(v)' /\ Busy(u)' /\ v # u => call'[v].entry # call'[u].entry
  BY <1>4 DEF Counted
<1> QED
  BY <1>2, <1>3, <1>5, <1>6 DEF Counted

LEMMA CountInitially == Init => Counted
<1> SUFFICES ASSUME Init PROVE Counted
  OBVIOUS
<1>1. acked = {} /\ open = FALSE /\ tears = 0 /\ \A w \in Worker : ~Busy(w)
  BY DEF Init, Busy
<1>2. Lost = {}
  BY <1>1 DEF Lost
<1> QED
  BY <1>1, <1>2, FS_EmptySet DEF Counted

LEMMA CountStep == TypeOK /\ Counted /\ [Next]_vars => Counted'
<1> SUFFICES ASSUME TypeOK, Counted, [Next]_vars PROVE Counted'
  OBVIOUS
<1>0. ASSUME UNCHANGED <<lines, open, acked, tears>>
      PROVE  UNCHANGED Lost
  BY <1>0 DEF Lost, OnFile
<1>1. ASSUME NEW w \in Worker, Build(w) PROVE Counted'
  <2> DEFINE e == NewEntry(entries, made + 1)
  <2>1. e.id = made + 1 /\ made' = made + 1 /\ made \in Nat
    BY <1>1 DEF Build, NewEntry, TypeOK
  <2>2. /\ ~Busy(w) /\ UNCHANGED <<lines, open, acked, tears, Lost>>
        /\ call'[w].entry = e
        /\ \A v \in Worker : v # w => call'[v] = call[v]
    BY <1>0, <1>1 DEF Build, Busy, TypeOK
  <2>3. \A a \in acked : a.id \in Nat /\ a.id <= made
    BY DEF Counted, TypeOK, Entry
  <2>4. \A v \in Worker :
          v # w /\ Busy(v)' => /\ Busy(v) /\ call[v].entry.id \in Nat
                               /\ call[v].entry.id <= made
                               /\ call[v].entry \notin acked
    BY <2>2, CallType DEF Busy, Counted, Entry
  <2> HIDE DEF e
  <2>5. e \notin acked /\ \A v \in Worker : v # w /\ Busy(v)' => call[v].entry # e
    BY <2>1, <2>3, <2>4
  <2>6. \A a \in acked' : a.id <= made'
    BY <2>1, <2>2, <2>3
  <2>7. \A v \in Worker :
          Busy(v)' => call'[v].entry.id <= made' /\ call'[v].entry \notin acked'
    BY <2>1, <2>2, <2>4, <2>5
  <2>8. \A v, u \in Worker :
          Busy(v)' /\ Busy(u)' /\ v # u => call'[v].entry # call'[u].entry
    BY <2>2, <2>4, <2>5 DEF Counted
  <2> QED
    BY <2>2, <2>6, <2>7, <2>8 DEF Counted
<1>2. ASSUME NEW w \in Worker, Extend(w) PROVE Counted'
  <2>1. Busy(w) /\ call[w] \in [at: {"built", "listed"}, entry: Entry]
    BY <1>2, CallType DEF Extend
  <2>2. \A v \in Worker : Busy(v)' => Busy(v) /\ call'[v].entry = call[v].entry
    BY <1>2, <2>1 DEF Extend, Busy, TypeOK
  <2>3. UNCHANGED <<lines, open, acked, tears, made, Lost>>
    BY <1>0, <1>2 DEF Extend
  <2> QED
    BY <2>2, <2>3 DEF Counted
<1>3. ASSUME NEW w \in Worker, Persist(w) PROVE Counted'
  <2>1. Busy(w)
    BY <1>3, CallType DEF Persist
  <2> QED
    BY <1>3, <2>1, PutKeepsCount DEF Persist, Extent
<1>4. ASSUME NEW w \in Worker, NEW extent \in Extent, PersistFails(w, extent)
      PROVE  Counted'
  <2>1. Busy(w)
    BY <1>4, CallType DEF PersistFails
  <2> QED
    BY <1>4, <2>1, PutKeepsCount DEF PersistFails
<1>5. ASSUME NEW w \in Worker, NEW extent \in Extent, CrashInWrite(w, extent)
      PROVE  Counted'
  <2>1. Busy(w)
    BY <1>5, CallType DEF CrashInWrite
  <2> QED
    BY <1>5, <2>1, PutKeepsCount DEF CrashInWrite, Restart
<1>6. ASSUME CrashBetweenWrites PROVE Counted'
  <2>1. UNCHANGED <<lines, open, acked, tears, made, Lost>>
    BY <1>0, <1>6 DEF CrashBetweenWrites, Restart
  <2>2. \A v \in Worker : ~Busy(v)'
    BY <1>6 DEF CrashBetweenWrites, Restart, Busy
  <2> QED
    BY <2>1, <2>2 DEF Counted
<1>7. ASSUME TakeCheckpoint \/ UNCHANGED vars PROVE Counted'
  <2>1. UNCHANGED <<lines, open, acked, tears, made, call, Lost>>
    BY <1>0, <1>7 DEF TakeCheckpoint, vars
  <2>2. \A v \in Worker : Busy(v)' = Busy(v)
    BY <2>1 DEF Busy
  <2> QED
    BY <2>1, <2>2 DEF Counted
<1> QED
  BY <1>1, <1>2, <1>3, <1>4, <1>5, <1>6, <1>7 DEF Next

\* What a torn write can cost: itself and at most one entry that append()
\* had acknowledged.
THEOREM ATearCostsOne == Spec => []TearsBoundLosses
<1>1. Counted => TearsBoundLosses
  BY DEF Counted, TearsBoundLosses, Lost
<1> QED
  BY <1>1, TypeInitially, TypeStep, CountInitially, CountStep, PTL DEF Spec
----------------------------------------------------------------------------
(* The chain.                                                              *)

\* An entry that goes on from a list.
Follows(e, list) == e.seq = Len(list) /\ e.previous = head(list)

\* A checkpoint the file can answer.
Answerable(c) ==
  c.entries > 0 => c.entries <= Len(lines) /\ lines[c.entries].id = c.head

\* The inductive invariant.  While nothing was torn and calls came one at a
\* time, the list in memory is the file, but for the entry of the one call
\* under way.
InStep ==
  orderly /\ LoadErrors(lines) = {} =>
    /\ \A v, w \in Worker : Busy(v) /\ Busy(w) => v = w
    /\ Quiet => entries = lines
    /\ \A w \in Worker :
         Busy(w) =>
           /\ Follows(call[w].entry, lines)
           /\ entries = IF call[w].at = "built" THEN lines
                        ELSE Append(lines, call[w].entry)
    /\ ChainProblems(lines) = {}
    /\ \A c \in witnessed : Answerable(c)

\* What a chain is made of.
LEMMA Linked ==
  ASSUME NEW list \in Seq(Entry), NEW i \in 1 .. Len(list)
  PROVE  head(SubSeq(list, 1, i - 1)) = IF i = 1 THEN GENESIS ELSE list[i - 1].id
<1>1. Len(list) \in Nat /\ i - 1 \in 0 .. Len(list)
  OBVIOUS
<1>2. CASE i = 1
  <2>1. SubSeq(list, 1, i - 1) = <<>>
    BY <1>1, <1>2
  <2> QED
    BY <1>2, <2>1 DEF head
<1>3. CASE i # 1
  <2>1. /\ Len(SubSeq(list, 1, i - 1)) = i - 1
        /\ SubSeq(list, 1, i - 1)[i - 1] = list[i - 1]
    BY <1>1, <1>3
  <2>2. SubSeq(list, 1, i - 1) # <<>>
    BY <1>1, <1>3, <2>1
  <2> QED
    BY <1>3, <2>1, <2>2 DEF head
<1> QED
  BY <1>2, <1>3

\* A chain and an entry that goes on from it make a chain.
LEMMA ChainGrows ==
  ASSUME NEW list \in Seq(Entry), NEW e \in Entry,
         ChainProblems(list) = {}, Follows(e, list)
  PROVE  ChainProblems(Append(list, e)) = {}
<1> DEFINE longer == Append(list, e)
<1>1. /\ longer \in Seq(Entry) /\ Len(list) \in Nat
      /\ Len(longer) = Len(list) + 1
      /\ longer[Len(list) + 1] = e
      /\ \A i \in 1 .. Len(list) : longer[i] = list[i]
  OBVIOUS
<1> SUFFICES ASSUME NEW i \in 1 .. Len(longer)
             PROVE  /\ longer[i].seq = i - 1
                    /\ longer[i].previous = head(SubSeq(longer, 1, i - 1))
  BY DEF ChainProblems
<1>2. head(SubSeq(longer, 1, i - 1)) = IF i = 1 THEN GENESIS ELSE longer[i - 1].id
  BY <1>1, Linked
<1>3. CASE i \in 1 .. Len(list)
  <2>1. list[i].seq = i - 1 /\ list[i].previous = head(SubSeq(list, 1, i - 1))
    BY <1>3 DEF ChainProblems
  <2>2. head(SubSeq(list, 1, i - 1)) = IF i = 1 THEN GENESIS ELSE list[i - 1].id
    BY <1>3, Linked
  <2>3. i # 1 => longer[i - 1] = list[i - 1]
    BY <1>1, <1>3
  <2> QED
    BY <1>1, <1>2, <1>3, <2>1, <2>2, <2>3
<1>4. CASE i = Len(list) + 1
  <2>1. e.seq = Len(list) /\ e.previous = head(list)
    BY DEF Follows
  <2>2. CASE list = <<>>
    BY <1>1, <1>2, <1>4, <2>1, <2>2 DEF head
  <2>3. CASE list # <<>>
    <3>1. Len(list) \in 1 .. Len(list)
      BY <2>3
    <3> QED
      BY <1>1, <1>2, <1>4, <2>1, <2>3, <3>1 DEF head
  <2> QED
    BY <2>2, <2>3
<1> QED
  BY <1>1, <1>3, <1>4

\* A file with nothing torn is a list of entries.
LEMMA WholeFile ==
  ASSUME NEW file \in Seq(Entry \cup {Torn}), LoadErrors(file) = {}
  PROVE  file \in Seq(Entry) /\ Loaded(file) = file
<1>1. \A i \in 1 .. Len(file) : file[i] \in Entry
  BY DEF LoadErrors
<1>2. file \in Seq(Entry)
  BY <1>1
<1> QED
  BY <1>2, LoadedWhole

\* The entry of a call, put whole on a file in step, leaves a file in step.
LEMMA PutInStep ==
  ASSUME TypeOK, InStep, NEW e \in Entry, NEW extent \in Extent, Put(e, extent),
         extent # "nothing", orderly, LoadErrors(lines') = {},
         LoadErrors(lines) = {} => Follows(e, lines)
  PROVE  /\ LoadErrors(lines) = {}
         /\ lines' = Append(lines, e)
         /\ ChainProblems(lines') = {}
         /\ \A c \in witnessed : Answerable(c)'
<1>0. Len(lines) \in Nat /\ lines \in Seq(Entry \cup {Torn})
  BY DEF TypeOK
<1>1. ~open
  <2> SUFFICES ASSUME open PROVE FALSE
    OBVIOUS
  <2>1. /\ Len(lines) \in 1 .. Len(lines) /\ Len(lines') = Len(lines)
        /\ lines'[Len(lines)] = Torn
    BY PutType
  <2> QED
    BY <2>1 DEF LoadErrors
<1>2. lines' = Append(lines, IF extent = "part" THEN Torn ELSE e)
  BY <1>1, PutType
<1>3. extent # "part"
  <2> SUFFICES ASSUME extent = "part" PROVE FALSE
    OBVIOUS
  <2>1. lines' = Append(lines, Torn)
    BY <1>2
  <2>2. Len(lines') = Len(lines) + 1 /\ lines'[Len(lines) + 1] = Torn
    BY <1>0, <2>1
  <2> QED
    BY <1>0, <2>2 DEF LoadErrors
<1>4. lines' = Append(lines, e)
  BY <1>2, <1>3
<1>5. /\ Len(lines') = Len(lines) + 1
      /\ \A i \in 1 .. Len(lines) : lines'[i] = lines[i]
  BY <1>0, <1>4
<1>6. LoadErrors(lines) = {}
  <2> SUFFICES ASSUME NEW i \in 1 .. Len(lines), lines[i] = Torn PROVE FALSE
    BY DEF LoadErrors
  <2>1. i \in 1 .. Len(lines') /\ lines'[i] = Torn
    BY <1>0, <1>5
  <2> QED
    BY <2>1 DEF LoadErrors
<1>7. lines \in Seq(Entry) /\ ChainProblems(lines) = {}
  BY <1>0, <1>6, WholeFile DEF InStep
<1>8. ChainProblems(lines') = {}
  BY <1>4, <1>6, <1>7, ChainGrows
<1>9. \A c \in witnessed : Answerable(c)'
  <2> TAKE c \in witnessed
  <2>1. Answerable(c) /\ c.entries \in Nat
    BY <1>6 DEF InStep, TypeOK, Checkpoint
  <2> SUFFICES ASSUME c.entries > 0
               PROVE  c.entries <= Len(lines') /\ lines'[c.entries].id = c.head
    BY DEF Answerable
  <2>2. c.entries \in 1 .. Len(lines) /\ lines[c.entries].id = c.head
    BY <1>0, <2>1 DEF Answerable
  <2> QED
    BY <1>0, <1>5, <2>2
<1> QED
  BY <1>4, <1>6, <1>8, <1>9
LEMMA InStepInitially == Init => InStep
<1> SUFFICES ASSUME Init PROVE InStep
  OBVIOUS
<1>1. /\ entries = <<>> /\ lines = <<>> /\ witnessed = {}
      /\ \A w \in Worker : ~Busy(w)
  BY DEF Init, Busy
<1>2. ChainProblems(lines) = {}
  BY <1>1 DEF ChainProblems
<1> QED
  BY <1>1, <1>2 DEF InStep

LEMMA InStepStep == TypeOK /\ InStep /\ [Next]_vars => InStep'
<1> SUFFICES ASSUME TypeOK, InStep, [Next]_vars, orderly', LoadErrors(lines)' = {}
             PROVE  InStep'
  BY DEF InStep
<1>a. orderly /\ LoadErrors(lines') = {}
  BY DEF Next, Build, Extend, Persist, PersistFails, CrashInWrite,
         CrashBetweenWrites, Restart, TakeCheckpoint, vars
<1>b. Quiet <=> \A w \in Worker : ~Busy(w)
  BY DEF Quiet, Busy
<1>1. ASSUME NEW w \in Worker, Build(w) PROVE InStep'
  <2>1. lines' = lines /\ entries' = entries /\ witnessed' = witnessed /\ Quiet
    BY <1>1 DEF Build
  <2>2. entries = lines /\ ChainProblems(lines) = {}
        /\ \A c \in witnessed : Answerable(c)
    BY <1>a, <2>1 DEF InStep
  <2>3. call' = [call EXCEPT ![w] =
                   [at |-> "built", entry |-> NewEntry(entries, made + 1)]]
    BY <1>1 DEF Build
  <2>4. \A v \in Worker : Busy(v)' => v = w
    BY <1>b, <2>1, <2>3 DEF Busy, TypeOK
  <2>5. Busy(w)' /\ call'[w].at = "built" /\ Follows(call'[w].entry, lines)
    BY <2>2, <2>3 DEF TypeOK, Busy, Idle, Follows, NewEntry
  <2>6. ~Quiet'
    BY <2>5 DEF Quiet, Busy
  <2> QED
    BY <2>1, <2>2, <2>4, <2>5, <2>6 DEF InStep, Follows, Answerable
<1>2. ASSUME NEW w \in Worker, Extend(w) PROVE InStep'
  <2> DEFINE e == call[w].entry
  <2>1. lines' = lines /\ witnessed' = witnessed /\ entries' = Append(entries, e)
    BY <1>2 DEF Extend
  <2>2. Busy(w) /\ call[w].at = "built"
    BY <1>2, CallType DEF Extend
  <2>3. /\ entries = lines /\ Follows(e, lines) /\ ChainProblems(lines) = {}
        /\ \A c \in witnessed : Answerable(c)
        /\ \A v \in Worker : Busy(v) => v = w
    BY <1>a, <2>1, <2>2 DEF InStep
  <2>4. call[w] \in [at: {"built", "listed"}, entry: Entry]
    BY <2>2, CallType
  <2>5. call'[w].at = "listed" /\ call'[w].entry = e
    BY <1>2, <2>4 DEF Extend, TypeOK
  <2>6. \A v \in Worker : Busy(v)' => v = w
    BY <1>2, <2>3 DEF Extend, Busy, TypeOK
  <2>7. Busy(w)' /\ ~Quiet'
    BY <2>5 DEF Quiet, Busy, Idle
  <2> QED
    BY <2>1, <2>3, <2>5, <2>6, <2>7 DEF InStep, Follows, Answerable
<1>3. ASSUME NEW w \in Worker, Persist(w) PROVE InStep'
  <2> DEFINE e == call[w].entry
  <2>1. /\ Busy(w) /\ call[w].at = "listed" /\ e \in Entry
        /\ Put(e, "line") /\ "line" \in Extent
    BY <1>3, CallType DEF Persist, Extent
  <2>2. /\ LoadErrors(lines) = {}
        /\ lines' = Append(lines, e)
        /\ ChainProblems(lines') = {}
        /\ \A c \in witnessed : Answerable(c)'
    BY <1>a, <2>1, PutInStep DEF InStep
  <2>3. entries' = entries /\ witnessed' = witnessed
    BY <1>3 DEF Persist
  <2>4. entries = Append(lines, e) /\ \A v \in Worker : Busy(v) => v = w
    BY <1>a, <2>1, <2>2 DEF InStep
  <2>5. \A v \in Worker : ~Busy(v)'
    BY <1>3, <2>4 DEF Persist, Busy, TypeOK
  <2> QED
    BY <2>2, <2>3, <2>4, <2>5 DEF InStep
<1>4. ASSUME NEW w \in Worker, NEW extent \in Extent, PersistFails(w, extent)
      PROVE  FALSE
  BY <1>4 DEF PersistFails
<1>5. ASSUME NEW w \in Worker, NEW extent \in Extent \ {"nothing"},
             CrashInWrite(w, extent)
      PROVE  InStep'
  <2> DEFINE e == call[w].entry
  <2>1. /\ Busy(w) /\ e \in Entry /\ Put(e, extent) /\ Restart
    BY <1>5, CallType DEF CrashInWrite
  <2>2. /\ ChainProblems(lines') = {}
        /\ \A c \in witnessed : Answerable(c)'
    BY <1>a, <2>1, PutInStep DEF InStep
  <2>3. Loaded(lines') = lines'
    BY <1>a, WholeFile, TypeStep DEF TypeOK
  <2>4. entries' = lines' /\ witnessed' = witnessed
    BY <2>1, <2>3 DEF Restart
  <2>5. \A v \in Worker : ~Busy(v)'
    BY <2>1 DEF Restart, Busy
  <2> QED
    BY <2>2, <2>4, <2>5 DEF InStep
<1>6. ASSUME CrashBetweenWrites PROVE InStep'
  <2>1. lines' = lines /\ Restart
    BY <1>6 DEF CrashBetweenWrites
  <2>2. entries' = lines /\ witnessed' = witnessed
    BY <1>a, <2>1, WholeFile DEF Restart, TypeOK
  <2>3. \A v \in Worker : ~Busy(v)'
    BY <2>1 DEF Restart, Busy
  <2> QED
    BY <1>a, <2>1, <2>2, <2>3 DEF InStep, Answerable
<1>7. ASSUME TakeCheckpoint PROVE InStep'
  <2>1. /\ UNCHANGED <<entries, lines, call>> /\ Quiet
        /\ witnessed' = witnessed \cup {[head |-> head(entries), entries |-> Len(entries)]}
    BY <1>7 DEF TakeCheckpoint
  <2>2. entries = lines /\ ChainProblems(lines) = {}
        /\ \A c \in witnessed : Answerable(c)
    BY <1>a, <2>1 DEF InStep
  <2>3. Answerable([head |-> head(lines), entries |-> Len(lines)])
    <3>1. Len(lines) \in Nat
      BY DEF TypeOK
    <3> QED
      BY <3>1 DEF Answerable, head
  <2>4. \A v \in Worker : ~Busy(v)'
    BY <1>b, <2>1 DEF Busy
  <2> QED
    BY <2>1, <2>2, <2>3, <2>4 DEF InStep, Answerable
<1>8. ASSUME UNCHANGED vars PROVE InStep'
  BY <1>8 DEF vars, InStep, Answerable, Follows, Quiet, Busy
<1> QED
  BY <1>1, <1>2, <1>3, <1>4, <1>5, <1>6, <1>7, <1>8 DEF Next

LEMMA InStepIsEnough ==
  TypeOK /\ InStep => NoFalseAlarm /\ WitnessedHeadIsKept
<1> SUFFICES ASSUME TypeOK, InStep, orderly, LoadErrors(lines) = {}
             PROVE  /\ ChainProblems(Loaded(lines)) = {}
                    /\ \A c \in witnessed : Answerable(c)
  BY DEF NoFalseAlarm, WitnessedHeadIsKept, Answerable
<1> QED
  BY WholeFile DEF InStep, TypeOK

\* verify_chain raises no false alarm: while nothing was torn, and no append
\* overlapped another or failed, the chain holds, however often the process
\* died in between.
THEOREM TheChainHolds == Spec => []NoFalseAlarm
BY InStepIsEnough, TypeInitially, TypeStep, InStepInitially, InStepStep, PTL DEF Spec

\* Under the same conditions the head of every checkpoint that was exported
\* is still the digest of that entry of the file.
THEOREM ACheckpointIsKept == Spec => []WitnessedHeadIsKept
BY InStepIsEnough, TypeInitially, TypeStep, InStepInitially, InStepStep, PTL DEF Spec
=============================================================================
