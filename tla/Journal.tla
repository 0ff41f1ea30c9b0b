------------------------------ MODULE Journal -------------------------------
(***************************************************************************)
(* The journal of aagcp.core.journal as a file: Journal.append, _persist,  *)
(* _load, verify_chain and checkpoint.                                     *)
(*                                                                         *)
(* append() builds an entry from the list in memory, extends the list, and *)
(* writes one line; a Worker is a thread in such a call.  A write can fail *)
(* (the call raises and the process goes on) and the process can die while *)
(* it writes; either leaves nothing, part of the text, the text without    *)
(* its newline, or the whole line in the file.  A restart loads the file.  *)
(*                                                                         *)
(* A body is never equal to another (it holds a time), so an id stands for *)
(* the body and for its digest, and nobody edits the file: the third check *)
(* of verify_chain, that a body still has its digest, is left out.  seq and *)
(* previous are read in one step, although a thread can run between them.  *)
(***************************************************************************)
EXTENDS Naturals, Sequences, FiniteSets

CONSTANTS
  Worker,      \* threads that append
  Torn,        \* a line that does not parse
  MaxEntries,  \* no entry is built once this many were
  MaxTears     \* no write is cut short once this many were

ASSUME TornAssumption == Torn \notin [id: Nat, seq: Nat, previous: Nat]

ASSUME BoundAssumption == MaxEntries \in Nat /\ MaxTears \in Nat

VARIABLES
  entries,     \* the list in memory
  lines,       \* the lines of the file
  open,        \* does the last line lack its newline
  call,        \* call[w]: idle, or the entry built or about to be written
  made,        \* how many entries were built
  acked,       \* the entries whose append returned
  tears,       \* how many writes were cut short
  orderly,     \* no append overlapped another call, and no write failed
  witnessed    \* the checkpoints exported

vars == <<entries, lines, open, call, made, acked, tears, orderly, witnessed>>

Entry == [id: Nat, seq: Nat, previous: Nat]

GENESIS == 0

Idle == [at |-> "idle"]

Call == {Idle} \cup [at: {"built", "listed"}, entry: Entry]

Quiet == \A w \in Worker : call[w] = Idle

Checkpoint == [head: Nat, entries: Nat]

----------------------------------------------------------------------------
(* Reading the file, and what verify_chain says of what was read.          *)

\* _load() keeps the lines that parse, in their order, and reports what does
\* not.  (SelectSeq, spelt out: the provers cannot expand it.)
Parses(file) == {i \in 1 .. Len(file) : file[i] # Torn}

Nth(S, n) == CHOOSE i \in S : Cardinality({j \in S : j <= i}) = n

Loaded(file) ==
  [n \in 1 .. Cardinality(Parses(file)) |-> file[Nth(Parses(file), n)]]

FaultLoadErrors(file) == {}
LoadErrors(file) == {i \in 1 .. Len(file) : file[i] = Torn}

head(list) == IF list = <<>> THEN GENESIS ELSE list[Len(list)].id

\* SEQUENCE_NUMBER_OUT_OF_ORDER, CHAIN_LINK_DOES_NOT_MATCH_PREDECESSOR
ChainProblems(list) ==
  {i \in 1 .. Len(list) :
     \/ list[i].seq # i - 1
     \/ list[i].previous # head(SubSeq(list, 1, i - 1))}

----------------------------------------------------------------------------
(* Writing a line.  A fault is what a plausible bug would do instead; no   *)
(* action uses one.                                                        *)

\* How much of an entry's line got into the file.
Extent == {"nothing", "part", "text", "line"}

\* Without the newline the line is open: what is written next lands on it.
Short == {"part", "text"}

\* The line is added at the end of the file: onto the last line if that one
\* has no newline, in which case neither parses.
\* FaultWritten rewrites the whole file, as AttestationLog does.
FaultWritten(file, e, extent) ==
  IF extent = "nothing" THEN <<>>
  ELSE IF extent = "part" THEN <<Torn>>
  ELSE Append(file, e)

Written(file, e, extent) ==
  IF extent = "nothing" THEN file
  ELSE IF open THEN [file EXCEPT ![Len(file)] = Torn]
  ELSE Append(file, IF extent = "part" THEN Torn ELSE e)

\* A write that is still in the buffer when append() returns.
FaultPut(e, extent) == UNCHANGED <<lines, open, tears>>
Put(e, extent) ==
  /\ lines' = Written(lines, e, extent)
  /\ open' = IF extent = "nothing" THEN open ELSE extent \in Short
  /\ tears' = IF extent \in Short THEN tears + 1 ELSE tears

----------------------------------------------------------------------------

Init ==
  /\ entries = <<>>
  /\ lines = <<>>
  /\ open = FALSE
  /\ call = [w \in Worker |-> Idle]
  /\ made = 0
  /\ acked = {}
  /\ tears = 0
  /\ orderly = TRUE
  /\ witnessed = {}

\* append(): the entry takes its place and its link from the list in memory.
FaultNewEntry(list, n) ==
  [id |-> n, seq |-> Len(list) + 1, previous |-> head(list)]
NewEntry(list, n) == [id |-> n, seq |-> Len(list), previous |-> head(list)]

Build(w) ==
  /\ call[w] = Idle
  /\ made < MaxEntries
  /\ made' = made + 1
  /\ call' = [call EXCEPT ![w] =
                [at |-> "built", entry |-> NewEntry(entries, made + 1)]]
  /\ orderly' = (orderly /\ Quiet)
  /\ UNCHANGED <<entries, lines, open, acked, tears, witnessed>>

\* The list is extended before the line is written.
Extend(w) ==
  /\ call[w].at = "built"
  /\ entries' = Append(entries, call[w].entry)
  /\ call' = [call EXCEPT ![w].at = "listed"]
  /\ UNCHANGED <<lines, open, made, acked, tears, orderly, witnessed>>

\* The line is written, flushed and synced, and append() returns.
Persist(w) ==
  /\ call[w].at = "listed"
  /\ Put(call[w].entry, "line")
  /\ acked' = acked \cup {call[w].entry}
  /\ call' = [call EXCEPT ![w] = Idle]
  /\ UNCHANGED <<entries, made, orderly, witnessed>>

\* The write or the sync raises: append() raises, and the process goes on
\* with the entry in its list.
PersistFails(w, extent) ==
  /\ call[w].at = "listed"
  /\ extent \in Short => tears < MaxTears
  /\ Put(call[w].entry, extent)
  /\ call' = [call EXCEPT ![w] = Idle]
  /\ orderly' = FALSE
  /\ UNCHANGED <<entries, made, acked, witnessed>>

\* The process dies and the file is opened again.  At most one call was in
\* the middle of its write.
Restart ==
  /\ entries' = Loaded(lines')
  /\ call' = [w \in Worker |-> Idle]
  /\ UNCHANGED <<made, acked, orderly, witnessed>>

CrashBetweenWrites ==
  /\ UNCHANGED <<lines, open, tears>>
  /\ Restart

CrashInWrite(w, extent) ==
  /\ call[w].at = "listed"
  /\ extent \in Short => tears < MaxTears
  /\ Put(call[w].entry, extent)
  /\ Restart

\* checkpoint(): exported to a witness, from whatever is in memory.
TakeCheckpoint ==
  /\ witnessed' = witnessed \cup {[head |-> head(entries),
                                   entries |-> Len(entries)]}
  /\ orderly' = (orderly /\ Quiet)
  /\ UNCHANGED <<entries, lines, open, call, made, acked, tears>>

Next ==
  \/ \E w \in Worker :
       \/ Build(w)
       \/ Extend(w)
       \/ Persist(w)
       \/ \E extent \in Extent : PersistFails(w, extent)
       \/ \E extent \in Extent \ {"nothing"} : CrashInWrite(w, extent)
  \/ CrashBetweenWrites
  \/ TakeCheckpoint

Spec == Init /\ [][Next]_vars

----------------------------------------------------------------------------
(* What the file is worth to whoever opens it: at any moment, the process  *)
(* may be killed and verify_chain asked about what is then loaded.         *)

\* Every variable has its type, and an open line is there to write on.
TypeOK ==
  /\ entries \in Seq(Entry)
  /\ lines \in Seq(Entry \cup {Torn})
  /\ open \in BOOLEAN
  /\ open => lines # <<>>
  /\ call \in [Worker -> Call]
  /\ made \in Nat
  /\ acked \subseteq Entry
  /\ tears \in Nat
  /\ orderly \in BOOLEAN
  /\ witnessed \subseteq Checkpoint

OnFile(e) == \E i \in 1 .. Len(lines) : lines[i] = e

\* "detected and reported rather than silently dropped" (journal.py:38): if
\* _load reports nothing, every entry whose append() returned is there,
\* however many threads, failed writes and crashes there were.
LossIsReported == LoadErrors(lines) = {} => \A e \in acked : OnFile(e)

\* What a torn write can cost: itself and at most one entry that append()
\* had acknowledged (the next one, which is written onto it).
TearsBoundLosses == Cardinality({e \in acked : ~OnFile(e)}) <= tears

\* verify_chain raises no false alarm: as long as nothing was torn, and no
\* append overlapped another or failed, the chain holds, crashes included.
NoFalseAlarm ==
  orderly /\ LoadErrors(lines) = {} => ChainProblems(Loaded(lines)) = {}

\* A checkpoint a witness holds can be answered: under the same conditions
\* its head is still the digest of that entry of the file.
WitnessedHeadIsKept ==
  orderly /\ LoadErrors(lines) = {} =>
    \A c \in witnessed :
      c.entries > 0 =>
        /\ c.entries <= Len(lines)
        /\ lines[c.entries].id = c.head

\* "a crash costs at most a partial final line" (journal.py:37): with one
\* append at a time and no failed write, whatever crashes there were, no
\* entry that append() acknowledged is lost.  False: the line a crash cut short
\* has no newline, and the next entry is written onto it.
AcknowledgedIsDurable == orderly => \A e \in acked : OnFile(e)
=============================================================================
