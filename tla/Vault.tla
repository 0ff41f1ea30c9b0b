-------------------------------- MODULE Vault -------------------------------
(***************************************************************************)
(* The pseudonym vault: aagcp.vault.PseudonymVault over one file.          *)
(*                                                                         *)
(* A token is a keyed digest of a normalised value, so it stands for one   *)
(* value and is identified with it here; the secret is configured and      *)
(* outlives the process.  An identity is named by one of its values.  The  *)
(* vault knows its tokens in memory; only shredding and rectifying, and a  *)
(* caller that asks for it, write the file.  One process uses the file.    *)
(***************************************************************************)
CONSTANTS
  Value,     \* normalised identifier values
  Nameable   \* the values that are registered in clear, as display names

ASSUME NameableAssumption == Nameable \subseteq Value

VARIABLES
  book,   \* the vault's four tables, in memory
  file,   \* the tables as the file has them; meaningless if torn
  torn,   \* the file was being rewritten when the process died
  up      \* a process has the vault loaded

vaultVars == <<book, file, torn, up>>

\* _store, with the owners apart and the tokens whose value was corrected;
\* _identities; _idnames; _shredded.
Book ==
  [live: SUBSET Value, fixed: SUBSET Value, owners: [Value -> SUBSET Value],
   held: [Value -> SUBSET Value], names: [Value -> SUBSET Nameable],
   shredded: SUBSET Value]

Empty ==
  [live |-> {}, fixed |-> {}, owners |-> [t \in Value |-> {}],
   held |-> [i \in Value |-> {}], names |-> [i \in Value |-> {}],
   shredded |-> {}]

----------------------------------------------------------------------------
(* The tables after a call.                                                *)

\* token_for() of each value of T for one owner, under the display names N;
\* an erased value keeps its token and is not registered again.
TokensFor(b, T, i, N) ==
  LET fresh == T \ b.shredded
  IN [live     |-> b.live \cup fresh,
      fixed    |-> b.fixed,
      owners   |-> [t \in Value |-> IF t \in fresh THEN b.owners[t] \cup {i}
                                    ELSE b.owners[t]],
      held     |-> [b.held EXCEPT ![i] = @ \cup fresh],
      names    |-> IF fresh = {} THEN b.names ELSE [b.names EXCEPT ![i] = @ \cup N],
      shredded |-> b.shredded]

\* One record's values, under one identity; the migrator then adds the display
\* names of the record to _idnames itself, erased or not.
FaultRegistered(b, T, i, N) == TokensFor(b, T, i, N)
Registered(b, T, i, N) == [TokensFor(b, T, i, N) EXCEPT !.names[i] = @ \cup N]

\* token_for() of each value of T without an owner.
Unowned(b, T) == [b EXCEPT !.live = @ \cup (T \ b.shredded)]

\* The tokens that go when i goes: nobody else owns them.
FaultLeftOver(b, i) == {t \in b.held[i] \cap b.live : b.owners[t] = {}}
FaultDestroyed(b, i) == b.held[i] \cap b.live
Destroyed(b, i) == {t \in b.held[i] \cap b.live : b.owners[t] \ {i} = {}}

\* crypto_shred_identity(): i disowns its tokens; those left without an owner
\* are deleted and remembered as erased.
FaultShredded(b, i) ==
  LET dead == Destroyed(b, i)
  IN [b EXCEPT
        !.live = @ \ dead, !.fixed = @ \ dead, !.shredded = @ \cup dead,
        !.owners = [t \in Value |-> IF t \in dead THEN {} ELSE @[t]],
        !.held[i] = {}, !.names[i] = {}]
Shredded(b, i) ==
  LET dead == Destroyed(b, i)
  IN [live     |-> b.live \ dead,
      fixed    |-> b.fixed \ dead,
      owners   |-> [t \in Value |-> IF t \in b.held[i] \cap b.live
                                    THEN b.owners[t] \ {i} ELSE b.owners[t]],
      held     |-> [b.held EXCEPT ![i] = {}],
      names    |-> [b.names EXCEPT ![i] = {}],
      shredded |-> b.shredded \cup dead]

\* rectify(): the value of the token changes, the token does not.
Rectified(b, t) == [b EXCEPT !.fixed = @ \cup ({t} \cap b.live)]

\* rehydrate() for a caller who may see everything.
Rehydrate(b, t) ==
  IF t \in b.shredded THEN "erased" ELSE IF t \in b.live THEN "value" ELSE "token"

\* resolve_identities_by_name(), exact match.
ResolveByName(b, n) == {i \in Value : n \in b.names[i]}

----------------------------------------------------------------------------

VaultInit ==
  /\ book = Empty
  /\ file = Empty
  /\ torn = FALSE
  /\ up = TRUE

\* A step that ends in save(), which truncates the file and writes it again.
FaultSaving(b) == book' = b /\ UNCHANGED <<file, torn, up>>
Saving(b) ==
  \/ book' = b /\ file' = b /\ UNCHANGED <<torn, up>>
  \/ book' = b /\ torn' = TRUE /\ up' = FALSE /\ UNCHANGED file

Keeping(b) == book' = b /\ UNCHANGED <<file, torn, up>>

Register(T, i, N) == up /\ Keeping(Registered(book, T, i, N))

Ask(T) == up /\ Keeping(Unowned(book, T))

Shred(i) == up /\ Saving(Shredded(book, i))

\* Nothing is saved if there is no such token.
Rectify(t) == up /\ t \in book.live /\ Saving(Rectified(book, t))

\* The application calls save() when it likes.
Save == up /\ Saving(book)

Crash == up /\ up' = FALSE /\ UNCHANGED <<book, file, torn>>

\* _load(): the file must parse, or the constructor raises.
Restart == ~up /\ ~torn /\ up' = TRUE /\ book' = file /\ UNCHANGED <<file, torn>>

VaultNext ==
  \/ \E T \in SUBSET Value, i \in Value, N \in SUBSET Nameable : Register(T, i, N)
  \/ \E T \in SUBSET Value : Ask(T)
  \/ \E i \in Value : Shred(i)
  \/ \E t \in Value : Rectify(t)
  \/ Save \/ Crash \/ Restart

VaultSpec == VaultInit /\ [][VaultNext]_vaultVars

----------------------------------------------------------------------------

\* The type invariant of the vault.
VaultType ==
  book \in Book /\ file \in Book /\ torn \in BOOLEAN /\ up \in BOOLEAN

\* One table against the other: an identity holds exactly the tokens it owns,
\* owned tokens exist, and none that exists is erased.
Agreed(b) ==
  /\ \A t, i \in Value : i \in b.owners[t] <=> t \in b.held[i]
  /\ \A t \in Value : b.owners[t] # {} => t \in b.live
  /\ b.live \cap b.shredded = {}
  /\ b.fixed \subseteq b.live

\* The owners that decide what an erasure destroys are those that hold the
\* token, in memory and in the file, so after any calls and restarts
\* crypto_shred_identity() deletes what its identity alone owns.
ReferencesAgree == Agreed(book) /\ Agreed(file)

\* No step undoes a legal act: an erased value stays erased and a corrected one
\* corrected, across registrations, a death of the process and the reload of
\* a file that not every registration reached.
LegalActsStand ==
  [][/\ book.shredded \subseteq book'.shredded
     /\ book.fixed \ book'.shredded \subseteq book'.fixed]_vaultVars
=============================================================================
