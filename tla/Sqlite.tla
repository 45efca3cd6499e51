------------------------------- MODULE Sqlite -------------------------------
(***************************************************************************)
(* The ecash tables of the sqlite database (internal/database) and the     *)
(* statements the program runs on them.                                    *)
(*                                                                         *)
(* A database value is a record; a statement is an operator from the value *)
(* before it to the value after it, a statement that can fail comes with   *)
(* the condition under which sqlite accepts it.  A transaction is a        *)
(* working copy of the record that Commit installs (module Ecash).         *)
(*                                                                         *)
(*   version, expires   the active row of cashu_pubkey; version 0 means    *)
(*                      the table is empty.  Rows are never deleted and    *)
(*                      version is an INTEGER PRIMARY KEY, so the table    *)
(*                      holds the versions 1..version                      *)
(*   locked             the proofs with a row in locked_proofs             *)
(*   pubkeyVersion      the pubkey_version column of those rows            *)
(*   redeemed           the rows whose redeemed column is true             *)
(*   counter            counter_table; NoRow where a keyset has no row     *)
(*   swapped            swapped_proofs, as the batches of rows AddProofs   *)
(*                      inserted (module Ecash, Batch)                     *)
(*                                                                         *)
(* A definition whose comment begins with "Mutant" is a wrong version of   *)
(* the one after it, for checking that the properties notice.              *)
(***************************************************************************)
EXTENDS Integers, FiniteSets, FiniteSetsExt

CONSTANTS
    Proofs,     \* ecash proofs a payer may send, each with its own C and secret
    Mints,      \* mint urls
    Keysets,    \* keyset ids of all mints
    MintOf,     \* the mint a proof comes from
    KeysetMint  \* the mint a keyset belongs to

ASSUME SqliteAssumption ==
    /\ IsFiniteSet(Proofs)
    /\ MintOf \in [Proofs -> Mints]
    /\ KeysetMint \in [Keysets -> Mints]

NoRow == -1

\* The tables after the migrations, before the program first ran.
EmptyTables ==
    [version       |-> 0,
     expires       |-> 0,
     locked        |-> {},
     pubkeyVersion |-> [p \in Proofs |-> 0],
     redeemed      |-> {},
     counter       |-> [k \in Keysets |-> NoRow],
     swapped       |-> {}]

-----------------------------------------------------------------------------
(* locked_proofs *)

\* Mutant: INSERT OR IGNORE lets a token repeat a proof.
CanAddWithRepeats(d, token) == Range(token) \cap d.locked = {}

\* secret and C are UNIQUE: the inserts of a token go through when its proofs
\* are distinct and none of them has a row.
CanAddLockedProofs(d, token) ==
    /\ IsInjective(token)
    /\ Range(token) \cap d.locked = {}

AddLockedProofs(d, token, version) ==
    [d EXCEPT !.locked = @ \cup Range(token),
              !.pubkeyVersion = [p \in Proofs |->
                                   IF p \in Range(token) THEN version ELSE @[p]]]

GetLockedProofsByC(d, p) == d.locked \cap {p}

\* Mutant: the column is compared the wrong way round.
GetByRedeemedInverted(d, redeemed) ==
    IF redeemed THEN d.locked \ d.redeemed ELSE d.redeemed

GetLockedProofsByRedeemed(d, redeemed) ==
    IF redeemed THEN d.redeemed ELSE d.locked \ d.redeemed

\* The unredeemed rows of one mint: an entry of the map the query returns.
ProofsToSwap(d, m) == {p \in GetLockedProofsByRedeemed(d, FALSE) : MintOf[p] = m}

\* Mutant: the WHERE clause matches no row.
ChangeNoneRedeemed(d, ps) == d

ChangeLockedProofsRedeem(d, ps) == [d EXCEPT !.redeemed = @ \cup (ps \cap d.locked)]

-----------------------------------------------------------------------------
(* cashu_pubkey *)

\* Mutant: the active row gets a new expiration instead of a successor.
ExtendPubkey(d, expiration) == [d EXCEPT !.expires = expiration]

\* Deactivates every row and inserts an active one: version is max(rowid) + 1.
RotateNewPubkey(d, expiration) ==
    [d EXCEPT !.version = @ + 1, !.expires = expiration]

-----------------------------------------------------------------------------
(* counter_table *)

\* Mutant: the missing row is not noticed.
GetKeysetCounterUnchecked(d, k) == d.counter[k]

\* Without a row the query fails with sql.ErrNoRows and the caller starts at 0.
GetKeysetCounter(d, k) == IF d.counter[k] = NoRow THEN 0 ELSE d.counter[k]

\* An INSERT on a PRIMARY KEY.
CanSetKeysetCounter(d, k) == d.counter[k] = NoRow

SetKeysetCounter(d, k, c) == [d EXCEPT !.counter[k] = c]

\* Mutant: the last index used is written, not the next one.
SaveLastIndex(d, k, c) ==
    IF d.counter[k] = NoRow THEN d ELSE [d EXCEPT !.counter[k] = c - 1]

\* An UPDATE: without a row it changes nothing.
ModifyKeysetCounter(d, k, c) ==
    IF d.counter[k] = NoRow THEN d ELSE [d EXCEPT !.counter[k] = c]

-----------------------------------------------------------------------------
(* swapped_proofs *)

\* The secrets of a batch are those derived for the indices first .. first+n-1.
Indices(b) == b.first .. (b.first + b.n - 1)

SharesSecret(a, b) == a.ks = b.ks /\ Indices(a) \cap Indices(b) # {}

\* secret is UNIQUE here too.
CanAddProofs(d, batch) == \A b \in d.swapped : ~SharesSecret(b, batch)

AddProofs(d, batch) == [d EXCEPT !.swapped = @ \cup {batch}]

=============================================================================
