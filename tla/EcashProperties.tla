-------------------------- MODULE EcashProperties --------------------------
(***************************************************************************)
(* What the money path of module Ecash is meant to guarantee.              *)
(***************************************************************************)
EXTENDS Ecash

Batches == [ins : SUBSET Proofs, ks : Keysets, first : Nat, n : Nat]

Tables ==
    [version       : Nat,
     expires       : Nat,
     locked        : SUBSET Proofs,
     pubkeyVersion : [Proofs -> Nat],
     redeemed      : SUBSET Proofs,
     counter       : [Keysets -> Nat \cup {NoRow}],
     swapped       : SUBSET Batches]

Wallets ==
    [key : Nat, version : Nat, expires : Nat, filter : SUBSET Proofs,
     trusted : SUBSET Mints]

RequestStates ==
    [pc    : {"idle", "lookup", "begin", "verify", "store", "serve", "rollback"},
     token : Seq(Proofs)]

RotatorStates ==
    [pc     : {"sleep", "mints", "swap", "rotate", "commit", "abort"},
     todo   : SUBSET Mints,
     keyset : SUBSET Keysets,
     before : Nat \X Nat]

MintStates ==
    [active  : [Mints -> Keysets],
     retired : SUBSET Keysets,
     spent   : SUBSET Proofs,
     signed  : SUBSET Batches]

\* The type invariant.  Counters and versions are never negative: a keyset
\* without a counter row is read as counter 0 (crons.go:275).
TypeOK ==
    /\ up \in BOOLEAN
    /\ now \in Nat
    /\ faults \in Nat
    /\ db \in Tables
    /\ tx \in Tables
    /\ conn \in {Free, Rotator, Leaked} \cup Requests
    /\ wallet \in Wallets
    /\ req \in [Requests -> RequestStates]
    /\ rot \in RotatorStates
    /\ lock \in [Proofs -> Nat \cup {NoKey}]
    /\ mint \in MintStates

Held(d) == d.locked \ d.redeemed

-----------------------------------------------------------------------------
(* Payments *)

\* The version stored with a proof is the one whose key the proof is locked to,
\* so SwapProofs (backend.go:430) signs every input with the right key.
\* VerifyToken and StoreEcash read PubkeyVersion in two steps and the rotator
\* writes it: only the single connection keeps it from writing in between.
SignableRows ==
    \A d \in {db, tx} : \A p \in d.locked : d.pubkeyVersion[p] = lock[p]

\* No proof the server still holds passes VerifyToken in the spelling of its row:
\* the filter that is asked first knows every unredeemed row, those of earlier runs
\* of the process included (backend.go:105-124, 359).  What else a token lists,
\* and how that is spelled, does not help.
SeenIsRefused ==
    [][\A r \in Requests : \A respelled \in SUBSET DOMAIN req[r].token :
         (req'[r].pc = "store" /\ VerifySpelled(r, respelled)) =>
             \A i \in DOMAIN req[r].token \ respelled :
                 req[r].token[i] \notin Held(tx)]_vars

\* A request whose transaction stores proofs was paid in full by proofs that
\* never paid before, by what they claim to be worth: a proof listed twice in a
\* token does not count twice, nor does a held one that is spelled anew, although
\* VerifyToken lets both pass (backend.go:211, and the UNIQUE columns).
PaidInFull ==
    [][\A r \in Requests :
         (conn = r /\ db' # db) => Value(db'.locked \ db.locked) >= Price[r]]_vars

\* While the process runs, the key that requests are checked against is replaced
\* only when the last minute before its expiration has begun (main.go:129-130),
\* so the key a payer was quoted holds until then.
QuoteHoldsUntilDue ==
    [][(up /\ up' /\ <<wallet.key, wallet.version>>' # <<wallet.key, wallet.version>>)
         => now + Margin > wallet.expires]_vars

-----------------------------------------------------------------------------
(* The inductive invariants behind the properties of payments *)

\* One goroutine at a time is inside a transaction, none when the process is down.
Exclusive ==
    /\ \A r \in Requests :
         req[r].pc \in {"verify", "store", "serve", "rollback"} => conn = r
    /\ rot.pc # "sleep" => conn = Rotator
    /\ ~up => conn = Free /\ \A r \in Requests : req[r].pc = "idle"

\* What VerifyToken found out about the keys is still true when StoreEcash runs.
KeysInv ==
    /\ Exclusive
    /\ SignableRows
    /\ \A r \in Requests : req[r].pc = "store" =>
         \A i \in DOMAIN req[r].token : lock[req[r].token[i]] = wallet.version

\* The filter knows every held proof, and every proof about to be stored.
FilterInv ==
    /\ Exclusive
    /\ up => Held(db) \cup Held(tx) \subseteq wallet.filter
    /\ \A r \in Requests :
         req[r].pc = "store" => Range(req[r].token) \subseteq wallet.filter

\* What passed VerifyToken names enough, and what was stored names no proof twice:
\* the primary key refuses such a token.
FullInv ==
    \A r \in Requests :
        /\ req[r].pc \in {"store", "serve"} => TokenAmount(req[r].token) >= Price[r]
        /\ req[r].pc = "serve" => IsInjective(req[r].token)

\* A rotation that began when it was due is still due, and has changed no key
\* until it has only the commit left.
RotationInv ==
    /\ Exclusive
    /\ wallet.key = wallet.version
    /\ rot.pc \in {"mints", "swap", "rotate", "abort"} =>
         /\ now + Margin > wallet.expires
         /\ rot.before = <<wallet.version, wallet.expires>>

-----------------------------------------------------------------------------
(* Swaps *)

\* The proofs marked redeemed are those some stored batch was swapped for, and no
\* proof was swapped for two batches.
Balanced(d) ==
    /\ d.redeemed = UNION {b.ins : b \in d.swapped}
    /\ \A a, b \in d.swapped : a # b => a.ins \cap b.ins = {}

\* Whatever a mint signed is in the tables, or can be asked for again from them.
Recovers(d) ==
    \A b \in mint.signed :
        \/ b \in d.swapped
        \/ b.first = GetKeysetCounter(d, b.ks) /\ b.ins \subseteq Held(d)

\* The books balance at every commit: the proofs marked redeemed are those some
\* stored batch was swapped for, and no proof was swapped for two batches
\* (crons.go:329-382).
SwappedOnce == Balanced(db)

\* No mint ever signs two outputs with the same derived secret, whatever is
\* rolled back or repeated: the second would be worthless (backend.go:390-396).
FreshOutputs ==
    \A a, b \in mint.signed : a # b => ~SharesSecret(a, b)

\* Whatever a mint signed is in the database or can be derived again from it:
\* its secrets start at the committed counter, its inputs are still held
\* ("deterministic secrets for recovery purposes", backend.go:49).
Recoverable == Recovers(db)

-----------------------------------------------------------------------------
(* The inductive invariants behind the properties of swaps *)

\* The secrets of what is stored lie below the counter of their keyset.
Counted(d) ==
    \A b \in d.swapped :
        d.counter[b.ks] # NoRow /\ b.first + b.n <= d.counter[b.ks]

\* A mint signs for its own proofs and spends them, so it signs for none twice.
SignedForInputs ==
    /\ \A m \in Mints : KeysetMint[mint.active[m]] = m
    /\ \A b \in mint.signed :
         /\ b.ins # {}
         /\ b.ins \subseteq mint.spent
         /\ \A p \in b.ins : MintOf[p] = KeysetMint[b.ks]

\* Nothing the rotator has done so far concerns the mints it has still to do: they
\* have held proofs, the committed ones, and their counters read as committed.
TodoIsUntouched ==
    /\ rot.pc \in {"mints", "swap"} =>
         /\ \A m \in rot.todo :
              ProofsToSwap(tx, m) # {} /\ ProofsToSwap(tx, m) = ProofsToSwap(db, m)
         /\ \A k \in Keysets : KeysetMint[k] \in rot.todo =>
              GetKeysetCounter(tx, k) = GetKeysetCounter(db, k)
    /\ rot.pc = "swap" => \A k \in rot.keyset :
         KeysetMint[k] \in rot.todo /\ tx.counter[k] # NoRow

\* Committed tables and open transaction both agree with what the mints signed.
BooksInv ==
    /\ Exclusive
    /\ SignedForInputs
    /\ FreshOutputs
    /\ TodoIsUntouched
    /\ \A d \in {db, tx} : Balanced(d) /\ Recovers(d) /\ Counted(d)

\* The open transaction of a rotation has swapped all held proofs of the mints M.
HasSwapped(M) ==
    /\ tx.locked = db.locked
    /\ tx.version = db.version + (IF rot.pc = "commit" THEN 1 ELSE 0)
    /\ \A m \in M : ProofsToSwap(db, m) # {}
    /\ tx.redeemed = db.redeemed \cup UNION {ProofsToSwap(db, m) : m \in M}
    /\ {b.ins : b \in tx.swapped} =
          {b.ins : b \in db.swapped} \cup {ProofsToSwap(db, m) : m \in M}

\* The open transaction of request r has stored its token, which is new.
HasStored(r) ==
    /\ Range(req[r].token) \cap db.locked = {}
    /\ tx.locked = db.locked \cup Range(req[r].token)
    /\ tx.redeemed = db.redeemed
    /\ tx.version = db.version
    /\ tx.swapped = db.swapped

\* What an open transaction would commit is one step of the abstract ledger.
LedgerInv ==
    /\ BooksInv
    /\ db.redeemed \subseteq db.locked
    /\ \A r \in Requests :
         /\ req[r].pc # "idle" => req[r].token \in Tokens
         /\ req[r].pc \in {"verify", "store"} => tx = db
         /\ req[r].pc = "serve" => HasStored(r)
    /\ rot.pc \in {"mints", "swap", "rotate", "commit"} =>
         \E M \in SUBSET Mints : HasSwapped(M)

-----------------------------------------------------------------------------
(* Liveness *)

\* The rotator acts now and, should the process restart, will act then.
RotationDue == Due /\ now + Margin > db.expires

\* The held proofs of a mint can never be swapped: one of them is forged, or spent,
\* elsewhere or in a rotation that is over, or the fees exceed or equal their value.
Stuck(m) ==
    LET ps == ProofsToSwap(db, m) IN
    /\ rot.pc = "sleep"
    /\ ps # {}
    /\ ps \cap mint.spent # {} \/ CalculateFeesFromProofs(ps) >= Value(ps)

-----------------------------------------------------------------------------
(* What the code does not do *)

\* "FOREIGN KEY (pubkey_version) REFERENCES cashu_pubkey(version)"
\* (4_add_ecash_storage_table.sql:18): the version of a row is that of a key.
VersionsExist ==
    \A p \in db.locked : db.pubkeyVersion[p] \in 1 .. db.version

\* "rotate keys when expiration happens" (main.go:125), as long as the rotator can
\* get the connection.
RotatesOnExpiration == Due ~> ~Due \/ conn = Leaked

\* "if conflict check if C already Exists" (backend.go:358): no token with a proof
\* the server holds passes VerifyToken.
SeenIsNeverVerified ==
    \A r \in Requests :
        req[r].pc = "store" => Range(req[r].token) \cap Held(tx) = {}

-----------------------------------------------------------------------------
(* The abstract ledger this implements *)

StateOf(d, p) ==
    CASE p \in d.redeemed -> "redeemed"
      [] p \in Held(d)    -> "held"
      [] OTHER            -> "new"

L == INSTANCE Ledger WITH
        state   <- [p \in Proofs |-> StateOf(db, p)],
        version <- db.version,
        swaps   <- {b.ins : b \in db.swapped}

\* The committed database only ever changes as module Ledger says.
ImplementsLedger == L!Spec

=============================================================================
