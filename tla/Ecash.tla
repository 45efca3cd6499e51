------------------------------- MODULE Ecash --------------------------------
(***************************************************************************)
(* Ratasker's money path: requests pay with ecash locked to the server's   *)
(* current key, and a background goroutine (the rotator) swaps what was    *)
(* paid for fresh ecash at the mint and replaces the key.                  *)
(*                                                                         *)
(* Requests and rotator share one sqlite connection (SetMaxOpenConns(1)),  *)
(* the in-memory wallet, and nothing else: there is no lock in the program *)
(* but the transaction itself.  The model keeps the steps between which    *)
(* another goroutine, the mint, or a crash can act.                        *)
(*                                                                         *)
(* External to the repository: the mint, and the payers.                   *)
(***************************************************************************)
EXTENDS Sqlite, Sequences

CONSTANTS
    Requests,   \* concurrent paid requests (GET /:sha and PUT /upload)
    Amount,     \* the amount a proof claims
    FeePpk,     \* the input fee of a proof's keyset, in sat per thousand inputs
    Price,      \* the amount each request has to pay
    BadProofs,  \* proofs that may be forged, or spent elsewhere
    Width,      \* bits of the uint64 amounts
    Lifetime,   \* ExpirationOfPubkeyMin
    Margin,     \* the rotator acts this long before the expiration
    MaxToken,   \* bound: proofs in a token
    MaxTime,    \* bound: last value of the clock
    MaxFaults,  \* bound: faults of a behaviour
    Faults      \* the kinds of fault considered

ASSUME EcashAssumption ==
    /\ Amount \in [Proofs -> Nat]
    /\ FeePpk \in [Proofs -> Nat]
    /\ BadProofs \subseteq Proofs
    /\ Price \in [Requests -> Nat]
    /\ {Lifetime, Margin, MaxToken, MaxTime, MaxFaults} \subseteq Nat
    /\ Width \in Nat
    /\ Faults \subseteq {"crash", "commit", "mint", "answer"}

Free == "free"        \* nobody has the connection
Rotator == "rotator"  \* the rotator has it
Leaked == "leaked"    \* nobody will ever return it
NoKey == -1           \* a proof its payer has not locked yet

ASSUME OwnerAssumption == {Free, Rotator, Leaked} \cap Requests = {}

VARIABLES
    up,      \* the process is running
    now,     \* the clock
    faults,  \* faults so far
    db,      \* the committed database
    tx,      \* the database as the open transaction sees it
    conn,    \* who has the connection, hence the open transaction
    wallet,  \* DBNativeWallet (CurrentPubkey, PubkeyVersion, the bloom filter) and
             \* the TRUSTED_MINT of the process
    req,     \* the requests: where each is, and the token it pays with
    rot,     \* the rotator: where it is, and its local variables
    lock,    \* the key version each proof is locked to
    mint     \* the mints: active keysets, inputs they refuse, signed outputs

vars == <<up, now, faults, db, tx, conn, wallet, req, rot, lock, mint>>

-----------------------------------------------------------------------------
(* Amounts and fees *)

Value(ps) == MapThenSumSet(LAMBDA p : Amount[p], ps)

TokenAmount(token) == FoldFunction(+, 0, [i \in DOMAIN token |-> Amount[token[i]]])

CalculateFeesFromProofs(ps) ==
    (MapThenSumSet(LAMBDA p : FeePpk[p], ps) + 999) \div 1000

\* An unsigned subtraction: it wraps when the fees exceed the value.
AmountToAsk(ps) == (Value(ps) - CalculateFeesFromProofs(ps)) % 2^Width

\* cashu.AmountSplit: one output per bit set in the amount.
OutputCount(amount) ==
    Cardinality({i \in 0 .. (Width - 1) : (amount \div 2^i) % 2 = 1})

\* What a swap turns ins into: n outputs, blinded with the secrets derived for
\* the indices of keyset ks from first on.
Batch(ins, k, first) ==
    [ins |-> ins, ks |-> k, first |-> first, n |-> OutputCount(AmountToAsk(ins))]

-----------------------------------------------------------------------------
(* Initial state *)

NoWallet == [key |-> 0, version |-> 0, expires |-> 0, filter |-> {}, trusted |-> {}]
IdleRequest == [pc |-> "idle", token |-> <<>>]
IdleRotator ==
    [pc |-> "sleep", todo |-> {}, keyset |-> {}, before |-> <<0, 0>>]

\* A mint refuses (spent) what it never signed as it does what it has spent.
Init ==
    /\ up = FALSE
    /\ now = 0
    /\ faults = 0
    /\ db = EmptyTables
    /\ tx = EmptyTables
    /\ conn = Free
    /\ wallet = NoWallet
    /\ req = [r \in Requests |-> IdleRequest]
    /\ rot = IdleRotator
    /\ lock = [p \in Proofs |-> NoKey]
    /\ mint \in [active : {a \in [Mints -> Keysets] :
                             \A m \in Mints : KeysetMint[a[m]] = m},
                 retired : {{}}, spent : SUBSET BadProofs, signed : {{}}]

Fault(kind) ==
    /\ kind \in Faults
    /\ faults < MaxFaults
    /\ faults' = faults + 1

\* sql.Tx: Begin takes the one connection, Commit and Rollback give it back.
BeginTransaction(owner) == conn = Free /\ conn' = owner /\ tx' = db
CommitTransaction == conn' = Free /\ db' = tx /\ UNCHANGED tx

\* Mutant: an error path returns without ending its transaction.
LeakTransaction == UNCHANGED <<conn, db, tx>>

RollbackTransaction == conn' = Free /\ tx' = db /\ UNCHANGED db

-----------------------------------------------------------------------------
(* Start and end of the process *)

\* The tables when the wallet is ready.  RotatePubkey runs on the first start.
Started ==
    IF db.version = 0 THEN RotateNewPubkey(db, now + Lifetime) ELSE db

\* On the first start RotatePubkey sets key, version and expiration, and the
\* assignments that follow it overwrite all three with those of the zero
\* CurrentPubkey that the failed query left.  TRUSTED_MINT may change between
\* one start and the next.
NewDBLocalWallet ==
    /\ ~up
    /\ up' = TRUE
    /\ \E m \in Mints :
         wallet' = [key     |-> db.version,
                    version |-> db.version,
                    expires |-> db.expires,
                    filter  |-> GetLockedProofsByRedeemed(db, FALSE),
                    trusted |-> {m}]
    /\ \/ db' = Started /\ UNCHANGED faults
       \/ Fault("commit") /\ UNCHANGED db  \* a failed commit is only logged
    /\ tx' = db'
    /\ UNCHANGED <<now, conn, req, rot, lock, mint>>

\* The process dies, by a signal or by the log.Fatalf of a request whose commit
\* fails: sqlite drops the open transaction, memory and requests are gone.
Crash ==
    /\ up
    /\ Fault("crash")
    /\ up' = FALSE
    /\ RollbackTransaction
    /\ wallet' = NoWallet
    /\ req' = [r \in Requests |-> IdleRequest]
    /\ rot' = IdleRotator
    /\ UNCHANGED <<now, lock, mint>>

Tick ==
    /\ now < MaxTime
    /\ now' = now + 1
    /\ UNCHANGED <<up, faults, db, tx, conn, wallet, req, rot, lock, mint>>

-----------------------------------------------------------------------------
(* Payers *)

\* A payer reads a quote (HEAD, outside any transaction) and locks a proof to the
\* key it names: at its mint, or by making the proof up.
LockToQuote(p) ==
    /\ up
    /\ lock[p] = NoKey
    /\ lock' = [lock EXCEPT ![p] = wallet.key]
    /\ UNCHANGED <<up, now, faults, db, tx, conn, wallet, req, rot, mint>>

\* A token names one mint, which is what the program records for its proofs.
Tokens ==
    {t \in UNION {[1 .. n -> Proofs] : n \in 1 .. MaxToken} :
        \A i, j \in DOMAIN t : MintOf[t[i]] = MintOf[t[j]]}

\* A request arrives; its token may have been sent before, and may hold proofs that
\* no mint will accept.
Send(r, token) ==
    /\ up
    /\ req[r].pc = "idle"
    /\ \A i \in DOMAIN token : lock[token[i]] # NoKey
    /\ req' = [req EXCEPT ![r] = [pc |-> "lookup", token |-> token]]
    /\ UNCHANGED <<up, now, faults, db, tx, conn, wallet, rot, lock, mint>>

-----------------------------------------------------------------------------
(* Requests *)

GoTo(r, pc) == req' = [req EXCEPT ![r].pc = pc]

\* The blob is looked up in a transaction of its own (module BlobServer), which
\* GetBlob leaves open when the hash is unknown.
Lookup(r) ==
    /\ req[r].pc = "lookup"
    /\ \/ conn = Free /\ GoTo(r, "begin") /\ UNCHANGED <<conn, tx>>
       \/ /\ BeginTransaction(Leaked)
          /\ req' = [req EXCEPT ![r] = IdleRequest]
    /\ UNCHANGED <<up, now, faults, db, wallet, rot, lock, mint>>

\* Blocks while another goroutine has the connection.
BeginRequest(r) ==
    /\ req[r].pc = "begin"
    /\ BeginTransaction(r)
    /\ GoTo(r, "verify")
    /\ UNCHANGED <<up, now, faults, db, wallet, rot, lock, mint>>

\* Mutant: a proof locked to an older key of the server passes.
RejectsSeenOnly(token, i, fp, respelled) ==
    /\ token[i] \in wallet.filter \cup fp
    /\ i \notin respelled
    /\ GetLockedProofsByC(tx, token[i]) # {}

\* Index i of the token fails the checks of VerifyToken: it is locked to another
\* key than the current one, or the filter answers "seen" and the row is there.
\* The filter is sure of what it holds and may claim any other proof (fp).  It is
\* asked for the bytes of C, the table for the text: a proof whose C is spelled
\* unlike that of its row (respelled: in the other case, say) finds none.
Rejects(token, i, fp, respelled) ==
    \/ lock[token[i]] # wallet.version
    \/ /\ token[i] \in wallet.filter \cup fp \cup {token[j] : j \in 1 .. (i - 1)}
       /\ i \notin respelled
       /\ GetLockedProofsByC(tx, token[i]) # {}

\* ParseTokenHeader, then VerifyToken: the proofs tested before the first one
\* that fails are in the filter from here on, whatever becomes of the request.
\* No signature is checked, and no mint is asked.
VerifySpelled(r, respelled) ==
    LET token == req[r].token IN
    /\ req[r].pc = "verify"
    /\ \/ /\ TokenAmount(token) < Price[r] \/ MintOf[token[1]] \notin wallet.trusted
          /\ GoTo(r, "rollback")
          /\ UNCHANGED wallet
       \/ /\ TokenAmount(token) >= Price[r]
          /\ MintOf[token[1]] \in wallet.trusted
          /\ \E fp \in SUBSET Range(token) :
               LET passed == {i \in DOMAIN token :
                                \A j \in 1 .. i : ~Rejects(token, j, fp, respelled)}
               IN  /\ wallet' = [wallet EXCEPT !.filter =
                                   @ \cup {token[i] : i \in passed}]
                   /\ GoTo(r, IF passed = DOMAIN token THEN "store" ELSE "rollback")
    /\ UNCHANGED <<up, now, faults, db, tx, conn, rot, lock, mint>>

VerifyToken(r) == \E respelled \in SUBSET DOMAIN req[r].token : VerifySpelled(r, respelled)

StoreEcash(r) ==
    LET token == req[r].token IN
    /\ req[r].pc = "store"
    /\ IF CanAddLockedProofs(tx, token)
       THEN /\ tx' = AddLockedProofs(tx, token, wallet.version)
            /\ GoTo(r, "serve")
       ELSE /\ GoTo(r, "rollback")
            /\ UNCHANGED tx
    /\ UNCHANGED <<up, now, faults, db, conn, wallet, rot, lock, mint>>

\* The blob was written or sent.  (A commit that fails is a Crash.)
CommitRequest(r) ==
    /\ req[r].pc = "serve"
    /\ CommitTransaction
    /\ req' = [req EXCEPT ![r] = IdleRequest]
    /\ UNCHANGED <<up, now, faults, wallet, rot, lock, mint>>

\* The payment was refused, or the blob could not be written, read or sent.
RollbackRequest(r) ==
    /\ req[r].pc \in {"rollback", "serve"}
    /\ RollbackTransaction
    /\ req' = [req EXCEPT ![r] = IdleRequest]
    /\ UNCHANGED <<up, now, faults, wallet, rot, lock, mint>>

-----------------------------------------------------------------------------
(* The rotator *)

\* Mutant: one tick early.
DueOrAlmost == up /\ now + Margin >= wallet.expires

Due == up /\ now + Margin > wallet.expires

BeginRotation ==
    /\ Due
    /\ rot.pc = "sleep"
    /\ BeginTransaction(Rotator)
    /\ rot' = [IdleRotator EXCEPT
                 !.pc = "mints",
                 !.todo = {MintOf[p] : p \in GetLockedProofsByRedeemed(db, FALSE)},
                 !.before = <<wallet.version, wallet.expires>>]
    /\ UNCHANGED <<up, now, faults, db, wallet, req, lock, mint>>

\* One turn of the loop of RotateLockedProofs over the mints, up to the swap
\* request: the active keyset, its counter, the fees.  When the fees eat exactly
\* the value the function returns without looking at the remaining mints.
AskMint(m) ==
    LET k == mint.active[m] IN
    /\ rot.pc = "mints"
    /\ m \in rot.todo
    /\ \/ /\ AmountToAsk(ProofsToSwap(tx, m)) = 0
          /\ rot' = [rot EXCEPT !.pc = "rotate"]
          /\ UNCHANGED tx
       \/ /\ AmountToAsk(ProofsToSwap(tx, m)) # 0
          /\ IF GetKeysetCounter(tx, k) # 0
             THEN /\ rot' = [rot EXCEPT !.pc = "swap", !.keyset = {k}]
                  /\ UNCHANGED tx
             ELSE IF CanSetKeysetCounter(tx, k)
             THEN /\ rot' = [rot EXCEPT !.pc = "swap", !.keyset = {k}]
                  /\ tx' = SetKeysetCounter(tx, k, 0)
             ELSE /\ rot' = [rot EXCEPT !.pc = "abort"]
                  /\ UNCHANGED tx
    /\ UNCHANGED <<up, now, faults, db, conn, wallet, req, lock, mint>>

\* Mutant: the counter is incremented before a secret is derived, not after.
RequestFromNext(k) ==
    Batch(ProofsToSwap(tx, KeysetMint[k]), k, GetKeysetCounter(tx, k) + 1)

\* The batch of the pending swap request.
Request(k) ==
    Batch(ProofsToSwap(tx, KeysetMint[k]), k, GetKeysetCounter(tx, k))

\* What the mint checks: the keyset is active, no input is spent, it balances.
MintAccepts(b) ==
    /\ mint.active[KeysetMint[b.ks]] = b.ks
    /\ b.ins \cap mint.spent = {}
    /\ AmountToAsk(b.ins) + CalculateFeesFromProofs(b.ins) = Value(b.ins)

MintSwaps(b) ==
    mint' = [mint EXCEPT !.spent = @ \cup b.ins, !.signed = @ \cup {b}]

\* The tables after ModifyKeysetCounter, ChangeLockedProofsRedeem, AddProofs.
Swapped(b) ==
    AddProofs(ChangeLockedProofsRedeem(
                  ModifyKeysetCounter(tx, b.ks, b.first + b.n), b.ins), b)

\* The mint swaps, the answer arrives and the rotator books it.
SwapProofs ==
    \E k \in rot.keyset :
        LET b == Request(k) IN
        /\ rot.pc = "swap"
        /\ MintAccepts(b)
        /\ MintSwaps(b)
        /\ IF CanAddProofs(tx, b)
           THEN /\ tx' = Swapped(b)
                /\ rot' = [rot EXCEPT !.pc = "mints", !.keyset = {},
                                      !.todo = @ \ {KeysetMint[k]}]
           ELSE /\ rot' = [rot EXCEPT !.pc = "abort"]
                /\ UNCHANGED tx
        /\ UNCHANGED <<up, now, faults, db, conn, wallet, req, lock>>

\* The mint swaps but the rotator does not book it: the answer is lost, cannot
\* be unblinded, or a statement after it fails.
SwapLost ==
    \E k \in rot.keyset :
        /\ rot.pc = "swap"
        /\ Fault("answer")
        /\ MintAccepts(Request(k))
        /\ MintSwaps(Request(k))
        /\ rot' = [rot EXCEPT !.pc = "abort"]
        /\ UNCHANGED <<up, now, db, tx, conn, wallet, req, lock>>

SwapRefused ==
    \E k \in rot.keyset :
        /\ rot.pc = "swap"
        /\ ~MintAccepts(Request(k))
        /\ rot' = [rot EXCEPT !.pc = "abort"]
        /\ UNCHANGED <<up, now, faults, db, tx, conn, wallet, req, lock, mint>>

\* The mint cannot be reached, or a statement before the swap fails.
MintFails ==
    /\ rot.pc = "swap" \/ (rot.pc = "mints" /\ rot.todo # {})
    /\ Fault("mint")
    /\ rot' = [rot EXCEPT !.pc = "abort"]
    /\ UNCHANGED <<up, now, db, tx, conn, wallet, req, lock, mint>>

\* The new key is in memory, for requests to quote, before it is committed.
RotatePubkey ==
    /\ rot.pc = "rotate" \/ (rot.pc = "mints" /\ rot.todo = {})
    /\ tx' = RotateNewPubkey(tx, now + Lifetime)
    /\ wallet' = [wallet EXCEPT !.key = tx'.version,
                                !.version = tx'.version,
                                !.expires = tx'.expires]
    /\ rot' = [rot EXCEPT !.pc = "commit"]
    /\ UNCHANGED <<up, now, faults, db, conn, req, lock, mint>>

\* A commit that fails is only logged: the wallet keeps the new key.
EndRotation ==
    /\ rot.pc = "commit"
    /\ \/ CommitTransaction /\ UNCHANGED faults
       \/ Fault("commit") /\ RollbackTransaction
    /\ rot' = IdleRotator
    /\ UNCHANGED <<up, now, wallet, req, lock, mint>>

\* The deferred function restores PubkeyVersion, and leaves CurrentPubkey.
AbortRotation ==
    /\ rot.pc = "abort"
    /\ RollbackTransaction
    /\ wallet' = [wallet EXCEPT !.version = rot.before[1],
                                !.expires = rot.before[2]]
    /\ rot' = IdleRotator
    /\ UNCHANGED <<up, now, faults, req, lock, mint>>

-----------------------------------------------------------------------------
(* The mint on its own: it replaces its active keyset, and never goes back. *)

RetireKeyset(m) ==
    /\ \E k \in Keysets \ mint.retired :
         /\ KeysetMint[k] = m
         /\ k # mint.active[m]
         /\ mint' = [mint EXCEPT !.active[m] = k,
                                 !.retired = @ \cup {mint.active[m]}]
    /\ UNCHANGED <<up, now, faults, db, tx, conn, wallet, req, rot, lock>>

-----------------------------------------------------------------------------
(* Specification *)

\* What a request waits for the connection with, and what it does with it.
Wait(r) == Lookup(r) \/ BeginRequest(r)

Work(r) ==
    \/ VerifyToken(r)
    \/ StoreEcash(r)
    \/ CommitRequest(r)
    \/ RollbackRequest(r)

RequestStep(r) == Wait(r) \/ Work(r)

\* What the rotator does while it has the connection.
RotatorStep ==
    \/ \E m \in Mints : AskMint(m)
    \/ SwapProofs
    \/ SwapLost
    \/ SwapRefused
    \/ MintFails
    \/ RotatePubkey
    \/ EndRotation
    \/ AbortRotation

Next ==
    \/ NewDBLocalWallet
    \/ Crash
    \/ Tick
    \/ \E p \in Proofs : LockToQuote(p)
    \/ \E r \in Requests, t \in Tokens : Send(r, t)
    \/ \E r \in Requests : RequestStep(r)
    \/ BeginRotation
    \/ RotatorStep
    \/ \E m \in Mints : RetireKeyset(m)

Spec == Init /\ [][Next]_vars

\* Goroutines run, the service manager restarts the process, time passes, and
\* the pool does not pass over a goroutine that waits for the connection for ever.
Fairness ==
    /\ WF_vars(NewDBLocalWallet)
    /\ WF_vars(Tick)
    /\ \A r \in Requests : SF_vars(Wait(r)) /\ WF_vars(Work(r))
    /\ SF_vars(BeginRotation)
    /\ WF_vars(RotatorStep)

FairSpec == Spec /\ Fairness

=============================================================================
