# A verification of ratasker

Ratasker is a blossom server (a store of blobs addressed by their sha256) that
charges for uploads and downloads with cashu ecash. This directory models the
parts of it where money can be lost or counted twice, model-checks them with
TLC on small instances and proves the central invariants with TLAPS for every
size.

## The system

One Go process, started by systemd (`Restart=on-failure`), with one sqlite file,
one directory of blobs and one file `tokens.txt`.

| part | code | state | operations |
|---|---|---|---|
| ecash tables | `internal/database/sqlite.go`, `migrations/4`, `5` | `locked_proofs`, `cashu_pubkey`, `counter_table`, `swapped_proofs` | one function per statement, on a `sql.Tx` |
| wallet | `internal/cashu/backend.go` | seed, `CurrentPubkey`, `PubkeyVersion`, bloom filter, active keysets (memory only) | start, `RotatePubkey`, `VerifyToken`, `StoreEcash`, `MakeBlindMessages`, `SwapProofs`, fees |
| paid requests | `internal/routes/root.go`, `internal/core/blossom.go` | one transaction each | `GET /:sha`, `PUT /upload`; quotes by `HEAD` |
| rotation | `cmd/ratasker/main.go`, `internal/core/crons.go` | one transaction | every ten seconds: if the key is about to expire, swap the locked proofs at their mints and make a new key |
| payout | `internal/core/crons.go` | `swapped_proofs.spent`, `tokens.txt` | after every rotation attempt, append what is unspent to the file |
| blobs | `internal/io/localfs.go`, `sqlite.go` | files, table `blobs` | write, read, look up |
| quotes | `external/xcashu/types.go`, the `HEAD` routes | none | `QuoteAmountToPay` |
| start-up | `cmd/ratasker/main.go`, `internal/utils/os.go` | home directory, schema, first key | directories, migrations, settings, wallet, rotator, listener, in this order |
| not used | `external/nostr`, `NostrAutMiddleware`, `SendProofsToOwner`, `FindKeysetPubkey` | | no route or goroutine calls them |

How they interact. gin runs every request in a goroutine of its own; the
rotation is one more. They share the wallet, with no lock, and the database,
whose pool is limited to one connection (`SetMaxOpenConns(1)`): beginning a
transaction blocks until nobody else has one. That connection is the only
mutual exclusion in the program. The rotation keeps it while it talks to the
mints. Payers get their proofs locked, by their mint, to the public key a quote
names; only the server can spend them then, by a swap it signs for. The rotation and
the payout that follows it are two transactions of one goroutine. Processes share nothing
but the home directory: an instance started by hand beside the service works on the same
database.

What is hard: requests interleave with rotations over the shared wallet; the
mint commits a swap before the server does, and an answer or a commit can be
lost in between; the process can die at any point; memory and database can
disagree about the key; keysets retire; rotations retry for ever. The list of
hazards in `PROJECT.json` names each at its line.

What makes each part correct:

* payments: a proof pays at most once and for at least the price, and what is
  stored can later be signed for;
* keys: the key a payer was quoted is good until it is due;
* rotation: what is marked redeemed was swapped, once; no derived secret is used
  twice; what a mint signed can be recovered; what is held is redeemed in the end;
* payout: what is marked spent is in the file;
* blobs: who pays is served and who is served pays, and what is sent is what was stored;
* quotes: none; the code does not bind itself to them (see hazard root.go:159);
* all of it together: no ecash is lost between payer and file, every request is answered
  as long as there is a connection;
* start-up: nothing is served half prepared, and failed starts leave work that the next
  one can complete.

## Modules

| module | what it is |
|---|---|
| `Sqlite` | the ecash tables as a record, every statement as an operator on it |
| `Ecash` | wallet, requests, rotation, crashes, mints and payers; EXTENDS `Sqlite` |
| `Ledger` | abstract specification: what the committed tables promise |
| `EcashProperties` | type invariant, properties, inductive invariants, refinement mapping to `Ledger` |
| `EcashProofs` | lemmas about the operators and their sums; type correctness |
| `EcashPaymentProofs`, `EcashBooksProofs`, `EcashLedgerProofs` | theorems about payments, about swaps, and about the whole books; each EXTENDS the one before |
| `MCEcash` | constants for TLC; the `Ecash*.cfg` files are its runs |
| `Pricing` | `QuoteAmountToPay` as an operator |
| `BlobServer` | files, the `blobs` table, quotes, lookups and the transaction of a request; its properties; EXTENDS `Pricing` |
| `BlobServerProofs` | theorems |
| `MCBlobServer` | constants for TLC; the `Blob*.cfg` files are its runs |
| `Payout` | `swapped_proofs.spent` and `tokens.txt`; its properties |
| `PayoutProofs` | theorems |
| `MCPayout` | constants for TLC; the `Payout*.cfg` files are its runs |
| `Ratasker` | the money path: EXTENDS `EcashProperties`, INSTANCE of `Payout`, every step one of theirs or of both; shown to implement both |
| `RataskerProofs` | theorems; EXTENDS `EcashLedgerProofs` |
| `MCRatasker` | constants for TLC; `Ratasker.cfg` is its run |
| `Startup` | `main` from the home directory to the open port, in several processes; its properties |
| `StartupProofs` | theorems |
| `MCStartup` | constants for TLC; `Startup.cfg` |

`Ecash`, `BlobServer` and `Payout` are three views of one running process, cut where they
share little. `Ecash` sees of a request its payment and not its blob; `BlobServer` sees the
blob, takes the payment as a step that succeeds or not, and a rotation as
somebody who holds the connection for a while; `Payout` begins where a rotation
of `Ecash` ends, with new rows in `swapped_proofs`, and runs in the same goroutine.
`Ratasker` puts the first and the last together again. `Startup` is what comes before.

A definition whose comment begins with "Mutant" is a deliberately wrong variant
of the one that follows it. Nothing uses it: it is there to check that the
properties would notice such a mistake.

### Ecash and the code

`db` is the committed database, `tx` the working copy of the open transaction
and `conn` its owner. `sql.Tx.Begin` is `BeginTransaction` (enabled only while
the connection is free), commit installs `tx`, rollback drops it.

A request goes through `Lookup`, `BeginRequest`, `VerifyToken` (which includes
`ParseTokenHeader` and the check of the trusted mint), `StoreEcash` and
`CommitRequest` or `RollbackRequest`: `GET /:sha` and `PUT /upload` have these
steps in common, and the blob they deliver does not matter to the books. `Lookup`
waits for the connection and gives it back, except for the `GET` of an unknown hash:
`GetBlob` then returns with its transaction open, nobody will end it, and the connection
is `Leaked` until the process dies.

The bloom filter is a set of proofs that may claim any further proof (`fp`). It is asked
for the bytes of `C`, the table for the text: the proofs of a token that a payer spells
unlike their rows (`respelled`, any of them) are not found in the table, whatever the
filter says. `StoreEcash` refuses them by their secret, which is UNIQUE as well.
`Amount` is what a proof claims to be worth: nobody checks the mint's signature, so a proof may be
forged, or spent elsewhere (`BadProofs`). The model, as the code, stores it
like any other; the mint refuses it (`mint.spent`), and all that is swapped with it.

The rotator goes through `BeginRotation`, one `AskMint` and one of `SwapProofs`,
`SwapLost`, `SwapRefused`, `MintFails` for every mint, in any order (Go's map
iteration), then `RotatePubkey` and `EndRotation`, or `AbortRotation`. Each call
to a mint is a step of its own, since the mint and a crash can act between
`GetActiveKeyset` and `PostSwap`. The statements between two such points are one
step: nobody else can see the database then, and a crash drops the transaction
as a whole. The boot is one step for the same reason; `Startup` takes it apart.

`wallet.key` is `CurrentPubkey` (what quotes name), `wallet.version` is
`PubkeyVersion` (what tokens are checked against); public keys are represented
by the version they are derived from. Key 0 is a real key: the one the first
start quotes.

External, modelled from how the code uses it: a mint accepts a swap if the
keyset is active, no input is spent or forged and the amounts balance, and it may retire
its keyset at any time; a payer locks a proof to the key of a quote read at any
time, and sends any proofs it locked, in any order, repetition and spelling, as often as
it likes; sqlite; the clock.

Simplified: all statements succeed unless a constraint refuses them (an I/O
error of a statement inside a rotation behaves like `MintFails`, one inside a
request like `RollbackRequest`); secrets are represented by the counter values
they are derived from; signing is not modelled, `SignableRows` says it can be
done; a mint answers with the signatures it was asked for.

### BlobServer and the code

`Get` and `Put` are the arrival of `GET /:sha` and `PUT /upload`; the parameter `exact` says
whether the url spells the hash in lower case. The hash need not be known. `QuoteUpload` and
`QuoteDownload` are the `HEAD` requests: the first prices the length that the payer names
(`Claims`), the second the length 0, while the paid routes price the true one. `quote` is what
payers were last told for a blob, and a token holds that amount, nothing if no quote was read.
`Restart` reads the costs again, and quotes of an earlier run may be out of date. `GetBlob`
and `GetBlobLength` are whole steps, since their transactions begin and end inside the
function, except that `GetBlob` of an unknown hash ends with the connection `Leaked`. Then
`BeginRequest`, `Pay` (price, token, verification, storing: committed, refused, or answered
with 402 and a quote; without a token a download is answered with no error, so its transaction
is committed), `ReadBlob` for a download, `OpenFile`, `WriteBlob`, `AddBlob` for an upload,
and `Commit` or `Rollback`. `Panic` is the division by a cost of zero: the deferred function
recovers and calls `log.Fatalf`. `blobs` counts rows by hash: the table has no UNIQUE
constraint. A file is absent, torn or whole; `os.WriteFile` is two steps, truncation and
completion, because a crash, a full disk or a reader could come between. A commit that fails
ends the process (`log.Fatalf`, root.go:64, blossom.go:73), so it is a `Crash`, and so is a
rollback that fails where the code looks at its error (blossom.go:59). `GetBlobLength`
prepares its query and never runs it, so a blob can be uploaded, and charged for, again (the
rows it then has are counted), and a download is quoted as if it had no bytes.

### Payout and the code

`Rotation` is whatever `RotateLockedProofs` committed before; `GetUnspentProofsToTokens`,
`OpenTokenFile` and `WriteToken` (`WriteTokenToLocalFile`), `ChangeSwappedProofsSpent`,
`Commit` and `Rollback` follow `SpendSwappedProofs`. A token is the set of its proofs and
the file a sequence of tokens: dates and encoding do not matter, order does, because
`os.WriteFile` writes from the front and a crash leaves a prefix. The errors that the code
overwrites are where a fault leads to `mark` instead of `rollback`. `cut` is a
history variable: it remembers that the process died during a rewrite.

### Ratasker and the code

The two transactions of the goroutine in `main` (lines 126-181). `StartRotation`, `Rotate`
and `FinishRotation` are the steps of the rotator of `Ecash`; a rotation that ends, aborted
or not, leads to `BeginPayout`, which waits for the connection with the requests; `PayOut`
and `EndPayout` are the steps of `Payout`. What `Payout` leaves open, the new rows, is here
what the rotation committed: a payout proof is the set of locked proofs that a swap
took (`Bundles`). A crash and a start are steps of both components. In the refinement of
`Ecash` the connection counts as free while the payout has it, since the payment path only
sees that it has to wait. A connection that a lookup has leaked is lost to the payout as
well: `HeldIsPaidOut` and `RequestAnswered` promise nothing after it. `PaidOut` of module
`Payout` alone is about a payout that does get the connection.

### Startup and the code

One action for each part of `main` that can fail: `GetRastaskerHomeDirectory`,
`DatabaseSetup`, `MakeFileSystemHandler`, `CheckDomainAndSeed`, `NewDBLocalWallet` (mint, held
proofs and first key in one transaction), `CheckOwnerAndCosts`, then the rotator's goroutine
and `Run`. `log.Panicf` and `log.Fatalf` end an instance as "down". `Run` on a port that is
taken ends it as "exited": the error is dropped and the exit code is that of a success.
Settings are right or wrong for an instance from one start to the next; surroundings (disk,
mint, port) break and are repaired under a running process. An instance that is running may
have the database locked, so the steps of another that need it may fail (`Contended`). The
rotation is whatever makes a key or does not.

`DatabaseSetup` is `goose.Up`, two steps for each migration. `ReadVersion` reads the latest row
of `goose_db_version` (`schema`) into a local variable (`seen`); `ApplyMigration` runs the next
migration and adds its row, in one transaction. Nothing keeps another instance from doing the
same in between. `applied` is what the database really has: a migration that is in there
already fails if it is one of the first three (CREATE TABLE, ALTER TABLE ADD), does nothing if
it is one of the last two (`Repeatable`: IF NOT EXISTS), and its row, added again, may
for a while say less than the database has.

External: systemd, which restarts after a failure until it gives up (`GiveUp`: its limit on
restarts is not in the repository), the operator who starts instances and repairs things,
goose, sqlite.

## Runs

| run | instance | distinct states | shows |
|---|---|---|---|
| `requests` | 2 requests that cost 3 and 1 sats, 2 proofs of which one alone costs more to swap than it is worth, tokens of up to 2 (so a repeated proof) in any spelling, 3 clock values (3 rotations), 1 keyset, 1 fault of any kind | 2.1 million | `SignableRows`, `SeenIsRefused`, `PaidInFull`, `QuoteHoldsUntilDue`, `TypeOK` |
| `books` | 2 mints, 3 proofs, one of them eaten up by its fee, 3 keysets, 2 faults | 1.1 million | `SwappedOnce`, `FreshOutputs`, `Recoverable`, `ImplementsLedger` |
| `money` | 1 request, 2 proofs of which one may be forged or spent, 1 keyset, 1 fault of the rotation and 2 of the payout (crash, lost answer, commit) | 140,000 | `NothingLost`, `HeldIsPaidOut`, `RequestAnswered`, `ImplementsPayout`, `ImplementsEcash` |
| `blobs` | 1 blob of three times 4 MB, 2 requests, 2 rows, 2 faults of any kind, true and false lengths, both costs set or one of them 0, another at each start | 107,000 | `RowHasFile`, `UploadIsDurable`, `PaidIsServed`, `SentIsCharged`, `RequestEnds`, `TypeOK` |
| `payout` | 3 proofs of 2 mints, 2 faults (crash, statement, commit); deadlock checked | 16,000 | `SpentIsWritten`, `WrittenOncePerFault`, `PaidOut`, `TypeOK` |
| `start` | the service and one instance by hand, 5 migrations, 3 settings and 3 surroundings wrong or right in any combination at first, 2 acts of the operator, 2 faults | 690,000 | `RunsOnWhole`, `ComesUp`, `TypeOK` |
| `spelling` | expected violation | | a held proof passes `VerifyToken` in capital digits |
| `foreign_key` | expected violation | | a payment before the first rotation is stored with a version no key has |
| `expiration` | expected violation | | one lost answer of the mint and the key is never rotated again |
| `blob_charge` | expected violation | | a download with the hash in upper case is charged and not served |
| `blob_rotation` | expected violation | | after one unknown hash no rotation happens any more |
| `payout_disk` | expected violation | | the file cannot be written, the proofs become spent |

Bounds of `requests` and `books`. `MaxTime` with `Lifetime = Margin = 1` gives a rotation
per clock value, which is what a payment, the expiry of its key and one more rotation need;
two faults suffice for a lost answer followed by a crash or a failed commit, and for
a swap lost at one mint after a restart with another trusted mint; three proofs
give two mints, one of them with two successive swaps on one counter. `Width`
only has to hold the amounts. Permuting the two proofs of one mint changes nothing in
`books`, which uses it as symmetry. The two rotations of `money`, of two proofs, give one
payout onto an empty file and one onto the tokens of the first, and the three faults a failure in
each of the two transactions, in this order or over two turns, and a payout that fails twice.
One of the proofs is one that the mint may or may not refuse from the start: with it the mint
is stuck, without it the run is that of honest payers, and both share one bound. Keysets that
retire are left to `books`: the payout does not look at them.

For blobs, two requests are enough for a reader and a writer, or two writers, of one file,
and the theorems say that more requests and blobs do not matter; two faults give a failed
re-upload and a crash. `PaidIsServed` says "while nothing fails", since a file torn by an
earlier fault is paid for and not served. The costs differ, so that an upload and a download of
the blob have different prices, and in the second setting a download panics; the lengths
that are named, 0 and the true one, make a quote too low or right.
For payouts, three proofs of two mints give payouts of one and of two tokens and a
second one onto an existing file. `payout` leaves disk errors to `payout_disk`.
For the start, two acts of the operator break or repair two things, or repair one and start a
second instance; of the settings, one is looked at in each part of `main` that comes before,
in and after the first key.

Deadlock is not checked where the system really may stop: when the clock has reached its
bound, faults are used up and no request comes (`requests`, `books`, `money`); when a download
of an unknown hash has taken the connection (these and the runs of `BlobServer`); when `main`
returned (`start`).

Fairness (`FairSpec`). Goroutines run (weak fairness of a request's `Work` and the
rotator's steps); the process is restarted (`Restart=on-failure`); time passes;
a goroutine that waits for the connection gets it when it is free again and
again (strong fairness of `Wait`: `database/sql` queues its waiters). Neither payers nor
faults are fair. Implied: calls to a mint end. A rotation that is due both in
memory and in the database survives a restart, hence `RotationDue`.

`BlobServer`, `Payout` and `Ratasker` assume the same: steps of goroutines and the restart
are weakly fair, waiting for the connection is strongly fair, rotations recur because keys
expire again and again. A payout follows every rotation attempt, so weak fairness of
`Rotation` is enough in `Payout`. systemd limits how often it restarts; the one or two faults
of these runs stay below any limit, and the panics that a cost of zero causes leave no
request to be answered. `Startup`, where starts fail again and again, has the limit:
`GiveUp` competes with `Restart`, and `ComesUp` promises nothing after it.

`HeldIsPaidOut` excepts a mint that is `Stuck`: when no rotation is under way, it refuses some
of the held proofs, spent already or forged, or the fees eat the value of all. This is not a
modelling convenience: the run `expiration` shows that a stuck mint blocks every later
rotation. It excepts a leaked connection too, as `blob_rotation` shows it must. It also lets a fault
after the swap delay the payout to a later turn (`PaidOut` says that it comes).

## Findings

1. First start: `NewDBLocalWallet` shadows `err`, then overwrites the key that
   `RotatePubkey` made with the zero one. Payments are locked to key 0 and stored
   with `pubkey_version` 0 until the first rotation, against the foreign key of
   the schema (`foreign_key`). They can still be signed for (`SignableRows`).
2. A swap whose answer is lost leaves spent proofs in the next request, and the
   next: rotation never happens again (`expiration`). The ecash itself is
   recoverable from the seed (`Recoverable`).
3. The hash of a download is compared as a string: with capital hexadecimal digits the
   payment is committed and nothing is served (`blob_charge`). The same happens when the
   file was torn by a failed re-upload.
4. A download of an unknown hash keeps the only connection (`blob_rotation`). Requests,
   rotation and payout all wait for it from then on.
5. A token file that cannot be written does not keep the proofs from being marked
   spent (`payout_disk`).
6. `VerifyToken` asks the filter for the bytes of `C` and the table for its hexadecimal text.
   A held proof sent again with capital digits passes the check that is meant to find it
   (`spelling`). It still pays only once: `StoreEcash` fails on the secret (`PaidInFull`).

Seen while modelling, and without a run of its own: when the fees equal the value of the held
proofs of a mint, the rotation skips that mint and all those after it, and still replaces the
key (`AskMint`; the proofs stay held and are taken along later). `HEAD /:sha` quotes one sat
for every blob, and `HEAD /upload` one for whatever length the payer names: the paid routes
charge by the true length. That price is divided by the configured cost: when one is not set,
which src/README.md:12 allows, it is 0, and the first paid request for a kilobyte or more ends
the process (`Panic`). The sample configurations set `DOWNLOAD_COST_4MB` and
`UPLOAD_COST_4MB`, names nothing reads, so they leave both at 0. The division also turns the
cost around: a higher one makes blobs cheaper (theorem `DearerIsCheaper`). The check of the
mint's signature is commented out (backend.go:347-350), so one forged proof is stored and
keeps its mint from swapping anything (`Stuck`). Two instances that migrate one database at
the same time may both apply a migration; no order of their steps leaves it incomplete or
keeps the service from starting (`RunsOnWhole`, `ComesUp`). The README lists DOMAIN,
TRUSTED_MINT and SEED as mandatory (src/README.md:10); without OWNER_NPUB `main` panics as
well, after it has made the first key.

## Proofs

Every safety property of every passing run is also a theorem: invariants, action properties
and refinements, for all values of the constants. What remains with TLC alone is liveness.
Each inductive invariant named below was first checked by TLC, on the instance of a run.

For any proofs, mints, requests, amounts and bounds (the named assumptions of
`Sqlite` and `Ecash` only fix types, and that request names differ from the two
other owners of the connection):

* `TypeCorrect`: `Spec => []TypeOK`. The type invariant is inductive by itself.
* `RowsAreSignable`: `Spec => []SignableRows`. Not inductive: that the version a
  row is stored with is the one that was verified needs `Exclusive` (only the
  owner of the connection is inside a transaction) and that a request about to
  store has all proofs locked to the current version (`KeysInv`).
* `SeenProofsAreRefused`: `Spec => SeenIsRefused`, an action property, from `FilterInv`: the
  filter covers what is held in `db` and in `tx`. It speaks of proofs spelled as in their rows,
  in tokens whose other proofs are spelled in any way; of the others it is false (`spelling`).
* `QuotesHold`: `Spec => QuoteHoldsUntilDue`, from `RotationInv`: a rotation in
  progress is still due, and its saved copy of the key is the current one.
* `ProofsAreSwappedOnce`, `OutputsAreFresh`, `SignaturesAreRecoverable`: the three
  properties of swaps, from one invariant, `BooksInv`. None is inductive, and none can be had
  without the others: a repeated request is harmless because it is the very batch the mint
  has signed, which holds because that batch starts at the counter and takes inputs that are
  still held (`Recovers`), of `db` as well as of `tx`, since a crash drops the one and a commit
  the other. `Counted` keeps the secrets of stored batches below the counter, `SignedForInputs`
  says that a mint signs once for an input, and `TodoIsUntouched` that what the rotator has
  done at one mint leaves the rows and counters of those still to come as they were committed:
  this is what makes any order of the mints, and stopping in between, safe. `SwappedOnce` is
  about the committed tables: that a mint takes no proof twice is assumed of it (`MintAccepts`).
* `EcashImplementsLedger`: `Spec => ImplementsLedger`, from `LedgerInv`, which says at every
  step how far `tx` is from `db`: by the token of the request that has stored it, or by the
  held proofs of a set of mints (`HasSwapped`). A commit is then a payment or a whole
  rotation of `Ledger`, the first start its first key, and every other step a stutter.
* `PaymentsAreFull`: `Spec => PaidInFull`, from `LedgerInv` and `FullInv`. A token that passed
  names enough, and one that was stored names no proof twice; what is left is that the amounts
  of a token without repetitions add up to the value of its proofs (`AmountIsValue`).

All rest on `ExclusiveNext`, the proof that one connection is enough of a lock.

`AmountIsValue` is about two recursive sums, of the community modules. The library's rules of
induction take a predicate as a parameter, and the provers at hand cannot instantiate it. The
lemmas about `Total` in `EcashProofs` do without: a set of counterexamples among the subsets
of a finite set has a least member (`LeastSet`), and removing one element from it gives a
smaller one. They establish that the recursive definition has a solution, that its value does
not depend on the order in which elements are taken, and that an injection preserves it.

`BlobServer`, for any blobs and requests:

* `TypeCorrect`, `RowsHaveFiles` (`Spec => []RowHasFile`) and `UploadsAreDurable`
  (`Spec => UploadIsDurable`), from `StorageInv`: who is inside a transaction has the
  connection, and `tx` differs from `blobs` only by the row of the upload that is about to
  commit. This is what makes it sound to install `tx` as a whole.
* `PaidAreServed`: `Spec => []PaidIsServed`. It needs, beside `StorageInv`, that without
  faults only a file being written is torn.
* `SentAreCharged`: `Spec => SentIsCharged`, from the invariant that who was sent a blob is
  paid and has only the commit left.
* `DearerIsCheaper`, about `Pricing` alone.

`Payout`, for any proofs and finitely many mints:

* `TypeCorrect`. Not inductive by itself: `RewriteInv` adds that the file is a proper
  prefix of its content while it is written.
* `SpentAreWritten`: without disk errors `Spec => []SpentIsWritten`, from `WrittenInv`, which
  says at every step of the payout where the proofs that are about to be spent are.
* `WrittenOnce`: `Spec => []WrittenOncePerFault`, disk errors included, from `OnceInv`: a line
  that the database neither knows of nor soon will (`Booked`) costs a fault, and the tokens of
  a payout bring one line each for proofs that have none booked yet. The lemmas on `LinesOf`
  say how the lines of a proof grow with concatenation and shrink with a prefix.

`Ratasker`, for any constants (`RataskerAssumption`: finitely many mints, and what the lapses
are called):

* `EcashIsImplemented` and `PayoutIsImplemented`: `RataskerSpec` implies both specifications,
  each seen through its refinement. `TurnInv` says whose turn it is: during the payout the
  goroutine has the connection and the rotator of `Ecash` sleeps, so a step of one part is a
  stutter of the other, and the connection the payment path sees as free (`PathConn`) is one it
  could only have waited for. For `Payout`, the new bundles are exactly what a committed
  rotation swapped (`RotationSwapsBundles`), and nothing else adds any.
* `RataskerImplementsLedger`: the theorems about the books hold in the composed system, since it
  satisfies `BooksInv`, `LedgerInv` and `FullInv` as `Ecash` does: `ImplementsLedger`,
  `PaidInFull`, `SwappedOnce`, `FreshOutputs` and `Recoverable`. `RataskerKeepsKeys`: so do
  `SignableRows`, `SeenIsRefused` and `QuoteHoldsUntilDue`.
* `NothingIsLost`: while the disk works, `RataskerSpec => []NothingLost`, from the ledger
  (a stored proof is held or in a swapped batch) and `PaidInv` (a batch marked spent is in the
  file or in what is being written). With disk errors it is false: see finding 5.

`Startup`, for any number of instances, migrations and settings:

* `TypeCorrect`, `RunOnWhole` (`Spec => []RunsOnWhole`), from `StartInv`: an instance that has
  reached a step of `main` can rely on what the steps before it did, because nothing that
  another instance does, or a start that fails, takes it back, and its settings do not change
  while it runs. For the migrations it says that neither the latest row nor the version an
  instance has read is ever ahead of what is applied: both may be behind, which is why the type
  of `schema` needs it as well.

Only model-checked: `HeldIsPaidOut`, `RequestAnswered`, `RequestEnds`, `PaidOut` and `ComesUp`.
They are liveness under fairness, whose ENABLED is out of the prover's reach.

## Plan

1. Done: all modules above, their runs and the theorems listed.
2. Proofs: the steps towards liveness that need no fairness (which action a request and the
   rotator can take next), and shorter proofs of what is there.
3. The rows of older versions of the schema (see below), as initial states of `BlobServer`.

## Not modelled

* nostr authorization (`NostrAutMiddleware` is mounted on no route) and nostr messages to the
  owner (`SendProofsToOwner` and what it uses have no caller);
* the table `trusted_mints` and `GetLockedProofsByPubkeyVersion`: only tests call them;
  `RemoveBlob`, `FindKeysetPubkey` and the DLEQ checks: nothing does;
* HTTP routing, CORS headers, reverse proxy, log output: no state, configuration only;
* cryptography (derivation, blinding, signatures): keys and secrets are named by what they
  are derived from, and a forged proof is one that its mint refuses;
* rows written by versions of the program older than the third migration: the models start
  from an empty database.
