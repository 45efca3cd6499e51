----------------------------- MODULE BlobServer -----------------------------
(***************************************************************************)
(* What a paid request is about: the blob.  GET /:sha sends the content of *)
(* a file that the blobs table knows, PUT /upload writes the file and adds *)
(* the row.  Both begin with a lookup in a transaction of its own, then    *)
(* open the one in which they charge, and everybody shares one connection. *)
(*                                                                         *)
(* A payer sends the amount it was quoted last, by a HEAD request or by an *)
(* answer 402; whether the token is good is module Ecash, here it is or    *)
(* not.  The prices are module Pricing.                                    *)
(***************************************************************************)
EXTENDS Pricing

CONSTANTS
    Blobs,      \* contents, named by their hash
    Requests,   \* requests served at a time
    Length,     \* the size of a blob in bytes
    Claims,     \* the sizes that payers name in X-Content-Length
    Costs,      \* settings of DOWNLOAD_COST_2MB and UPLOAD_COST_2MB; 0: not set
    MaxRows,    \* bound: rows of a blob in the table
    MaxFaults,  \* bound: faults of a behaviour
    Faults      \* the kinds of fault considered

ASSUME BlobAssumption ==
    /\ Length \in [Blobs -> Nat]
    /\ Claims \subseteq Nat
    /\ Costs \subseteq [get : Nat, put : Nat]
    /\ MaxRows \in Nat
    /\ MaxFaults \in Nat
    /\ Faults \subseteq {"crash", "disk", "client"}

Free == "free"        \* the connection is in the pool
Rotator == "rotator"  \* the key rotation has it
Leaked == "leaked"    \* nobody will ever return it

ASSUME HolderAssumption == {Free, Rotator, Leaked} \cap Requests = {}

VARIABLES
    cost,    \* the environment
    up,      \* the process is running
    faults,  \* faults so far
    conn,    \* who has the connection
    blobs,   \* the blobs table: how many rows a blob has
    tx,      \* the table as the open transaction sees it
    files,   \* the file of each blob
    quote,   \* the price of each method that payers were last told; 0: none
    req      \* the requests

vars == <<cost, up, faults, conn, blobs, tx, files, quote, req>>

\* sats: the amount of the token, 0 when there is none.
\* exact: the sha of the url is spelled as hex.EncodeToString spells it.
\* paid: the transaction stores a payment.  sent: the content went out.
Idle == [pc |-> "idle", method |-> "none", blob |-> "none", sats |-> 0,
         exact |-> TRUE, paid |-> FALSE, sent |-> FALSE]

Init ==
    /\ cost \in Costs
    /\ up = TRUE
    /\ faults = 0
    /\ conn = Free
    /\ blobs = [b \in Blobs |-> 0]
    /\ tx = blobs
    /\ files = [b \in Blobs |-> "absent"]
    /\ quote = [b \in Blobs |-> [get |-> 0, put |-> 0]]
    /\ req = [r \in Requests |-> Idle]

Fault(kind) ==
    /\ kind \in Faults
    /\ faults < MaxFaults
    /\ faults' = faults + 1

At(r, pc) == req[r].pc = pc
GoTo(r, pc) == req' = [req EXCEPT ![r].pc = pc]

Cost(method) == IF method = "get" THEN cost.get ELSE cost.put

\* What a paid request charges for a blob.
Price(b, method) == QuoteAmountToPay(Length[b], Cost(method))

\* Mutant: the pool has a second connection.
BeginWithoutLimit(owner) == conn' = owner /\ tx' = blobs

BeginTransaction(owner) == conn = Free /\ conn' = owner /\ tx' = blobs

-----------------------------------------------------------------------------
(* Requests arrive *)

Get(r, b, exact) ==
    /\ up
    /\ At(r, "idle")
    /\ req' = [req EXCEPT ![r] = [Idle EXCEPT !.pc = "lookup", !.method = "get",
                                              !.blob = b, !.sats = quote[b].get,
                                              !.exact = exact]]
    /\ UNCHANGED <<cost, up, faults, conn, blobs, tx, files, quote>>

Put(r, b) ==
    /\ up
    /\ At(r, "idle")
    /\ blobs[b] < MaxRows
    /\ req' = [req EXCEPT ![r] = [Idle EXCEPT !.pc = "lookup", !.method = "put",
                                              !.blob = b, !.sats = quote[b].put]]
    /\ UNCHANGED <<cost, up, faults, conn, blobs, tx, files, quote>>

-----------------------------------------------------------------------------
(* Quotes: HEAD requests, which look the blob up and change nothing *)

\* HEAD /upload prices the length that the payer names, be it that of the blob or
\* not.  A panic here is caught by gin.
QuoteUpload(b, length) ==
    /\ up
    /\ conn = Free
    /\ ~Panics(length, Cost("put"))
    /\ quote' = [quote EXCEPT ![b].put = QuoteAmountToPay(length, Cost("put"))]
    /\ UNCHANGED <<cost, up, faults, conn, blobs, tx, files, req>>

\* HEAD /:sha: the length that GetBlobLength returns is 0 for every blob.
QuoteDownload(b) ==
    /\ up
    /\ conn = Free
    /\ quote' = [quote EXCEPT ![b].get = QuoteAmountToPay(0, Cost("get"))]
    /\ UNCHANGED <<cost, up, faults, conn, blobs, tx, files, req>>

-----------------------------------------------------------------------------
(* Lookups *)

\* GetBlob: when the blob has no row it returns with its transaction open.
GetBlob(r) ==
    /\ At(r, "lookup")
    /\ req[r].method = "get"
    /\ conn = Free
    /\ \/ /\ blobs[req[r].blob] > 0
          /\ GoTo(r, "begin")
          /\ UNCHANGED conn
       \/ /\ blobs[req[r].blob] = 0
          /\ req' = [req EXCEPT ![r] = Idle]
          /\ conn' = Leaked
    /\ UNCHANGED <<cost, up, faults, blobs, tx, files, quote>>

\* GetBlobLength prepares its query and never runs it: the upload goes on
\* whether or not the blob has a row.
GetBlobLength(r) ==
    /\ At(r, "lookup")
    /\ req[r].method = "put"
    /\ conn = Free
    /\ GoTo(r, "begin")
    /\ UNCHANGED <<cost, up, faults, conn, blobs, tx, files, quote>>

-----------------------------------------------------------------------------
(* The transaction of a request *)

BeginRequest(r) ==
    /\ At(r, "begin")
    /\ BeginTransaction(r)
    /\ GoTo(r, "pay")
    /\ UNCHANGED <<cost, up, faults, blobs, files, quote>>

\* The token is verified and stored, or refused: for its amount (the answer is a
\* quote), or by module Ecash.  A download without a token is answered with a quote
\* and no error, so its transaction is committed.
Pay(r) ==
    LET method == req[r].method
        price  == Price(req[r].blob, method)
        Quote  == quote' = [quote EXCEPT ![req[r].blob] =
                                IF method = "get" THEN [@ EXCEPT !.get = price]
                                                  ELSE [@ EXCEPT !.put = price]]
    IN
    /\ At(r, "pay")
    /\ ~Panics(Length[req[r].blob], Cost(method))
    /\ \/ /\ req[r].sats >= price
          /\ req' = [req EXCEPT ![r].paid = TRUE,
                                ![r].pc = IF method = "get" THEN "read" ELSE "write"]
          /\ UNCHANGED quote
       \/ /\ req[r].sats >= price
          /\ GoTo(r, "rollback")
          /\ UNCHANGED quote
       \/ /\ req[r].sats < price
          /\ GoTo(r, IF req[r].sats = 0 /\ method = "get" THEN "commit" ELSE "rollback")
          /\ Quote
    /\ UNCHANGED <<cost, up, faults, conn, blobs, tx, files>>

\* The process ends: sqlite drops the open transaction, the requests are gone.
Die ==
    /\ up' = FALSE
    /\ conn' = Free
    /\ tx' = blobs
    /\ req' = [r \in Requests |-> Idle]
    /\ UNCHANGED <<cost, blobs, files, quote>>

\* The deferred function recovers from the panic, rolls back and calls log.Fatalf.
Panic(r) ==
    /\ At(r, "pay")
    /\ Panics(Length[req[r].blob], Cost(req[r].method))
    /\ Die
    /\ UNCHANGED faults

\* Mutant: the hash is compared after the content went out.
SendThenCompare(r) ==
    LET file == files[req[r].blob] IN
    /\ At(r, "read")
    /\ file # "absent"
    /\ req' = [req EXCEPT ![r].sent = TRUE,
                          ![r].pc = IF file = "whole" /\ req[r].exact
                                    THEN "commit" ELSE "rollback"]
    /\ UNCHANGED <<cost, up, faults, conn, blobs, tx, files, quote>>

\* Reads the file, compares its hash with the url as strings, and sends it.  A
\* missing file or a client that is gone is an error; a wrong hash is not: err is
\* nil there, so the transaction is committed.
ReadBlob(r) ==
    LET file == files[req[r].blob] IN
    /\ At(r, "read")
    /\ \/ /\ file = "absent"
          /\ GoTo(r, "rollback")
          /\ UNCHANGED faults
       \/ /\ file = "torn" \/ (file = "whole" /\ ~req[r].exact)
          /\ GoTo(r, "commit")
          /\ UNCHANGED faults
       \/ /\ file = "whole" /\ req[r].exact
          /\ req' = [req EXCEPT ![r].sent = TRUE, ![r].pc = "commit"]
          /\ UNCHANGED faults
       \/ /\ file = "whole" /\ req[r].exact
          /\ Fault("client")
          /\ GoTo(r, "rollback")
    /\ UNCHANGED <<cost, up, conn, blobs, tx, files, quote>>

\* Mutant: the error of the open is not looked at.
OpenFileUnchecked(r) ==
    /\ At(r, "write")
    /\ \/ /\ files' = [files EXCEPT ![req[r].blob] = "torn"]
          /\ GoTo(r, "writing")
          /\ UNCHANGED faults
       \/ /\ Fault("disk")
          /\ GoTo(r, "add")
          /\ UNCHANGED files
    /\ UNCHANGED <<cost, up, conn, blobs, tx, quote>>

\* os.WriteFile opens and truncates the file, also when it is that of an earlier
\* upload of the blob.
OpenFile(r) ==
    /\ At(r, "write")
    /\ \/ /\ files' = [files EXCEPT ![req[r].blob] = "torn"]
          /\ GoTo(r, "writing")
          /\ UNCHANGED faults
       \/ /\ Fault("disk")
          /\ GoTo(r, "rollback")
          /\ UNCHANGED files
    /\ UNCHANGED <<cost, up, conn, blobs, tx, quote>>

\* Mutant: the error of the write is not looked at.
WriteBlobUnchecked(r) ==
    /\ At(r, "writing")
    /\ \/ /\ files' = [files EXCEPT ![req[r].blob] = "whole"]
          /\ UNCHANGED faults
       \/ Fault("disk") /\ UNCHANGED files
    /\ GoTo(r, "add")
    /\ UNCHANGED <<cost, up, conn, blobs, tx, quote>>

WriteBlob(r) ==
    /\ At(r, "writing")
    /\ \/ /\ files' = [files EXCEPT ![req[r].blob] = "whole"]
          /\ GoTo(r, "add")
          /\ UNCHANGED faults
       \/ /\ Fault("disk")
          /\ GoTo(r, "rollback")
          /\ UNCHANGED files
    /\ UNCHANGED <<cost, up, conn, blobs, tx, quote>>

\* Mutant: the row of an earlier upload is removed, as if there always were one.
AddBlobReplacing(r) ==
    /\ At(r, "add")
    /\ tx' = [tx EXCEPT ![req[r].blob] = @ - 1]
    /\ GoTo(r, "commit")
    /\ UNCHANGED <<cost, up, faults, conn, blobs, files, quote>>

AddBlob(r) ==
    /\ At(r, "add")
    /\ tx' = [tx EXCEPT ![req[r].blob] = @ + 1]
    /\ GoTo(r, "commit")
    /\ UNCHANGED <<cost, up, faults, conn, blobs, files, quote>>

\* A commit that fails ends the process: a Crash.
Commit(r) ==
    /\ At(r, "commit")
    /\ conn' = Free
    /\ blobs' = tx
    /\ req' = [req EXCEPT ![r] = Idle]
    /\ UNCHANGED <<cost, up, faults, tx, files, quote>>

\* So does a rollback that fails.
Rollback(r) ==
    /\ At(r, "rollback")
    /\ conn' = Free
    /\ tx' = blobs
    /\ req' = [req EXCEPT ![r] = Idle]
    /\ UNCHANGED <<cost, up, faults, blobs, files, quote>>

-----------------------------------------------------------------------------
(* Everybody else *)

\* A key rotation (module Ecash), and the payout after it, in the connection.
BeginRotation ==
    /\ up
    /\ BeginTransaction(Rotator)
    /\ UNCHANGED <<cost, up, faults, blobs, files, quote, req>>

\* Mutant: the rotation is retried within its transaction until the mint answers.
RetryRotation ==
    /\ conn = Rotator
    /\ UNCHANGED vars

EndRotation ==
    /\ conn = Rotator
    /\ conn' = Free
    /\ UNCHANGED <<cost, up, faults, blobs, tx, files, quote, req>>

Crash ==
    /\ up
    /\ Fault("crash")
    /\ Die

\* The environment is read again; what payers were told stays with them.
Restart ==
    /\ ~up
    /\ up' = TRUE
    /\ cost' \in Costs
    /\ UNCHANGED <<faults, conn, blobs, tx, files, quote, req>>

-----------------------------------------------------------------------------
(* Specification *)

Wait(r) == GetBlob(r) \/ GetBlobLength(r) \/ BeginRequest(r)

Work(r) ==
    \/ Pay(r)
    \/ Panic(r)
    \/ ReadBlob(r)
    \/ OpenFile(r)
    \/ WriteBlob(r)
    \/ AddBlob(r)
    \/ Commit(r)
    \/ Rollback(r)

Next ==
    \/ \E r \in Requests, b \in Blobs, exact \in BOOLEAN : Get(r, b, exact)
    \/ \E r \in Requests, b \in Blobs : Put(r, b)
    \/ \E b \in Blobs, length \in Claims : QuoteUpload(b, length)
    \/ \E b \in Blobs : QuoteDownload(b)
    \/ \E r \in Requests : Wait(r)
    \/ \E r \in Requests : Work(r)
    \/ BeginRotation
    \/ EndRotation
    \/ Crash
    \/ Restart

Spec == Init /\ [][Next]_vars

\* Goroutines run, the process is restarted, keys expire again and again, and
\* whoever waits for the connection gets it when it is often enough free.
Fairness ==
    /\ \A r \in Requests : SF_vars(Wait(r)) /\ WF_vars(Work(r))
    /\ SF_vars(BeginRotation)
    /\ WF_vars(EndRotation)
    /\ WF_vars(Restart)

FairSpec == Spec /\ Fairness

-----------------------------------------------------------------------------
(* Properties *)

RequestStates ==
    [pc     : {"idle", "lookup", "begin", "pay", "read", "write", "writing", "add",
               "commit", "rollback"},
     method : {"none", "get", "put"},
     blob   : Blobs \cup {"none"},
     sats   : Nat,
     exact  : BOOLEAN, paid : BOOLEAN, sent : BOOLEAN]

\* The type invariant.
TypeOK ==
    /\ cost \in Costs
    /\ up \in BOOLEAN
    /\ faults \in Nat
    /\ conn \in {Free, Rotator, Leaked} \cup Requests
    /\ blobs \in [Blobs -> Nat]
    /\ tx \in [Blobs -> Nat]
    /\ files \in [Blobs -> {"absent", "torn", "whole"}]
    /\ quote \in [Blobs -> [get : Nat, put : Nat]]
    /\ req \in [Requests -> RequestStates]

\* An upload that commits has stored its blob: the row is there beside all earlier
\* ones and the file is whole, although uploads of the same blob share a file, the
\* table is replaced as a whole, and both may fail at any point
\* (blossom.go:149-161).
UploadIsDurable ==
    [][\A r \in Requests :
         (Commit(r) /\ req[r].method = "put") =>
            /\ blobs' = [blobs EXCEPT ![req[r].blob] = @ + 1]
            /\ files[req[r].blob] = "whole"]_vars

\* A row always has a file, after crashes and failed writes too (the file may be
\* torn when a later upload of the same blob failed).
RowHasFile == \A b \in Blobs : blobs[b] > 0 => files[b] # "absent"

\* While nothing fails, a payment for a correctly spelled download is committed
\* only together with the content: no download ever sees the file of its blob
\* while another upload of it is rewriting that file (root.go:125-146).
PaidIsServed ==
    faults = 0 => \A r \in Requests :
        (At(r, "commit") /\ req[r].method = "get" /\ req[r].paid /\ req[r].exact)
            => req[r].sent

\* The content goes out before the commit (root.go:141), yet who got it is charged:
\* nothing but the end of the process comes between, not another request, not an
\* error of a later step.
SentIsCharged ==
    [][\A r \in Requests :
         (req[r].sent /\ ~req'[r].sent) => ~up' \/ (Commit(r) /\ req[r].paid)]_vars

\* Every request is answered, rotations, faults and other requests notwithstanding,
\* until a download of an unknown blob takes the connection with it (sqlite.go:64).
RequestEnds == \A r \in Requests : ~At(r, "idle") ~> (At(r, "idle") \/ conn = Leaked)

(* What the code does not do *)

\* "Ensure that the transaction is rolled back in case of a panic or error"
\* (root.go:53): a download that fails is not charged.
FailedIsNotCharged ==
    \A r \in Requests :
        (At(r, "commit") /\ req[r].method = "get" /\ req[r].paid) => req[r].sent

\* "rotate keys when expiration happens" (main.go:125): rotations go on.
RotationsGoOn == []<>(conn = Rotator)

=============================================================================
