------------------------------ MODULE Ratasker ------------------------------
(***************************************************************************)
(* The money path from end to end: modules Ecash and Payout composed.      *)
(*                                                                         *)
(* One goroutine rotates the key and then, whether or not the rotation     *)
(* succeeded, pays out what is swapped.  Its two transactions are apart:   *)
(* between them requests may take the connection, the mints may act, and   *)
(* the process may die.  Both components are shown to be implemented, so   *)
(* what is said of each alone holds here.                                  *)
(***************************************************************************)
EXTENDS EcashProperties

CONSTANTS
    MaxLapses, \* bound: faults of the payout
    Lapses     \* their kinds; a crash is a fault of both components

ASSUME RataskerAssumption ==
    /\ IsFiniteSet(Mints)
    /\ MaxLapses \in Nat
    /\ Lapses \subseteq {"crash", "disk", "statement", "commit"}

VARIABLES
    step,    \* where the payout is; "rotation" while there is none
    lapses,  \* its faults so far
    spent,   \* the batches whose spent column is true
    spentTx, \* that column as the open transaction sees it
    tokens, content, file, cut  \* as in Payout

payoutVars == <<step, lapses, spent, spentTx, tokens, content, file, cut>>
allVars == <<vars, payoutVars>>
otherVars == <<up, now, faults, db, tx, wallet, req, rot, lock, mint>>  \* all but conn

\* What a swap returned is named by the proofs it took, all of one mint.
Bundles ==
    {ps \in SUBSET Proofs : \E m \in Mints : ps # {} /\ \A p \in ps : MintOf[p] = m}

P == INSTANCE Payout WITH
        Proofs    <- Bundles,
        MintOf    <- [ps \in Bundles |-> CHOOSE m \in Mints : \A p \in ps : MintOf[p] = m],
        MaxFaults <- MaxLapses,
        Faults    <- Lapses,
        faults    <- lapses,
        pc        <- step,
        swapped   <- {b.ins : b \in db.swapped},
        tx        <- spentTx

RataskerInit ==
    /\ Init
    /\ step = "rotation"
    /\ lapses = 0
    /\ spent = {}
    /\ spentTx = {}
    /\ tokens = <<>>
    /\ content = <<>>
    /\ file = <<>>
    /\ cut = FALSE

-----------------------------------------------------------------------------
(* The rotator's turn *)

StartRotation ==
    /\ step = "rotation"
    /\ BeginRotation
    /\ UNCHANGED payoutVars

\* Mutant: there is no payout after a rotation that failed or succeeded.
SleepAfterRotation == (EndRotation \/ AbortRotation) /\ UNCHANGED payoutVars

\* The payout follows a rotation that failed, too.
FinishRotation ==
    /\ EndRotation \/ AbortRotation
    /\ step' = "begin"
    /\ UNCHANGED <<lapses, spent, spentTx, tokens, content, file, cut>>

\* Mutant: the pool has a second connection.
BeginPayoutBeside ==
    /\ conn' = Rotator
    /\ UNCHANGED otherVars
    /\ P!BeginTransaction

BeginPayout ==
    /\ conn = Free
    /\ conn' = Rotator
    /\ UNCHANGED otherVars
    /\ P!BeginTransaction

PayOut ==
    /\ UNCHANGED vars
    /\ \/ P!GetUnspentProofsToTokens
       \/ P!OpenTokenFile
       \/ P!WriteToken
       \/ P!ChangeSwappedProofsSpent

\* Mutant: nobody ends the transaction.
EndPayoutOpen ==
    /\ UNCHANGED vars
    /\ P!Commit \/ P!Rollback

EndPayout ==
    /\ conn' = Free
    /\ UNCHANGED otherVars
    /\ P!Commit \/ P!Rollback

-----------------------------------------------------------------------------
(* The process, and everybody else *)

Start == NewDBLocalWallet /\ P!Restart

Die == Crash /\ P!Crash

Others ==
    /\ \/ Tick
       \/ \E p \in Proofs : LockToQuote(p)
       \/ \E r \in Requests, t \in Tokens : Send(r, t)
       \/ \E m \in Mints : RetireKeyset(m)
    /\ UNCHANGED payoutVars

Serve(r) == RequestStep(r) /\ UNCHANGED payoutVars

Rotate ==
    /\ \/ \E m \in Mints : AskMint(m)
       \/ SwapProofs
       \/ SwapLost
       \/ SwapRefused
       \/ MintFails
       \/ RotatePubkey
    /\ UNCHANGED payoutVars

RataskerNext ==
    \/ Start
    \/ Die
    \/ Others
    \/ \E r \in Requests : Serve(r)
    \/ StartRotation
    \/ Rotate
    \/ FinishRotation
    \/ BeginPayout
    \/ PayOut
    \/ EndPayout

\* As in Ecash: goroutines run, and who waits for the connection gets it in the end.
RataskerFairness ==
    /\ WF_allVars(Start)
    /\ WF_allVars(Tick /\ UNCHANGED payoutVars)
    /\ \A r \in Requests :
         /\ SF_allVars(Wait(r) /\ UNCHANGED payoutVars)
         /\ WF_allVars(Work(r) /\ UNCHANGED payoutVars)
    /\ SF_allVars(StartRotation)
    /\ WF_allVars(Rotate \/ FinishRotation)
    /\ SF_allVars(BeginPayout)
    /\ WF_allVars(PayOut \/ EndPayout)

RataskerSpec == RataskerInit /\ [][RataskerNext]_allVars /\ RataskerFairness

-----------------------------------------------------------------------------
(* Properties *)

\* What a batch was paid out as is in the file, or in what the file is being
\* rewritten with.
InFile(ins) == P!Contains(IF step = "writing" THEN content ELSE file, ins)

\* No ecash is lost on its way through three transactions, the mint and a file:
\* a proof that ever paid is held, or was swapped for a batch that the payout has
\* still to take or that is in the file (except after a crash in its rewrite).
NothingLost ==
    ~cut => \A p \in db.locked :
        \/ p \in Held(db)
        \/ \E b \in db.swapped : p \in b.ins /\ (b.ins \notin spent \/ InFile(b.ins))

\* A proof held when a rotation is due is redeemed in the end, through retries and
\* restarts and however many requests compete with the rotator for the connection;
\* unless a mint is stuck, by one forged proof for example, or the lookup of an
\* unknown hash keeps the connection (sqlite.go:64).  Unless something failed on the
\* way, the proof is then paid out in the same turn of the rotator.
HeldIsPaidOut ==
    \A p \in Proofs :
        (p \in Held(db) /\ RotationDue)
            ~> \/ \E b \in db.swapped : p \in b.ins /\ (InFile(b.ins) \/ faults + lapses > 0)
               \/ \E m \in Mints : Stuck(m)
               \/ conn = Leaked

\* A request gets its answer although the rotator keeps the only connection during
\* its calls to the mints and the rewrite of the file (crons.go:270-324): the calls
\* end, and every way out of a transaction returns the connection, but for that of
\* GetBlob for an unknown hash (sqlite.go:64).
RequestAnswered ==
    \A r \in Requests : req[r].pc # "idle" ~> req[r].pc = "idle" \/ conn = Leaked

\* The payout's view: new rows only, only between payouts, and it sees all of them.
ImplementsPayout == P!Spec

E == INSTANCE Ecash WITH
        conn <- IF conn = Rotator /\ step # "rotation" THEN Free ELSE conn

\* The payout disturbs nothing that module Ecash says: while it has the connection
\* the payment path sees at most a connection that is slow to come.
ImplementsEcash == E!Spec

=============================================================================
