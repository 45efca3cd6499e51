--------------------------- MODULE RataskerProofs ---------------------------
(***************************************************************************)
(* The composition implements both of its components, and loses nothing,   *)
(* for any proofs, mints, requests and bounds.                             *)
(*                                                                         *)
(* What is proved of the steps of module Ecash applies as it is: all but   *)
(* the two that begin and end a payout's transaction are such steps.  Of   *)
(* module Payout only the definitions are at hand here, under P; the       *)
(* prover cannot instantiate a theorem, so what NothingLost needs of the   *)
(* file is proved again, without its types.                                *)
(***************************************************************************)
EXTENDS Ratasker, EcashLedgerProofs, FiniteSetTheorems

Paying == {"tokens", "open", "writing", "mark", "commit", "rollback"}

\* The rotator's goroutine does one thing at a time: from the end of a rotation to
\* that of the payout it rotates nothing, and the payout has the connection from
\* its first statement to its last.
TurnInv ==
    /\ step \in {"rotation", "begin"} \cup Paying
    /\ step # "rotation" => up /\ rot.pc = "sleep"
    /\ step = "begin" => conn # Rotator
    /\ step \in Paying => conn = Rotator

\* The connection as the payment path sees it.
PathConn == IF conn = Rotator /\ step # "rotation" THEN Free ELSE conn

-----------------------------------------------------------------------------
(* The turns of the rotator *)

LEMMA Nobody ==
    /\ Free # Rotator /\ Leaked # Rotator
    /\ {Free, Rotator, Leaked} \cap Requests = {}
BY OwnerAssumption DEF Free, Rotator, Leaked

\* While the payout has the connection no request does anything but wait for it.
LEMMA PayoutIsAlone ==
    ASSUME Exclusive, conn = Rotator, NEW r \in Requests, RequestStep(r)
    PROVE  FALSE
BY Nobody DEF Exclusive, RequestStep, Wait, Work, Lookup, BeginRequest, BeginTransaction,
   VerifyToken, VerifySpelled, StoreEcash, CommitRequest, RollbackRequest

\* A request takes the connection for itself, keeps it, gives it back, or loses it.
LEMMA RequestConn ==
    ASSUME NEW r \in Requests, RequestStep(r)
    PROVE  conn' \in {conn, r, Free, Leaked} /\ UNCHANGED <<up, rot>>
BY DEF RequestStep, Wait, Work, Lookup, BeginRequest, BeginTransaction, VerifyToken,
   VerifySpelled, StoreEcash, CommitRequest, CommitTransaction, RollbackRequest,
   RollbackTransaction

LEMMA RotateIsInside ==
    ASSUME Rotate
    PROVE  rot.pc # "sleep" /\ UNCHANGED <<up, conn, db>> /\ UNCHANGED payoutVars
<1> DEFINE Inside == rot.pc # "sleep" /\ UNCHANGED <<up, conn, db>>
<1>1. ASSUME NEW m \in Mints, AskMint(m)
      PROVE  Inside
  BY <1>1 DEF AskMint
<1>2. ASSUME SwapProofs PROVE Inside
  BY <1>2 DEF SwapProofs
<1>3. ASSUME SwapLost \/ SwapRefused \/ MintFails \/ RotatePubkey PROVE Inside
  BY <1>3 DEF SwapLost, SwapRefused, MintFails, RotatePubkey
<1>4. rot.pc # "sleep" /\ UNCHANGED <<up, conn, db>>
  BY <1>1, <1>2, <1>3 DEF Rotate
<1> QED
  BY <1>4 DEF Rotate

LEMMA FinishEnds ==
    ASSUME FinishRotation
    PROVE  /\ rot.pc \in {"commit", "abort"} /\ rot'.pc = "sleep" /\ conn' = Free /\ up' = up
           /\ step' = "begin"
BY DEF FinishRotation, EndRotation, AbortRotation, CommitTransaction,
   RollbackTransaction, IdleRotator

LEMMA OthersTouchNoTurn ==
    ASSUME Others
    PROVE  UNCHANGED <<up, conn, rot, db>> /\ UNCHANGED payoutVars
BY DEF Others, Tick, LockToQuote, Send, RetireKeyset

LEMMA PayOutStep ==
    ASSUME PayOut
    PROVE  step \in {"tokens", "open", "writing", "mark"} /\ step' \in Paying
BY DEF PayOut, P!GetUnspentProofsToTokens, P!OpenTokenFile, P!WriteToken,
   P!ChangeSwappedProofsSpent, Paying

LEMMA TurnInit == RataskerInit => TurnInv
BY DEF RataskerInit, TurnInv, Paying

LEMMA TurnNext == Exclusive /\ TurnInv /\ [RataskerNext]_allVars => TurnInv'
<1> SUFFICES ASSUME Exclusive, TurnInv, [RataskerNext]_allVars PROVE TurnInv'
  OBVIOUS
<1> USE Nobody DEF Paying
<1>1. CASE Start
  <2>1. step = "rotation" /\ step' = step
    BY <1>1 DEF Start, NewDBLocalWallet, TurnInv, P!Restart
  <2> QED
    BY <2>1 DEF TurnInv
<1>2. CASE Die
  BY <1>2 DEF Die, P!Crash, P!Return, TurnInv
<1>3. CASE Others
  BY <1>3, OthersTouchNoTurn DEF TurnInv, payoutVars
<1>4. ASSUME NEW r \in Requests, Serve(r)
      PROVE  TurnInv'
  BY <1>4, RequestConn, PayoutIsAlone DEF Serve, TurnInv, payoutVars
<1>5. CASE StartRotation
  BY <1>5 DEF StartRotation, TurnInv, payoutVars
<1>6. CASE Rotate
  BY <1>6, RotateIsInside DEF TurnInv, payoutVars
<1>7. CASE FinishRotation
  <2>1. up
    BY <1>7, FinishEnds DEF Exclusive
  <2> QED
    BY <1>7, <2>1, FinishEnds DEF TurnInv
<1>8. CASE BeginPayout
  BY <1>8 DEF BeginPayout, P!BeginTransaction, TurnInv, otherVars
<1>9. CASE PayOut
  BY <1>9, PayOutStep DEF PayOut, vars, TurnInv
<1>10. CASE EndPayout
  BY <1>10 DEF EndPayout, P!Commit, P!Rollback, P!Return, TurnInv
<1>11. CASE UNCHANGED allVars
  BY <1>11 DEF allVars, payoutVars, vars, TurnInv
<1> QED
  BY <1>1, <1>2, <1>3, <1>4, <1>5, <1>6, <1>7, <1>8, <1>9, <1>10, <1>11 DEF RataskerNext

\* All steps but the first and the last of a payout are steps of module Ecash.
LEMMA StepsOfEcash ==
    ASSUME [RataskerNext]_allVars
    PROVE  [Next]_vars \/ BeginPayout \/ EndPayout
<1>1. CASE Others
  BY <1>1 DEF Others, Next
<1>2. CASE Rotate \/ FinishRotation
  BY <1>2 DEF Rotate, FinishRotation, RotatorStep, Next
<1>3. CASE Start \/ Die \/ StartRotation \/ PayOut \/ \E r \in Requests : Serve(r)
  BY <1>3 DEF Start, Die, StartRotation, PayOut, Serve, Next
<1> QED
  BY <1>1, <1>2, <1>3 DEF RataskerNext, allVars

\* The invariants of the payment path hold in the composition, too: the payout's own
\* steps leave it nothing but another holder of the connection.
LEMMA PathInit == RataskerInit => TypeOK /\ LedgerInv /\ TurnInv
BY TypeInit, LedgerInit, TurnInit DEF RataskerInit

LEMMA PathNext ==
    TypeOK /\ LedgerInv /\ TurnInv /\ [RataskerNext]_allVars
      => TypeOK' /\ LedgerInv' /\ TurnInv'
<1> SUFFICES ASSUME TypeOK, LedgerInv, TurnInv, [RataskerNext]_allVars
             PROVE  TypeOK' /\ LedgerInv' /\ TurnInv'
  OBVIOUS
<1>1. Exclusive
  BY DEF LedgerInv, BooksInv
<1>2. TurnInv'
  BY <1>1, TurnNext
<1>3. CASE [Next]_vars
  BY <1>2, <1>3, TypeNext, LedgerNext
<1>4. CASE BeginPayout \/ EndPayout
  <2>1. UNCHANGED otherVars /\ conn' \in {Free, Rotator}
    BY <1>4 DEF BeginPayout, EndPayout
  <2>2. TypeOK'
    BY <2>1 DEF TypeOK, otherVars
  <2>3. Exclusive'
    <3>1. step # "rotation" /\ (conn' = Rotator => conn = Free)
      BY <1>4, Nobody DEF BeginPayout, EndPayout, P!BeginTransaction, P!Commit, P!Rollback
    <3>2. up /\ rot.pc = "sleep" /\ conn \notin Requests
      BY <1>4, <3>1, Nobody DEF TurnInv, Paying, BeginPayout, EndPayout, P!Commit,
         P!Rollback
    <3> QED
      BY <1>1, <2>1, <3>2 DEF Exclusive, otherVars
  <2>4. UNCHANGED <<db, tx, rot, req, mint>>
    BY <2>1 DEF otherVars
  <2>5. (SignedForInputs /\ FreshOutputs /\ TodoIsUntouched)'
    <3>1. SignedForInputs /\ FreshOutputs /\ TodoIsUntouched
      BY DEF LedgerInv, BooksInv
    <3> QED
      BY <2>4, <3>1 DEF SignedForInputs, FreshOutputs, TodoIsUntouched
  <2>6. \A d \in {db', tx'} : Balanced(d) /\ Recovers(d)' /\ Counted(d)
    <3>1. \A d \in {db, tx} : Balanced(d) /\ Recovers(d) /\ Counted(d)
      BY DEF LedgerInv, BooksInv
    <3>2. \A d : Recovers(d)' <=> Recovers(d)
      BY <2>4 DEF Recovers
    <3> QED
      BY <2>4, <3>1, <3>2
  <2>7. BooksInv'
    BY <2>3, <2>5, <2>6 DEF BooksInv
  <2>8. LedgerInv'
    <3>1. \A r \in Requests : HasStored(r)' <=> HasStored(r)
      BY <2>4 DEF HasStored
    <3>2. \A M : HasSwapped(M)' <=> HasSwapped(M)
      BY <2>4 DEF HasSwapped
    <3> QED
      BY <2>4, <2>7, <3>1, <3>2 DEF LedgerInv
  <2> QED
    BY <1>2, <2>2, <2>8
<1> QED
  BY <1>3, <1>4, StepsOfEcash

LEMMA PathAlways == RataskerSpec => [](TypeOK /\ LedgerInv /\ TurnInv)
BY PathInit, PathNext, PTL DEF RataskerSpec

-----------------------------------------------------------------------------
(* What the composition keeps of the payment path's own promises *)

\* The committed database changes as module Ledger says in the whole program, too, and
\* its books agree with what the mints signed and with what was paid: the payout in
\* between commits nothing but its own column.
THEOREM RataskerImplementsLedger ==
    RataskerSpec => /\ ImplementsLedger
                    /\ PaidInFull
                    /\ [](SwappedOnce /\ FreshOutputs /\ Recoverable)
<1>1. RataskerInit => L!Init
  BY LedgerFirst DEF RataskerInit
<1>2. /\ TypeOK /\ LedgerInv /\ LedgerInv' /\ [RataskerNext]_allVars
         => [L!Next]_(L!vars)
  <2> SUFFICES ASSUME TypeOK, LedgerInv, LedgerInv', [RataskerNext]_allVars
               PROVE  [L!Next]_(L!vars)
    OBVIOUS
  <2>1. CASE [Next]_vars
    BY <2>1, LedgerStep
  <2>2. CASE BeginPayout \/ EndPayout
    <3>1. db' = db
      BY <2>2 DEF BeginPayout, EndPayout, otherVars
    <3> QED
      BY <3>1 DEF L!vars
  <2> QED
    BY <2>1, <2>2, StepsOfEcash
<1>3. LedgerInv => SwappedOnce /\ FreshOutputs /\ Recoverable
  BY DEF LedgerInv, BooksInv, SwappedOnce, Recoverable
<1>4. RataskerInit => FullInv
  BY FullInit DEF RataskerInit
<1>5. /\ TypeOK /\ FullInv /\ [RataskerNext]_allVars => FullInv'
  <2> SUFFICES ASSUME TypeOK, FullInv, [RataskerNext]_allVars PROVE FullInv'
    OBVIOUS
  <2>1. CASE BeginPayout \/ EndPayout
    BY <2>1 DEF BeginPayout, EndPayout, otherVars, FullInv
  <2> QED
    BY <2>1, FullNext, StepsOfEcash
<1>6. /\ TypeOK /\ LedgerInv /\ FullInv /\ [RataskerNext]_allVars
         => [\A r \in Requests :
               (conn = r /\ db' # db) => Value(db'.locked \ db.locked) >= Price[r]]_vars
  <2> SUFFICES ASSUME TypeOK, LedgerInv, FullInv, [RataskerNext]_allVars,
                      NEW r \in Requests, conn = r, db' # db
               PROVE  Value(db'.locked \ db.locked) >= Price[r]
    OBVIOUS
  <2>1. ~(BeginPayout \/ EndPayout)
    BY DEF BeginPayout, EndPayout, otherVars
  <2> QED
    BY <2>1, FullStep, StepsOfEcash
<1> QED
  BY <1>1, <1>2, <1>3, <1>4, <1>5, <1>6, PathAlways, PTL
     DEF RataskerSpec, ImplementsLedger, L!Spec, PaidInFull

\* So do the promises about keys: the payout shares goroutine and connection with the
\* rotation, and still rows stay signable, seen proofs are refused, and the key that
\* payers were quoted holds until it is due.
THEOREM RataskerKeepsKeys ==
    RataskerSpec => []SignableRows /\ SeenIsRefused /\ QuoteHoldsUntilDue
<1> DEFINE KeyPromises == KeysInv /\ FilterInv /\ RotationInv
<1>1. RataskerInit => KeyPromises
  BY KeysInit, FilterInit, RotationInit DEF RataskerInit
<1>2. TypeOK /\ KeyPromises /\ LedgerInv' /\ [RataskerNext]_allVars => KeyPromises'
  <2> SUFFICES ASSUME TypeOK, KeyPromises, LedgerInv', [RataskerNext]_allVars
               PROVE  KeyPromises'
    OBVIOUS
  <2>1. CASE [Next]_vars
    BY <2>1, KeysNext, FilterNext, RotationNext
  <2>2. CASE BeginPayout \/ EndPayout
    <3>1. Exclusive'
      BY DEF LedgerInv, BooksInv
    <3>2. UNCHANGED otherVars
      BY <2>2 DEF BeginPayout, EndPayout
    <3>3. KeysInv'
      BY <3>1, <3>2 DEF otherVars, KeysInv, SignableRows
    <3>4. FilterInv'
      BY <3>1, <3>2 DEF otherVars, FilterInv
    <3>5. RotationInv'
      BY <3>1, <3>2 DEF otherVars, RotationInv
    <3> QED
      BY <3>3, <3>4, <3>5
  <2> QED
    BY <2>1, <2>2, StepsOfEcash
<1>3. KeyPromises => SignableRows
  BY DEF KeysInv
<1> DEFINE Refused ==
      \A r \in Requests : \A respelled \in SUBSET DOMAIN req[r].token :
         (req'[r].pc = "store" /\ VerifySpelled(r, respelled)) =>
             \A i \in DOMAIN req[r].token \ respelled : req[r].token[i] \notin Held(tx)
<1>5. TypeOK /\ KeyPromises => [Refused]_vars
  BY SeenStep
<1>4. TypeOK /\ KeyPromises /\ [RataskerNext]_allVars =>
        [(up /\ up' /\ <<wallet.key, wallet.version>>' # <<wallet.key, wallet.version>>)
           => now + Margin > wallet.expires]_vars
  <2> SUFFICES ASSUME TypeOK, RotationInv, [RataskerNext]_allVars,
                      up, up', <<wallet.key, wallet.version>>' # <<wallet.key, wallet.version>>
               PROVE  now + Margin > wallet.expires
    OBVIOUS
  <2>1. ~(BeginPayout \/ EndPayout)
    BY DEF BeginPayout, EndPayout, otherVars
  <2> QED
    BY <2>1, KeyStep, StepsOfEcash
<1> HIDE DEF KeyPromises
<1> QED
  BY <1>1, <1>2, <1>3, <1>4, <1>5, PathAlways, PTL
     DEF RataskerSpec, QuoteHoldsUntilDue, SeenIsRefused

-----------------------------------------------------------------------------
(* Module Ecash is implemented *)

\* The operators that do not look at the connection are the same in the instance.
LEMMA SameAmounts ==
    /\ \A ps : E!Value(ps) = Value(ps)
    /\ \A ps : E!CalculateFeesFromProofs(ps) = CalculateFeesFromProofs(ps)
    /\ \A token : E!TokenAmount(token) = TokenAmount(token)
<1>1. \A ps : E!Value(ps) = Value(ps)
  BY DEF E!Value, Value, E!MapThenSumSet, MapThenSumSet, E!MapThenFoldSet, MapThenFoldSet
<1>2. \A ps : E!CalculateFeesFromProofs(ps) = CalculateFeesFromProofs(ps)
  BY DEF E!CalculateFeesFromProofs, CalculateFeesFromProofs, E!MapThenSumSet,
     MapThenSumSet, E!MapThenFoldSet, MapThenFoldSet
<1>3. \A token : E!TokenAmount(token) = TokenAmount(token)
  BY DEF E!TokenAmount, TokenAmount, E!FoldFunction, FoldFunction, E!FoldFunctionOnSet,
     FoldFunctionOnSet, E!MapThenFoldSet, MapThenFoldSet
<1> QED
  BY <1>1, <1>2, <1>3

LEMMA SameBatches ==
    /\ \A ps : E!AmountToAsk(ps) = AmountToAsk(ps)
    /\ \A ps, k, i : E!Batch(ps, k, i) = Batch(ps, k, i)
<1>1. \A ps : E!AmountToAsk(ps) = AmountToAsk(ps)
  BY SameAmounts DEF E!AmountToAsk, AmountToAsk
<1>2. \A n : E!OutputCount(n) = OutputCount(n)
  BY DEF E!OutputCount, OutputCount, E!Cardinality, Cardinality
<1>3. \A ps, k, i : E!Batch(ps, k, i) = Batch(ps, k, i)
  BY <1>1, <1>2 DEF E!Batch, Batch
<1> QED
  BY <1>1, <1>3

LEMMA SameStatements ==
    /\ \A d, m : E!ProofsToSwap(d, m) = ProofsToSwap(d, m)
    /\ \A d, k : E!GetKeysetCounter(d, k) = GetKeysetCounter(d, k)
    /\ \A d, k : E!CanSetKeysetCounter(d, k) <=> CanSetKeysetCounter(d, k)
    /\ \A d, k, c : E!SetKeysetCounter(d, k, c) = SetKeysetCounter(d, k, c)
    /\ \A d, b : E!CanAddProofs(d, b) <=> CanAddProofs(d, b)
    /\ \A d, t : E!CanAddLockedProofs(d, t) <=> CanAddLockedProofs(d, t)
    /\ \A d, t, v : E!AddLockedProofs(d, t, v) = AddLockedProofs(d, t, v)
    /\ \A d, e : E!RotateNewPubkey(d, e) = RotateNewPubkey(d, e)
<1>1. \A d, m : E!ProofsToSwap(d, m) = ProofsToSwap(d, m)
  BY DEF E!ProofsToSwap, ProofsToSwap, E!GetLockedProofsByRedeemed,
     GetLockedProofsByRedeemed
<1>2. \A d, k : E!GetKeysetCounter(d, k) = GetKeysetCounter(d, k)
  BY DEF E!GetKeysetCounter, GetKeysetCounter, E!NoRow, NoRow
<1>3. \A d, k : E!CanSetKeysetCounter(d, k) <=> CanSetKeysetCounter(d, k)
  BY DEF E!CanSetKeysetCounter, CanSetKeysetCounter, E!NoRow, NoRow
<1>4. \A d, k, c : E!SetKeysetCounter(d, k, c) = SetKeysetCounter(d, k, c)
  BY DEF E!SetKeysetCounter, SetKeysetCounter
<1>5. \A d, b : E!CanAddProofs(d, b) <=> CanAddProofs(d, b)
  BY DEF E!CanAddProofs, CanAddProofs, E!SharesSecret, SharesSecret, E!Indices, Indices
<1>6. \A d, t : E!CanAddLockedProofs(d, t) <=> CanAddLockedProofs(d, t)
  BY DEF E!CanAddLockedProofs, CanAddLockedProofs, E!IsInjective, IsInjective, E!Range,
     Range
<1>7. \A d, t, v : E!AddLockedProofs(d, t, v) = AddLockedProofs(d, t, v)
  BY DEF E!AddLockedProofs, AddLockedProofs, E!Range, Range
<1>8. \A d, e : E!RotateNewPubkey(d, e) = RotateNewPubkey(d, e)
  BY DEF E!RotateNewPubkey, RotateNewPubkey
<1> QED
  BY <1>1, <1>2, <1>3, <1>4, <1>5, <1>6, <1>7, <1>8

LEMMA SameSwaps ==
    /\ \A k : E!Request(k) = Request(k)
    /\ \A b : E!MintAccepts(b) <=> MintAccepts(b)
    /\ \A b : E!MintSwaps(b) <=> MintSwaps(b)
    /\ \A b : E!Swapped(b) = Swapped(b)
<1>1. \A k : E!Request(k) = Request(k)
  BY SameBatches, SameStatements DEF E!Request, Request
<1>2. \A b : E!MintAccepts(b) <=> MintAccepts(b)
  BY SameBatches, SameAmounts DEF E!MintAccepts, MintAccepts
<1>3. \A b : E!MintSwaps(b) <=> MintSwaps(b)
  BY DEF E!MintSwaps, MintSwaps
<1>4. \A b : E!Swapped(b) = Swapped(b)
  BY DEF E!Swapped, Swapped, E!AddProofs, AddProofs, E!ChangeLockedProofsRedeem,
     ChangeLockedProofsRedeem, E!ModifyKeysetCounter, ModifyKeysetCounter, E!NoRow, NoRow
<1> QED
  BY <1>1, <1>2, <1>3, <1>4

LEMMA SameConstants ==
    /\ E!Free = Free /\ E!Rotator = Rotator /\ E!Leaked = Leaked /\ E!NoKey = NoKey
    /\ E!NoWallet = NoWallet /\ E!IdleRequest = IdleRequest /\ E!IdleRotator = IdleRotator
    /\ E!EmptyTables = EmptyTables /\ E!Tokens = Tokens /\ E!Started = Started
    /\ \A kind : E!Fault(kind) <=> Fault(kind)
    /\ \A r, pc : E!GoTo(r, pc) <=> GoTo(r, pc)
<1>1. /\ E!Free = Free /\ E!Rotator = Rotator /\ E!Leaked = Leaked /\ E!NoKey = NoKey
      /\ E!NoWallet = NoWallet /\ E!IdleRequest = IdleRequest
      /\ E!IdleRotator = IdleRotator
  BY DEF E!Free, Free, E!Rotator, Rotator, E!Leaked, Leaked, E!NoKey, NoKey,
     E!NoWallet, NoWallet,
     E!IdleRequest, IdleRequest, E!IdleRotator, IdleRotator
<1>2. E!EmptyTables = EmptyTables /\ E!Tokens = Tokens
  BY DEF E!EmptyTables, EmptyTables, E!NoRow, NoRow, E!Tokens, Tokens
<1>3. E!Started = Started
  BY SameStatements DEF E!Started, Started
<1>4. \A kind : E!Fault(kind) <=> Fault(kind)
  BY DEF E!Fault, Fault
<1>5. \A r, pc : E!GoTo(r, pc) <=> GoTo(r, pc)
  BY DEF E!GoTo, GoTo
<1> QED
  BY <1>1, <1>2, <1>3, <1>4, <1>5

\* So are the operators on the connection where the payment path sees it as it is.
LEMMA SameTransactions ==
    ASSUME PathConn' = conn'
    PROVE  /\ PathConn = conn =>
                \A owner : BeginTransaction(owner) => E!BeginTransaction(owner)
           /\ CommitTransaction => E!CommitTransaction
           /\ RollbackTransaction => E!RollbackTransaction
BY SameConstants DEF PathConn, E!BeginTransaction, BeginTransaction, E!CommitTransaction,
   CommitTransaction, E!RollbackTransaction, RollbackTransaction

-----------------------------------------------------------------------------
(* Every action of the path is one of the instance *)

LEMMA RequestMirrored ==
    ASSUME PathConn = conn, PathConn' = conn', NEW r \in Requests, RequestStep(r)
    PROVE  E!RequestStep(r)
<1>6. CASE Lookup(r)
  BY <1>6, SameConstants, SameTransactions DEF Lookup, E!Lookup, E!RequestStep, E!Wait,
     PathConn
<1>1. CASE BeginRequest(r)
  BY <1>1, SameConstants, SameTransactions DEF BeginRequest, E!BeginRequest,
     E!RequestStep, E!Wait
<1>2. CASE VerifyToken(r)
  <2>1. \A token, i, fp, respelled :
          E!Rejects(token, i, fp, respelled) <=> Rejects(token, i, fp, respelled)
    BY DEF E!Rejects, Rejects, E!GetLockedProofsByC, GetLockedProofsByC
  <2>2. \A t : E!Range(t) = Range(t)
    BY DEF E!Range, Range
  <2>3. PICK respelled \in SUBSET DOMAIN req[r].token : VerifySpelled(r, respelled)
    BY <1>2 DEF VerifyToken
  <2>4. E!VerifySpelled(r, respelled)
    BY <2>1, <2>2, <2>3, SameConstants, SameAmounts DEF VerifySpelled, E!VerifySpelled,
       PathConn
  <2>5. E!VerifyToken(r)
    BY <2>4 DEF E!VerifyToken
  <2> QED
    BY <2>5 DEF E!RequestStep, E!Work
<1>3. CASE StoreEcash(r)
  <2>1. E!StoreEcash(r)
    BY <1>3, SameConstants, SameStatements DEF StoreEcash, E!StoreEcash, PathConn
  <2> QED
    BY <2>1 DEF E!RequestStep, E!Work
<1>4. CASE CommitRequest(r)
  BY <1>4, SameConstants, SameTransactions DEF CommitRequest, E!CommitRequest,
     E!RequestStep, E!Work
<1>5. CASE RollbackRequest(r)
  BY <1>5, SameConstants, SameTransactions
   DEF RollbackRequest, E!RollbackRequest, E!RequestStep, E!Work
<1> QED
  BY <1>1, <1>2, <1>3, <1>4, <1>5, <1>6 DEF RequestStep, Wait, Work

LEMMA RotatorMirrored ==
    ASSUME PathConn = conn, PathConn' = conn', RotatorStep
    PROVE  E!RotatorStep
<1>1. ASSUME NEW m \in Mints, AskMint(m)
      PROVE  E!RotatorStep
  <2>1. E!AskMint(m)
    BY <1>1, SameBatches, SameStatements DEF AskMint, E!AskMint, PathConn
  <2> QED
    BY <2>1 DEF E!RotatorStep
<1>2. CASE SwapProofs
  <2>1. PICK k \in rot.keyset : SwapProofs!(k)
    BY <1>2 DEF SwapProofs
  <2>2. E!SwapProofs!(k)
    BY <2>1, SameSwaps, SameStatements DEF PathConn
  <2> QED
    BY <2>2 DEF E!SwapProofs, E!RotatorStep
<1>3. CASE SwapLost
  <2>1. E!SwapLost
    BY <1>3, SameSwaps, SameConstants DEF SwapLost, E!SwapLost, PathConn
  <2> QED
    BY <2>1 DEF E!RotatorStep
<1>4. CASE SwapRefused
  <2>1. E!SwapRefused
    BY <1>4, SameSwaps DEF SwapRefused, E!SwapRefused, PathConn
  <2> QED
    BY <2>1 DEF E!RotatorStep
<1>5. CASE MintFails
  BY <1>5, SameConstants DEF MintFails, E!MintFails, E!RotatorStep, PathConn
<1>6. CASE RotatePubkey
  BY <1>6, SameStatements DEF RotatePubkey, E!RotatePubkey, E!RotatorStep, PathConn
<1>7. CASE EndRotation
  BY <1>7, SameConstants, SameTransactions DEF EndRotation, E!EndRotation, E!RotatorStep
<1>8. CASE AbortRotation
  BY <1>8, SameConstants, SameTransactions DEF AbortRotation, E!AbortRotation, E!RotatorStep
<1> QED
  BY <1>1, <1>2, <1>3, <1>4, <1>5, <1>6, <1>7, <1>8 DEF RotatorStep

LEMMA OthersMirrored ==
    ASSUME Others, PathConn' = PathConn
    PROVE  E!Next
<1>1. CASE Tick
  BY <1>1 DEF Tick, E!Tick, E!Next, PathConn
<1>2. ASSUME NEW p \in Proofs, LockToQuote(p)
      PROVE  E!Next
  <2>1. E!LockToQuote(p)
    BY <1>2, SameConstants DEF LockToQuote, E!LockToQuote, PathConn
  <2> QED
    BY <2>1 DEF E!Next
<1>3. ASSUME NEW r \in Requests, NEW t \in Tokens, Send(r, t)
      PROVE  E!Next
  <2>1. E!Send(r, t)
    BY <1>3, SameConstants DEF Send, E!Send, PathConn
  <2> QED
    BY <2>1, SameConstants DEF E!Next
<1>4. ASSUME NEW m \in Mints, RetireKeyset(m)
      PROVE  E!Next
  <2>1. E!RetireKeyset(m)
    BY <1>4 DEF RetireKeyset, E!RetireKeyset, PathConn
  <2> QED
    BY <2>1 DEF E!Next
<1> QED
  BY <1>1, <1>2, <1>3, <1>4 DEF Others

LEMMA PathFirst == RataskerInit => E!Init
<1> SUFFICES ASSUME RataskerInit PROVE E!Init
  OBVIOUS
<1>1. Init /\ PathConn = Free
  BY DEF RataskerInit, Init, PathConn
<1> QED
  BY <1>1, SameConstants DEF Init, E!Init, PathConn

LEMMA PathStep ==
    TypeOK /\ LedgerInv /\ TurnInv /\ TurnInv' /\ [RataskerNext]_allVars
      => [E!Next]_(E!vars)
<1> SUFFICES ASSUME TypeOK, LedgerInv, TurnInv, TurnInv', [RataskerNext]_allVars
             PROVE  E!Next \/ UNCHANGED E!vars
  OBVIOUS
<1>1. Exclusive
  BY DEF LedgerInv, BooksInv
<1>2. CASE Start
  <2>1. PathConn' = PathConn
    BY <1>2 DEF Start, NewDBLocalWallet, P!Restart, PathConn
  <2>2. E!NewDBLocalWallet
    BY <1>2, <2>1, SameConstants DEF Start, NewDBLocalWallet, E!NewDBLocalWallet, PathConn,
       E!GetLockedProofsByRedeemed, GetLockedProofsByRedeemed
  <2> QED
    BY <2>2 DEF E!Next
<1>3. CASE Die
  <2>1. PathConn' = conn'
    BY <1>3, Nobody DEF Die, Crash, RollbackTransaction, PathConn
  <2>2. E!Crash
    BY <1>3, <2>1, SameConstants, SameTransactions DEF Die, Crash, E!Crash
  <2> QED
    BY <2>2 DEF E!Next
<1>4. CASE Others
  BY <1>4, OthersTouchNoTurn, OthersMirrored DEF payoutVars, PathConn
<1>5. ASSUME NEW r \in Requests, Serve(r)
      PROVE  E!Next
  <2>1. conn # Rotator \/ step = "rotation"
    BY <1>1, <1>5, PayoutIsAlone DEF Serve
  <2>2. conn' # Rotator \/ step' = "rotation"
    BY <1>5, <2>1, RequestConn, Nobody DEF Serve, payoutVars
  <2>3. E!RequestStep(r)
    BY <1>5, <2>1, <2>2, RequestMirrored DEF Serve, PathConn
  <2> QED
    BY <2>3 DEF E!Next
<1>6. CASE StartRotation
  <2>1. PathConn = conn /\ PathConn' = conn'
    BY <1>6 DEF StartRotation, payoutVars, PathConn
  <2>2. E!Due <=> Due
    BY DEF E!Due, Due
  <2>3. E!BeginRotation
    BY <1>6, <2>1, <2>2, SameConstants, SameTransactions DEF StartRotation, BeginRotation,
       E!BeginRotation, E!GetLockedProofsByRedeemed, GetLockedProofsByRedeemed
  <2> QED
    BY <2>3 DEF E!Next
<1>7. CASE Rotate \/ FinishRotation
  <2>1. step = "rotation"
    BY <1>7, RotateIsInside, FinishEnds DEF TurnInv
  <2>2. step' = "rotation" \/ conn' = Free
    BY <1>7, <2>1, RotateIsInside, FinishEnds DEF payoutVars
  <2>3. RotatorStep
    BY <1>7 DEF Rotate, FinishRotation, RotatorStep
  <2>4. E!RotatorStep
    BY <2>1, <2>2, <2>3, Nobody, RotatorMirrored DEF PathConn
  <2> QED
    BY <2>4 DEF E!Next
<1>8. CASE BeginPayout \/ EndPayout
  <2>1. PathConn = Free /\ PathConn' = Free
    BY <1>8, Nobody DEF BeginPayout, EndPayout, P!BeginTransaction, P!Commit, P!Rollback,
       TurnInv, Paying, PathConn
  <2> QED
    BY <1>8, <2>1 DEF BeginPayout, EndPayout, otherVars, E!vars, PathConn
<1>9. CASE PayOut
  <2>1. PathConn = Free /\ PathConn' = Free
    BY <1>9, PayOutStep DEF TurnInv, Paying, PathConn
  <2> QED
    BY <1>9, <2>1 DEF PayOut, vars, E!vars, PathConn
<1>10. CASE UNCHANGED allVars
  BY <1>10 DEF allVars, vars, payoutVars, E!vars
<1> QED
  BY <1>2, <1>3, <1>4, <1>5, <1>6, <1>7, <1>8, <1>9, <1>10 DEF RataskerNext

\* Beside the payout, the payment path behaves as module Ecash says of it alone: the
\* connection that the payout has looks free and slow to come.
THEOREM EcashIsImplemented == RataskerSpec => ImplementsEcash
BY PathAlways, PathFirst, PathStep, PTL DEF RataskerSpec, ImplementsEcash, E!Spec

-----------------------------------------------------------------------------
(* Module Payout is implemented *)

\* Only the end of a rotation adds batches, at most one for each mint; it keeps
\* those there are.
NewBatches == {b.ins : b \in db'.swapped} \ {b.ins : b \in db.swapped}

LEMMA RequestSwapsNothing ==
    ASSUME LedgerInv, NEW r \in Requests, RequestStep(r)
    PROVE  db'.swapped = db.swapped
<1>1. CASE CommitRequest(r)
  BY <1>1 DEF CommitRequest, CommitTransaction, LedgerInv, HasStored
<1>2. CASE ~CommitRequest(r)
  <2>1. UNCHANGED db
    BY <1>2 DEF RequestStep, Wait, Work, Lookup, BeginRequest, VerifyToken, VerifySpelled,
       StoreEcash, RollbackRequest, RollbackTransaction
  <2> QED
    BY <2>1
<1> QED
  BY <1>1, <1>2

\* The held proofs of a mint are a bundle.
LEMMA HeldAreBundle ==
    ASSUME TypeOK, NEW m \in Mints, ProofsToSwap(db, m) # {}
    PROVE  ProofsToSwap(db, m) \in Bundles
<1>1. ProofsToSwap(db, m) \subseteq db.locked \cup db.redeemed
  BY DEF ProofsToSwap, GetLockedProofsByRedeemed
<1>2. ProofsToSwap(db, m) \subseteq Proofs
  BY <1>1 DEF TypeOK, Tables
<1>3. \A p \in ProofsToSwap(db, m) : MintOf[p] = m
  BY DEF ProofsToSwap
<1> QED
  BY <1>2, <1>3 DEF Bundles

LEMMA RotationSwapsBundles ==
    ASSUME TypeOK, LedgerInv, FinishRotation
    PROVE  /\ NewBatches \subseteq Bundles
           /\ {b.ins : b \in db'.swapped} = {b.ins : b \in db.swapped} \cup NewBatches
<1>1. db' = db \/ (rot.pc = "commit" /\ db' = tx)
  BY DEF FinishRotation, EndRotation, AbortRotation, CommitTransaction, RollbackTransaction
<1>2. CASE db' = db
  BY <1>2 DEF NewBatches
<1>3. CASE rot.pc = "commit" /\ db' = tx
  <2>1. PICK M \in SUBSET Mints : HasSwapped(M)
    BY <1>3 DEF LedgerInv
  <2>2. /\ \A m \in M : ProofsToSwap(db, m) # {}
        /\ {b.ins : b \in db'.swapped} =
              {b.ins : b \in db.swapped} \cup {ProofsToSwap(db, m) : m \in M}
    BY <1>3, <2>1 DEF HasSwapped
  <2>3. \A m \in M : ProofsToSwap(db, m) \in Bundles
    BY <2>2, HeldAreBundle
  <2> QED
    BY <2>2, <2>3 DEF NewBatches
<1> QED
  BY <1>1, <1>2, <1>3

LEMMA PayoutFirst == RataskerInit => P!Init
<1> SUFFICES ASSUME RataskerInit PROVE P!Init
  OBVIOUS
<1>1. up = FALSE /\ db.swapped = {}
  BY DEF RataskerInit, Init, EmptyTables
<1>2. {b.ins : b \in db.swapped} = {}
  BY <1>1
<1> QED
  BY <1>1, <1>2 DEF RataskerInit, P!Init

LEMMA PayoutStep ==
    TypeOK /\ LedgerInv /\ TurnInv /\ [RataskerNext]_allVars => [P!Next]_(P!vars)
<1> SUFFICES ASSUME TypeOK, LedgerInv, TurnInv, [RataskerNext]_allVars
             PROVE  P!Next \/ UNCHANGED P!vars
  OBVIOUS
<1>1. CASE Start \/ Die
  BY <1>1 DEF Start, Die, P!Next
<1>2. ASSUME UNCHANGED payoutVars, up' = up, db'.swapped = db.swapped
      PROVE  UNCHANGED P!vars
  BY <1>2 DEF payoutVars, P!vars
<1>3. CASE Others
  BY <1>2, <1>3, OthersTouchNoTurn
<1>4. ASSUME NEW r \in Requests, Serve(r)
      PROVE  UNCHANGED P!vars
  BY <1>2, <1>4, RequestConn, RequestSwapsNothing DEF Serve
<1>5. CASE StartRotation
  BY <1>2, <1>5 DEF StartRotation, BeginRotation
<1>6. CASE Rotate
  BY <1>2, <1>6, RotateIsInside
<1>7. CASE FinishRotation
  <2>1. up' = up /\ step = "rotation" /\ step' = "begin"
    BY <1>7, FinishEnds DEF TurnInv
  <2>2. up
    BY <1>7, FinishEnds, Nobody DEF LedgerInv, BooksInv, Exclusive
  <2>3. UNCHANGED <<lapses, spent, spentTx, tokens, content, file, cut>>
    BY <1>7 DEF FinishRotation
  <2>4. PICK new \in SUBSET Bundles : new = NewBatches
    BY <1>7, RotationSwapsBundles
  <2>5. /\ new \cap {b.ins : b \in db.swapped} = {}
        /\ {b.ins : b \in db'.swapped} = {b.ins : b \in db.swapped} \cup new
    BY <1>7, <2>4, RotationSwapsBundles DEF NewBatches
  <2>6. P!Rotation(new)
    BY <2>1, <2>2, <2>3, <2>5 DEF P!Rotation
  <2> QED
    BY <2>6 DEF P!Next
<1>8. CASE BeginPayout \/ PayOut \/ EndPayout
  BY <1>8 DEF BeginPayout, PayOut, EndPayout, P!SpendSwappedProofs, P!Next
<1>9. CASE UNCHANGED allVars
  BY <1>2, <1>9 DEF allVars, vars
<1> QED
  BY <1>1, <1>3, <1>4, <1>5, <1>6, <1>7, <1>8, <1>9 DEF RataskerNext

\* The payout sees new batches of one mint each, whole, and between payouts only,
\* although requests and rotations share its connection and its database.
THEOREM PayoutIsImplemented == RataskerSpec => ImplementsPayout
BY PathAlways, PayoutFirst, PayoutStep, PTL DEF RataskerSpec, ImplementsPayout, P!Spec

-----------------------------------------------------------------------------
(* Nothing is lost *)

\* The file and the tokens are sequences, and what is spent, or about to be, is in the
\* file or will be at the end of the write.
IsTokens(s) == \E S : s \in Seq(S)

PaidInv ==
    /\ IsTokens(tokens) /\ IsTokens(file)
    /\ step \in {"tokens", "open", "writing", "mark"} => spentTx = spent
    /\ ~cut =>
         /\ step # "writing" => \A p \in spent : P!Contains(file, p)
         /\ step = "writing" => \A p \in spent : P!Contains(content, p)
         /\ step = "writing" => \A p : P!Contains(tokens, p) => P!Contains(content, p)
         /\ step = "mark" => \A p : P!Contains(tokens, p) => P!Contains(file, p)
         /\ step = "commit" => \A p \in spentTx : P!Contains(file, p)

LEMMA ContainsBoth ==
    ASSUME NEW s, NEW t, IsTokens(s), IsTokens(t), NEW p,
           P!Contains(s, p) \/ P!Contains(t, p)
    PROVE  P!Contains(s \o t, p)
<1>1. PICK S, T : s \in Seq(S) /\ t \in Seq(T)
  BY DEF IsTokens
<1>2. s \in Seq(S \cup T) /\ t \in Seq(S \cup T)
  BY <1>1
<1>3. \A i \in DOMAIN s : i \in DOMAIN (s \o t) /\ (s \o t)[i] = s[i]
  BY <1>2
<1>4. \A i \in DOMAIN t : Len(s) + i \in DOMAIN (s \o t) /\ (s \o t)[Len(s) + i] = t[i]
  BY <1>2
<1>5. CASE P!Contains(s, p)
  BY <1>3, <1>5 DEF P!Contains
<1>6. CASE P!Contains(t, p)
  <2>1. PICK i \in DOMAIN t : p \in t[i]
    BY <1>6 DEF P!Contains
  <2> QED
    BY <1>4, <2>1 DEF P!Contains
<1> QED
  BY <1>5, <1>6

LEMMA TokensAreTokens ==
    ASSUME NEW ms \in SUBSET Mints, NEW t \in P!TokensOf(ms)
    PROVE  IsTokens(t)
<1>1. IsFiniteSet(ms)
  BY RataskerAssumption, FS_Subset DEF RataskerAssumption
<1>2. Cardinality(ms) \in Nat
  BY <1>1, FS_CardinalityType
<1>3. t \in [1 .. Cardinality(ms) -> {P!GetBySpentProofs(m) : m \in ms}]
  BY DEF P!TokensOf, P!Cardinality, Cardinality
<1>4. t \in Seq({P!GetBySpentProofs(m) : m \in ms})
  BY <1>2, <1>3
<1> QED
  BY <1>4 DEF IsTokens

LEMMA PaidInit == RataskerInit => PaidInv
<1> SUFFICES ASSUME RataskerInit PROVE PaidInv
  OBVIOUS
<1>1. <<>> \in Seq({})
  OBVIOUS
<1> QED
  BY <1>1 DEF RataskerInit, PaidInv, IsTokens

LEMMA PaidNext ==
    ASSUME "disk" \notin Lapses, TurnInv, PaidInv, [RataskerNext]_allVars
    PROVE  PaidInv'
<1>1. ~P!Fault("disk")
  BY DEF P!Fault
<1>2. step \in {"rotation", "begin"} \cup Paying
  BY DEF TurnInv
<1>3. ASSUME UNCHANGED payoutVars
      PROVE  PaidInv'
  BY <1>3 DEF payoutVars, PaidInv
<1>4. CASE Others \/ StartRotation \/ Rotate \/ \E r \in Requests : Serve(r)
  BY <1>3, <1>4 DEF Others, StartRotation, Rotate, Serve
<1>5. CASE UNCHANGED allVars
  BY <1>3, <1>5 DEF allVars
<1>6. ASSUME step' \in {"rotation", "begin"}, IsTokens(tokens'),
             UNCHANGED <<spent, file>>, ~cut' => ~cut /\ step # "writing"
      PROVE  PaidInv'
  BY <1>6 DEF PaidInv
<1>7. <<>> \in Seq({}) /\ IsTokens(<<>>)
  <2>1. <<>> \in Seq({})
    OBVIOUS
  <2> QED
    BY <2>1 DEF IsTokens
<1>8. CASE Start
  <2>1. step = "rotation" /\ UNCHANGED <<step, spent, tokens, file, cut>>
    BY <1>8 DEF Start, NewDBLocalWallet, TurnInv, P!Restart
  <2> QED
    BY <1>6, <2>1 DEF PaidInv
<1>9. CASE Die
  <2>1. step' = "rotation" /\ tokens' = <<>> /\ UNCHANGED <<spent, file>>
    BY <1>9 DEF Die, P!Crash, P!Return
  <2>2. ~cut' => ~cut /\ step # "writing"
    BY <1>9, Zenon DEF Die, P!Crash
  <2> QED
    BY <1>6, <1>7, <2>1, <2>2
<1>10. CASE FinishRotation
  <2>1. step = "rotation" /\ step' = "begin" /\ UNCHANGED <<spent, tokens, file, cut>>
    BY <1>10, FinishEnds DEF TurnInv, FinishRotation
  <2> QED
    BY <1>6, <2>1 DEF PaidInv
<1>11. CASE BeginPayout
  BY <1>11 DEF BeginPayout, P!BeginTransaction, PaidInv
<1>12. CASE P!GetUnspentProofsToTokens
  <2>1. step = "tokens" /\ step' \in {"open", "commit", "rollback"}
    BY <1>12 DEF P!GetUnspentProofsToTokens
  <2>2. UNCHANGED <<spent, spentTx, content, file, cut>>
    BY <1>12 DEF P!GetUnspentProofsToTokens
  <2>3. PICK ms \in SUBSET Mints : tokens' \in P!TokensOf(ms)
    BY <1>12 DEF P!GetUnspentProofsToTokens
  <2>4. IsTokens(tokens')
    BY <2>3, TokensAreTokens
  <2> QED
    BY <2>1, <2>2, <2>4 DEF PaidInv
<1>13. CASE P!OpenTokenFile
  <2>1. /\ step = "open" /\ step' = "writing"
        /\ content' = file \o tokens /\ file' = <<>>
        /\ UNCHANGED <<spent, spentTx, tokens, cut>>
    BY <1>1, <1>13 DEF P!OpenTokenFile
  <2>2. \A p : P!Contains(file, p) \/ P!Contains(tokens, p) => P!Contains(content', p)
    BY <2>1, ContainsBoth DEF PaidInv
  <2>3. spentTx' = spent'
    BY <2>1 DEF PaidInv
  <2>4. ~cut => \A p \in spent : P!Contains(content', p)
    BY <2>1, <2>2 DEF PaidInv
  <2> QED
    BY <1>7, <2>1, <2>2, <2>3, <2>4 DEF PaidInv
<1>14. CASE P!WriteToken
  <2>1. /\ step = "writing" /\ step' \in {"writing", "mark"}
        /\ step' = "mark" => file' = content
        /\ file' = Append(file, content[Len(file) + 1])
        /\ UNCHANGED <<spent, spentTx, tokens, content, cut>>
    BY <1>1, <1>14 DEF P!WriteToken
  <2>2. IsTokens(file')
    <3>1. PICK S : file \in Seq(S)
      BY DEF PaidInv, IsTokens
    <3> DEFINE e == content[Len(file) + 1]
    <3> HIDE DEF e
    <3>2. file \in Seq(S \cup {e})
      BY <3>1
    <3>3. Append(file, e) \in Seq(S \cup {e})
      BY <3>2
    <3> QED
      BY <2>1, <3>3 DEF IsTokens, e
  <2> QED
    BY <2>1, <2>2 DEF PaidInv
<1>15. CASE P!ChangeSwappedProofsSpent
  <2>1. step = "mark" /\ UNCHANGED <<spent, tokens, file, cut>>
    BY <1>15 DEF P!ChangeSwappedProofsSpent
  <2>2. \/ step' = "rollback"
        \/ /\ step' = "commit"
           /\ spentTx' = spentTx \cup {p \in Bundles : P!Contains(tokens, p)}
    BY <1>15 DEF P!ChangeSwappedProofsSpent
  <2> QED
    BY <2>1, <2>2 DEF PaidInv
<1>16. CASE EndPayout
  <2>1. /\ step \in {"commit", "rollback"} /\ step' = "rotation" /\ tokens' = <<>>
        /\ UNCHANGED <<file, cut>>
    BY <1>16 DEF EndPayout, P!Commit, P!Rollback, P!Return
  <2>2. spent' = spent \/ (step = "commit" /\ spent' = spentTx)
    BY <1>16 DEF EndPayout, P!Commit, P!Rollback
  <2> QED
    BY <1>7, <2>1, <2>2 DEF PaidInv
<1> QED
  BY <1>4, <1>5, <1>8, <1>9, <1>10, <1>11, <1>12, <1>13, <1>14, <1>15, <1>16
   DEF RataskerNext, PayOut

\* The property NothingLost: while the disk works, a proof that ever paid is held, or
\* waits for the payout, or is in tokens.txt; across the transactions of requests,
\* rotations and payouts, lost answers of mints, failed commits and crashes, but for
\* a crash in the rewrite of the file.
THEOREM NothingIsLost == ASSUME "disk" \notin Lapses PROVE RataskerSpec => []NothingLost
<1>1. LedgerInv /\ PaidInv => NothingLost
  <2> SUFFICES ASSUME LedgerInv, PaidInv, ~cut, NEW p \in db.locked, p \notin Held(db)
               PROVE  \E b \in db.swapped : p \in b.ins /\ (b.ins \notin spent \/ InFile(b.ins))
    BY DEF NothingLost
  <2>1. p \in UNION {b.ins : b \in db.swapped}
    BY DEF Held, LedgerInv, BooksInv, Balanced
  <2>2. PICK b \in db.swapped : p \in b.ins
    BY <2>1
  <2>3. b.ins \in spent => InFile(b.ins)
    BY DEF PaidInv, InFile
  <2> QED
    BY <2>2, <2>3
<1>2. PaidInv /\ TurnInv /\ [RataskerNext]_allVars => PaidInv'
  BY PaidNext
<1> QED
  BY <1>1, <1>2, PaidInit, PathAlways, PTL DEF RataskerSpec

=============================================================================
