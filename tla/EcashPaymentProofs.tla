------------------------- MODULE EcashPaymentProofs -------------------------
(***************************************************************************)
(* The properties of payments hold for any proofs, mints, requests,        *)
(* amounts and bounds.                                                     *)
(***************************************************************************)
EXTENDS EcashProofs

-----------------------------------------------------------------------------
(* One goroutine at a time *)

LEMMA ExclusiveInit == Init => Exclusive
BY DEF Init, Exclusive, IdleRequest, IdleRotator

\* A step of the rotator's transaction is taken with the connection, and touches
\* no request.
LEMMA RotatorInside ==
    ASSUME Exclusive, RotatorStep
    PROVE  /\ conn = Rotator
           /\ UNCHANGED <<req, lock, now, up>>
<1>1. rot.pc # "sleep"
  BY DEF RotatorStep, AskMint, SwapProofs, SwapLost, SwapRefused, MintFails,
     RotatePubkey, EndRotation, AbortRotation
<1>2. UNCHANGED <<req, lock, now, up>>
  BY DEF RotatorStep, AskMint, SwapProofs, SwapLost, SwapRefused, MintFails,
     RotatePubkey, EndRotation, AbortRotation
<1> QED
  BY <1>1, <1>2 DEF Exclusive

\* Every step inside a transaction is of its owner, and who is outside of one
\* does not enter while the connection is taken.
LEMMA ExclusiveNext == TypeOK /\ Exclusive /\ [Next]_vars => Exclusive'
<1> SUFFICES ASSUME TypeOK, Exclusive, [Next]_vars PROVE Exclusive'
  OBVIOUS
<1> DEFINE Inside == {"verify", "store", "serve", "rollback"}
<1>1. \A r \in Requests : r # Rotator /\ r # Free
  BY OwnerAssumption
<1>2. CASE NewDBLocalWallet
  BY <1>2 DEF NewDBLocalWallet, Exclusive
<1>3. CASE Crash
  BY <1>3 DEF Crash, Exclusive, RollbackTransaction, IdleRequest, IdleRotator
<1>4. CASE Tick
  BY <1>4 DEF Tick, Exclusive
<1>5. ASSUME NEW p \in Proofs, LockToQuote(p)
      PROVE  Exclusive'
  BY <1>5 DEF LockToQuote, Exclusive
<1>6. ASSUME NEW r \in Requests, NEW t \in Tokens, Send(r, t)
      PROVE  Exclusive'
  BY <1>6 DEF Send, Exclusive, TypeOK
<1>7. ASSUME NEW r \in Requests, RequestStep(r)
      PROVE  Exclusive'
  <2> USE DEF TypeOK
  <2>1. ASSUME NEW pc, GoTo(r, pc)
        PROVE  \A s \in Requests : req'[s].pc = IF s = r THEN pc ELSE req[s].pc
    BY <2>1 DEF GoTo, RequestStates
  <2>0. up /\ up' /\ rot' = rot
    BY <1>7 DEF Exclusive, RequestStep, Wait, Work, Lookup, BeginRequest, VerifyToken,
       VerifySpelled, StoreEcash, CommitRequest, RollbackRequest
  <2>7. CASE Lookup(r)
    <3>1. conn = Free /\ req'[r].pc \notin Inside
      BY <2>1, <2>7 DEF Lookup, BeginTransaction, IdleRequest
    <3>2. \A s \in Requests : s # r => req'[s].pc = req[s].pc
      BY <2>1, <2>7 DEF Lookup
    <3> QED
      BY <1>1, <2>0, <3>1, <3>2 DEF Exclusive, Free, Rotator
  <2>2. CASE BeginRequest(r)
    <3>1. conn = Free /\ conn' = r
      BY <2>2 DEF BeginRequest, BeginTransaction
    <3>2. \A s \in Requests : s # r => req'[s].pc = req[s].pc
      BY <2>1, <2>2 DEF BeginRequest
    <3> QED
      BY <1>1, <2>0, <3>1, <3>2 DEF Exclusive, Free, Rotator
  <2>3. CASE VerifyToken(r)
    <3>1. conn = r /\ conn' = conn
      BY <2>3 DEF VerifyToken, VerifySpelled, Exclusive
    <3>2. \A s \in Requests : s # r => req'[s].pc = req[s].pc
      BY <2>1, <2>3 DEF VerifyToken, VerifySpelled
    <3> QED
      BY <2>0, <3>1, <3>2 DEF Exclusive
  <2>4. CASE StoreEcash(r)
    <3>1. conn = r /\ conn' = conn
      BY <2>4 DEF StoreEcash, Exclusive
    <3>2. \A s \in Requests : s # r => req'[s].pc = req[s].pc
      BY <2>1, <2>4 DEF StoreEcash
    <3> QED
      BY <2>0, <3>1, <3>2 DEF Exclusive
  <2>5. CASE CommitRequest(r)
    BY <1>1, <2>5 DEF CommitRequest, CommitTransaction, Exclusive, IdleRequest
  <2>6. CASE RollbackRequest(r)
    BY <1>1, <2>6 DEF RollbackRequest, RollbackTransaction, Exclusive, IdleRequest
  <2> QED
    BY <1>7, <2>2, <2>3, <2>4, <2>5, <2>6, <2>7 DEF RequestStep, Wait, Work
<1>8. CASE BeginRotation
  BY <1>1, <1>8 DEF BeginRotation, BeginTransaction, Exclusive, Due
<1>9. CASE RotatorStep
  <2>1. conn = Rotator /\ req' = req /\ up' = up
    BY <1>9, RotatorInside
  <2>2. \A r \in Requests : req[r].pc \notin Inside
    BY <1>1, <2>1 DEF Exclusive
  <2>3. \/ conn' = conn
        \/ conn' = Free /\ rot'.pc = "sleep"
    <3>1. IdleRotator.pc = "sleep"
      BY DEF IdleRotator
    <3> QED
      BY <1>9, <3>1 DEF RotatorStep, AskMint, SwapProofs, SwapLost, SwapRefused, MintFails,
         RotatePubkey, EndRotation, AbortRotation, CommitTransaction, RollbackTransaction
  <2> QED
    BY <2>1, <2>2, <2>3 DEF Exclusive
<1>10. ASSUME NEW m \in Mints, RetireKeyset(m)
       PROVE  Exclusive'
  BY <1>10 DEF RetireKeyset, Exclusive
<1>11. CASE UNCHANGED vars
  BY <1>11 DEF vars, Exclusive
<1> QED
  BY <1>2, <1>3, <1>4, <1>5, <1>6, <1>7, <1>8, <1>9, <1>10, <1>11 DEF Next

\* The rotator writes no row of locked_proofs but its redeemed column, or it ends
\* its transaction.
LEMMA RotatorKeepsRows ==
    ASSUME TypeOK, RotatorStep
    PROVE  \/ tx' = db
           \/ /\ tx'.locked = tx.locked
              /\ tx'.pubkeyVersion = tx.pubkeyVersion
              /\ tx.redeemed \subseteq tx'.redeemed
<1>1. tx \in Tables
  BY DEF TypeOK
<1>2. ASSUME NEW k, NEW c PROVE
        /\ SetKeysetCounter(tx, k, c).locked = tx.locked
        /\ SetKeysetCounter(tx, k, c).pubkeyVersion = tx.pubkeyVersion
        /\ SetKeysetCounter(tx, k, c).redeemed = tx.redeemed
  BY <1>1 DEF SetKeysetCounter, Tables
<1>3. ASSUME NEW e PROVE
        /\ RotateNewPubkey(tx, e).locked = tx.locked
        /\ RotateNewPubkey(tx, e).pubkeyVersion = tx.pubkeyVersion
        /\ RotateNewPubkey(tx, e).redeemed = tx.redeemed
  BY <1>1 DEF RotateNewPubkey, Tables
<1>4. ASSUME NEW b PROVE
        /\ Swapped(b).locked = tx.locked
        /\ Swapped(b).pubkeyVersion = tx.pubkeyVersion
        /\ tx.redeemed \subseteq Swapped(b).redeemed
  BY <1>1 DEF Swapped, AddProofs, ChangeLockedProofsRedeem, ModifyKeysetCounter, Tables
<1>5. \/ tx' = tx \/ tx' = db
      \/ \E k, c : tx' = SetKeysetCounter(tx, k, c)
      \/ \E e : tx' = RotateNewPubkey(tx, e)
      \/ \E b : tx' = Swapped(b)
  BY DEF RotatorStep, AskMint, SwapProofs, SwapLost, SwapRefused, MintFails,
     RotatePubkey, EndRotation, AbortRotation, CommitTransaction, RollbackTransaction
<1> QED
  BY <1>2, <1>3, <1>4, <1>5

\* A request that gets past VerifyToken has every proof of its token checked.
LEMMA VerifyPassed ==
    ASSUME TypeOK, NEW r \in Requests, NEW respelled, VerifySpelled(r, respelled),
           req'[r].pc = "store"
    PROVE  \E fp : /\ \A i \in DOMAIN req[r].token :
                        \A j \in 1 .. i : ~Rejects(req[r].token, j, fp, respelled)
                   /\ wallet'.filter = wallet.filter \cup Range(req[r].token)
<1> DEFINE token == req[r].token
           Passed(fp) == {i \in DOMAIN token :
                            \A j \in 1 .. i : ~Rejects(token, j, fp, respelled)}
<1>1. ASSUME NEW pc, GoTo(r, pc) PROVE req'[r].pc = pc
  BY <1>1 DEF GoTo, TypeOK, RequestStates
<1>2. PICK fp : /\ wallet' = [wallet EXCEPT !.filter = @ \cup {token[i] : i \in Passed(fp)}]
                /\ GoTo(r, IF Passed(fp) = DOMAIN token THEN "store" ELSE "rollback")
  BY <1>1 DEF VerifySpelled
<1>3. Passed(fp) = DOMAIN token
  BY <1>1, <1>2
<1>4. wallet'.filter = wallet.filter \cup {token[i] : i \in DOMAIN token}
  BY <1>2, <1>3 DEF TypeOK, Wallets
<1>5. \A i \in DOMAIN token : \A j \in 1 .. i : ~Rejects(token, j, fp, respelled)
  BY <1>3
<1> QED
  BY <1>4, <1>5 DEF Range

-----------------------------------------------------------------------------
(* Stored versions *)

LEMMA KeysInit == Init => KeysInv
BY ExclusiveInit DEF Init, KeysInv, SignableRows, EmptyTables, IdleRequest

\* Rows never change version, and a row gets the version VerifyToken compared with.
LEMMA KeysNext == TypeOK /\ KeysInv /\ [Next]_vars => KeysInv'
<1> SUFFICES ASSUME TypeOK, KeysInv, [Next]_vars PROVE KeysInv'
  OBVIOUS
<1>1. Exclusive /\ Exclusive'
  BY ExclusiveNext DEF KeysInv
<1>2. \A r \in Requests : r # Rotator /\ r # Free
  BY OwnerAssumption
<1> DEFINE Checked(r) == req[r].pc = "store" =>
             \A i \in DOMAIN req[r].token : lock[req[r].token[i]] = wallet.version
           Same(d, e) == d.locked = e.locked /\ d.pubkeyVersion = e.pubkeyVersion
<1>3. SignableRows /\ \A r \in Requests : Checked(r)
  BY DEF KeysInv
<1> SUFFICES SignableRows' /\ \A r \in Requests : Checked(r)'
  BY <1>1 DEF KeysInv
\* Most statements do not touch the rows.
<1>4. ASSUME Same(db', db) \/ Same(db', tx), Same(tx', tx) \/ Same(tx', db), lock' = lock
      PROVE  SignableRows'
  BY <1>3, <1>4 DEF SignableRows
<1>5. CASE NewDBLocalWallet
  <2>1. Same(Started, db)
    BY DEF Started, RotateNewPubkey, TypeOK, Tables
  <2>2. SignableRows'
    BY <1>4, <1>5, <2>1 DEF NewDBLocalWallet
  <2> QED
    BY <1>1, <1>5, <2>2 DEF NewDBLocalWallet, Exclusive
<1>6. CASE Crash
  BY <1>4, <1>6 DEF Crash, RollbackTransaction, IdleRequest
<1>7. CASE Tick
  BY <1>3, <1>4, <1>7 DEF Tick
<1>8. ASSUME NEW p \in Proofs, LockToQuote(p)
      PROVE  SignableRows' /\ \A r \in Requests : Checked(r)'
  <2>1. \A q \in Proofs : lock[q] # NoKey => lock'[q] = lock[q]
    BY <1>8 DEF LockToQuote, TypeOK
  <2>2. \A d \in {db, tx} : \A q \in d.locked : q \in Proofs /\ lock[q] # NoKey
    BY <1>3 DEF SignableRows, TypeOK, Tables, NoKey
  <2>3. SignableRows'
    BY <1>3, <1>8, <2>1, <2>2 DEF SignableRows, LockToQuote
  <2>4. ASSUME NEW r \in Requests, req[r].pc = "store", NEW i \in DOMAIN req[r].token
        PROVE  lock'[req[r].token[i]] = wallet.version
    <3>1. req[r].token[i] \in Proofs /\ wallet.version # NoKey
      BY <2>4 DEF TypeOK, RequestStates, Wallets, NoKey
    <3> QED
      BY <1>3, <2>1, <2>4, <3>1
  <2> QED
    BY <1>8, <2>3, <2>4 DEF LockToQuote
<1>9. ASSUME NEW r \in Requests, NEW t \in Tokens, Send(r, t)
      PROVE  SignableRows' /\ \A s \in Requests : Checked(s)'
  <2>1. SignableRows'
    BY <1>4, <1>9 DEF Send
  <2>2. req' = [req EXCEPT ![r] = [pc |-> "lookup", token |-> t]]
    BY <1>9 DEF Send
  <2> QED
    BY <1>3, <1>9, <2>1, <2>2 DEF Send, TypeOK
<1>10. ASSUME NEW r \in Requests, RequestStep(r)
       PROVE  SignableRows' /\ \A s \in Requests : Checked(s)'
  <2>1. ASSUME NEW s \in Requests, s # r
        PROVE  Checked(s)'
    <3>1. req'[s] = req[s] /\ lock' = lock /\ wallet'.version = wallet.version
      BY <1>10, <2>1 DEF RequestStep, Wait, Work, Lookup, BeginRequest, VerifyToken,
         VerifySpelled, StoreEcash, CommitRequest, RollbackRequest, GoTo, TypeOK, Wallets
    <3> QED
      BY <1>3, <3>1
  <2>2. req[r] \in RequestStates
    BY DEF TypeOK
  <2>3. CASE Wait(r) \/ CommitRequest(r) \/ RollbackRequest(r)
    <3>1. req'[r].pc # "store"
      BY <2>2, <2>3 DEF Wait, Lookup, BeginRequest, CommitRequest, RollbackRequest, GoTo,
         IdleRequest, RequestStates, TypeOK
    <3>2. SignableRows'
      BY <1>4, <2>3 DEF Wait, Lookup, BeginRequest, CommitRequest, RollbackRequest,
         BeginTransaction, CommitTransaction, RollbackTransaction
    <3> QED
      BY <2>1, <3>1, <3>2
  <2>4. CASE VerifyToken(r)
    <3>1. SignableRows'
      BY <1>4, <2>4 DEF VerifyToken, VerifySpelled
    <3>2. req'[r].token = req[r].token /\ lock' = lock /\ wallet'.version = wallet.version
      BY <2>2, <2>4 DEF VerifyToken, VerifySpelled, GoTo, TypeOK, RequestStates, Wallets
    <3>3. ASSUME req'[r].pc = "store", NEW i \in DOMAIN req[r].token
          PROVE  lock[req[r].token[i]] = wallet.version
      <4>0. PICK respelled : VerifySpelled(r, respelled)
        BY <2>4 DEF VerifyToken
      <4>1. PICK fp : \A j \in 1 .. i : ~Rejects(req[r].token, j, fp, respelled)
        BY <3>3, <4>0, VerifyPassed
      <4>2. i \in 1 .. i
        BY <2>2, <3>3 DEF RequestStates
      <4> QED
        BY <4>1, <4>2 DEF Rejects
    <3> QED
      BY <2>1, <3>1, <3>2, <3>3
  <2>5. CASE StoreEcash(r)
    <3>1. req'[r].pc # "store"
      BY <2>2, <2>5 DEF StoreEcash, GoTo, RequestStates, TypeOK
    <3>2. CASE tx' = tx
      BY <1>4, <2>1, <2>5, <3>1, <3>2 DEF StoreEcash
    <3>3. CASE tx' = AddLockedProofs(tx, req[r].token, wallet.version)
      <4>1. \A p \in Range(req[r].token) : p \in Proofs /\ lock[p] = wallet.version
        BY <1>3, <2>2, <2>5 DEF StoreEcash, Range, RequestStates
      <4>2. \A p \in tx'.locked : tx'.pubkeyVersion[p] = lock[p]
        BY <1>3, <3>3, <4>1 DEF AddLockedProofs, SignableRows, TypeOK, Tables
      <4>3. SignableRows'
        BY <1>3, <2>5, <4>2 DEF SignableRows, StoreEcash
      <4> QED
        BY <2>1, <3>1, <4>3
    <3> QED
      BY <2>5, <3>2, <3>3 DEF StoreEcash
  <2> QED
    BY <1>10, <2>3, <2>4, <2>5 DEF RequestStep, Work
<1>11. CASE BeginRotation
  BY <1>3, <1>4, <1>11 DEF BeginRotation, BeginTransaction
<1>12. CASE RotatorStep
  <2>1. conn = Rotator /\ UNCHANGED <<req, lock, now, up>>
    BY <1>1, <1>12, RotatorInside
  <2>2. \A r \in Requests : req[r].pc # "store"
    BY <1>1, <1>2, <2>1 DEF Exclusive
  <2>3. Same(tx', tx) \/ Same(tx', db)
    BY <1>12, RotatorKeepsRows
  <2>4. db' = db \/ db' = tx
    BY <1>12 DEF RotatorStep, AskMint, SwapProofs, SwapLost, SwapRefused, MintFails,
       RotatePubkey, EndRotation, AbortRotation, CommitTransaction, RollbackTransaction
  <2> QED
    BY <1>4, <2>1, <2>2, <2>3, <2>4
<1>13. ASSUME NEW m \in Mints, RetireKeyset(m)
       PROVE  SignableRows' /\ \A r \in Requests : Checked(r)'
  BY <1>3, <1>4, <1>13 DEF RetireKeyset
<1>14. CASE UNCHANGED vars
  BY <1>3, <1>4, <1>14 DEF vars
<1> QED
  BY <1>5, <1>6, <1>7, <1>8, <1>9, <1>10, <1>11, <1>12, <1>13, <1>14 DEF Next

\* The rotator can sign every row it will ever read with the right key: rows carry
\* the version their proof is locked to, although VerifyToken and StoreEcash read
\* the wallet's version separately and the rotator writes it.
THEOREM RowsAreSignable == Spec => []SignableRows
<1>1. KeysInv => SignableRows
  BY DEF KeysInv
<1> QED
  BY <1>1, TypeCorrect, KeysInit, KeysNext, PTL DEF Spec

-----------------------------------------------------------------------------
(* The filter *)

LEMMA FilterInit == Init => FilterInv
BY ExclusiveInit DEF Init, FilterInv, IdleRequest

\* Whatever enters the tables has passed through the filter, and the filter is
\* only emptied with the process.
LEMMA FilterNext == TypeOK /\ FilterInv /\ [Next]_vars => FilterInv'
<1> SUFFICES ASSUME TypeOK, FilterInv, [Next]_vars PROVE FilterInv'
  OBVIOUS
<1>1. Exclusive /\ Exclusive'
  BY ExclusiveNext DEF FilterInv
<1>2. \A r \in Requests : r # Rotator /\ r # Free
  BY OwnerAssumption
<1> DEFINE Covers == up => Held(db) \cup Held(tx) \subseteq wallet.filter
           New(r) == req[r].pc = "store" => Range(req[r].token) \subseteq wallet.filter
<1>3. Covers /\ \A r \in Requests : New(r)
  BY DEF FilterInv
<1> SUFFICES Covers' /\ \A r \in Requests : New(r)'
  BY <1>1 DEF FilterInv
<1>4. CASE NewDBLocalWallet
  <2>1. Held(Started) = Held(db)
    BY DEF Started, RotateNewPubkey, TypeOK, Tables, Held
  <2>2. wallet'.filter = Held(db)
    BY <1>4 DEF NewDBLocalWallet, GetLockedProofsByRedeemed, Held
  <2>3. \A r \in Requests : req'[r].pc # "store"
    BY <1>1, <1>4 DEF NewDBLocalWallet, Exclusive
  <2>4. (db' = db \/ db' = Started) /\ tx' = db'
    BY <1>4 DEF NewDBLocalWallet
  <2>5. Held(db') = Held(db) /\ Held(tx') = Held(db)
    BY <2>1, <2>4
  <2> QED
    BY <2>2, <2>3, <2>5 DEF Held
<1>5. CASE Crash
  BY <1>5 DEF Crash, IdleRequest
<1>6. CASE Tick
  BY <1>3, <1>6 DEF Tick, Held
<1>7. ASSUME NEW p \in Proofs, LockToQuote(p)
      PROVE  Covers' /\ \A r \in Requests : New(r)'
  BY <1>3, <1>7 DEF LockToQuote, Held
<1>8. ASSUME NEW r \in Requests, NEW t \in Tokens, Send(r, t)
      PROVE  Covers' /\ \A s \in Requests : New(s)'
  <2>1. req' = [req EXCEPT ![r] = [pc |-> "lookup", token |-> t]]
    BY <1>8 DEF Send
  <2> QED
    BY <1>3, <1>8, <2>1 DEF Send, TypeOK, Held
<1>9. ASSUME NEW r \in Requests, RequestStep(r)
      PROVE  Covers' /\ \A s \in Requests : New(s)'
  <2>1. \A s \in Requests : s # r => req'[s] = req[s]
    BY <1>9 DEF RequestStep, Wait, Work, Lookup, BeginRequest, VerifyToken, VerifySpelled,
       StoreEcash, CommitRequest, RollbackRequest, GoTo, TypeOK
  <2>2. req[r] \in RequestStates
    BY DEF TypeOK
  <2>3. up /\ up' /\ \A s \in Requests : s # r => req[s].pc # "store"
    BY <1>1, <1>2, <1>9 DEF Exclusive, RequestStep, Wait, Work, Lookup, BeginRequest,
       BeginTransaction, VerifyToken, VerifySpelled, StoreEcash, CommitRequest,
       RollbackRequest
  <2>4. \A s \in Requests : s # r => New(s)'
    BY <2>1, <2>3
  <2>5. CASE Wait(r) \/ CommitRequest(r) \/ RollbackRequest(r)
    <3>1. req'[r].pc # "store"
      BY <2>2, <2>5 DEF Wait, Lookup, BeginRequest, CommitRequest, RollbackRequest, GoTo,
         IdleRequest, RequestStates, TypeOK
    <3>2. wallet' = wallet /\ (db' = db \/ db' = tx) /\ (tx' = tx \/ tx' = db)
      BY <2>5 DEF Wait, Lookup, BeginRequest, CommitRequest, RollbackRequest,
         BeginTransaction, CommitTransaction, RollbackTransaction
    <3>3. Covers'
      BY <1>3, <2>3, <3>2 DEF Held
    <3> QED
      BY <2>4, <3>1, <3>3
  <2>6. CASE VerifyToken(r)
    <3>1. wallet.filter \subseteq wallet'.filter /\ db' = db /\ tx' = tx
      BY <2>6 DEF VerifyToken, VerifySpelled, TypeOK, Wallets
    <3>2. Covers'
      BY <1>3, <2>3, <3>1 DEF Held
    <3>3. req'[r].token = req[r].token
      BY <2>2, <2>6 DEF VerifyToken, VerifySpelled, GoTo, RequestStates, TypeOK
    <3>4. ASSUME req'[r].pc = "store"
          PROVE  Range(req[r].token) \subseteq wallet'.filter
      <4>1. PICK respelled : VerifySpelled(r, respelled)
        BY <2>6 DEF VerifyToken
      <4> QED
        BY <3>4, <4>1, VerifyPassed
    <3> QED
      BY <2>4, <3>2, <3>3, <3>4
  <2>7. CASE StoreEcash(r)
    <3>1. req'[r].pc # "store"
      BY <2>2, <2>7 DEF StoreEcash, GoTo, RequestStates, TypeOK
    <3>2. tx' = tx \/ tx' = AddLockedProofs(tx, req[r].token, wallet.version)
      BY <2>7 DEF StoreEcash
    <3>3. Held(tx') \subseteq Held(tx) \cup Range(req[r].token)
      BY <3>2 DEF AddLockedProofs, Held, TypeOK, Tables
    <3>4. Range(req[r].token) \subseteq wallet.filter
      BY <1>3, <2>7 DEF StoreEcash
    <3>5. Covers'
      BY <1>3, <2>3, <2>7, <3>3, <3>4 DEF StoreEcash, Held
    <3> QED
      BY <2>4, <3>1, <3>5
  <2> QED
    BY <1>9, <2>5, <2>6, <2>7 DEF RequestStep, Work
<1>10. CASE BeginRotation
  <2>1. \A r \in Requests : req'[r].pc # "store"
    BY <1>1, <1>2, <1>10 DEF BeginRotation, BeginTransaction, Exclusive
  <2> QED
    BY <1>3, <1>10, <2>1 DEF BeginRotation, BeginTransaction, Held
<1>11. CASE RotatorStep
  <2>1. conn = Rotator /\ UNCHANGED <<req, lock, now, up>>
    BY <1>1, <1>11, RotatorInside
  <2>2. \A r \in Requests : req[r].pc # "store"
    BY <1>1, <1>2, <2>1 DEF Exclusive
  <2>3. Held(tx') \subseteq Held(tx) \cup Held(db)
    BY <1>11, RotatorKeepsRows DEF Held
  <2>4. db' = db \/ db' = tx
    BY <1>11 DEF RotatorStep, AskMint, SwapProofs, SwapLost, SwapRefused, MintFails,
       RotatePubkey, EndRotation, AbortRotation, CommitTransaction, RollbackTransaction
  <2>5. wallet'.filter = wallet.filter
    BY <1>11 DEF RotatorStep, AskMint, SwapProofs, SwapLost, SwapRefused, MintFails,
       RotatePubkey, EndRotation, AbortRotation, TypeOK, Wallets
  <2> QED
    BY <1>3, <2>1, <2>2, <2>3, <2>4, <2>5 DEF Held
<1>12. ASSUME NEW m \in Mints, RetireKeyset(m)
       PROVE  Covers' /\ \A r \in Requests : New(r)'
  BY <1>3, <1>12 DEF RetireKeyset, Held
<1>13. CASE UNCHANGED vars
  BY <1>3, <1>13 DEF vars, Held
<1> QED
  BY <1>4, <1>5, <1>6, <1>7, <1>8, <1>9, <1>10, <1>11, <1>12, <1>13 DEF Next

\* What the filter holds and the table has a row for does not pass, unless its C is
\* spelled in another way there.
LEMMA SeenStep ==
    ASSUME TypeOK, FilterInv, NEW r \in Requests,
           NEW respelled, VerifySpelled(r, respelled), req'[r].pc = "store",
           NEW i \in DOMAIN req[r].token, i \notin respelled
    PROVE  req[r].token[i] \notin Held(tx)
<1> SUFFICES ASSUME req[r].token[i] \in Held(tx) PROVE FALSE
  OBVIOUS
<1>1. PICK fp : \A j \in 1 .. i : ~Rejects(req[r].token, j, fp, respelled)
  BY VerifyPassed
<1>2. i \in 1 .. i
  BY DEF TypeOK, RequestStates
<1>3. up
  BY DEF FilterInv, Exclusive, VerifySpelled
<1>4. req[r].token[i] \in wallet.filter
  BY <1>3 DEF FilterInv
<1>5. GetLockedProofsByC(tx, req[r].token[i]) # {}
  BY DEF GetLockedProofsByC, Held
<1> QED
  BY <1>1, <1>2, <1>4, <1>5 DEF Rejects

\* No proof the server still has gets past VerifyToken as it is spelled in its row,
\* over any number of restarts, rolled back requests and false positives of the
\* filter, and whatever else the token lists.
THEOREM SeenProofsAreRefused == Spec => SeenIsRefused
<1> DEFINE Refused ==
      \A r \in Requests : \A respelled \in SUBSET DOMAIN req[r].token :
         (req'[r].pc = "store" /\ VerifySpelled(r, respelled)) =>
             \A i \in DOMAIN req[r].token \ respelled : req[r].token[i] \notin Held(tx)
<1>1. TypeOK /\ FilterInv => [Refused]_vars
  BY SeenStep
<1> QED
  BY <1>1, TypeCorrect, FilterInit, FilterNext, PTL DEF Spec, SeenIsRefused

-----------------------------------------------------------------------------
(* The key *)

LEMMA RotationInit == Init => RotationInv
BY ExclusiveInit DEF Init, RotationInv, NoWallet, IdleRotator

LEMMA RotationNext == TypeOK /\ RotationInv /\ [Next]_vars => RotationInv'
<1> SUFFICES ASSUME TypeOK, RotationInv, [Next]_vars PROVE RotationInv'
  OBVIOUS
<1>1. Exclusive /\ Exclusive'
  BY ExclusiveNext DEF RotationInv
<1> DEFINE Key == wallet.key = wallet.version
           Begun == rot.pc \in {"mints", "swap", "rotate", "abort"} =>
             /\ now + Margin > wallet.expires
             /\ rot.before = <<wallet.version, wallet.expires>>
<1>2. Key /\ Begun
  BY DEF RotationInv
<1> SUFFICES Key' /\ Begun'
  BY <1>1 DEF RotationInv
<1>3. ASSUME rot' = rot, now' = now, wallet'.key = wallet.key,
             wallet'.version = wallet.version, wallet'.expires = wallet.expires
      PROVE  Key' /\ Begun'
  BY <1>2, <1>3
<1>4. CASE NewDBLocalWallet
  <2>1. rot'.pc = "sleep"
    BY <1>1, <1>4 DEF NewDBLocalWallet, Exclusive, Free, Rotator
  <2>2. wallet'.key = wallet'.version
    BY <1>4 DEF NewDBLocalWallet
  <2> QED
    BY <2>1, <2>2
<1>5. CASE Crash
  BY <1>5 DEF Crash, NoWallet, IdleRotator
<1>6. CASE Tick
  <2>1. now' + Margin > now + Margin
    BY <1>6, EcashAssumption DEF Tick, TypeOK, EcashAssumption
  <2>2. now' + Margin \in Nat /\ now + Margin \in Nat /\ wallet.expires \in Nat
    BY <1>6, EcashAssumption DEF Tick, TypeOK, EcashAssumption, Wallets
  <2> QED
    BY <1>2, <1>6, <2>1, <2>2 DEF Tick
<1>7. ASSUME NEW p \in Proofs, LockToQuote(p)
      PROVE  Key' /\ Begun'
  BY <1>3, <1>7 DEF LockToQuote
<1>8. ASSUME NEW r \in Requests, NEW t \in Tokens, Send(r, t)
      PROVE  Key' /\ Begun'
  BY <1>3, <1>8 DEF Send
<1>9. ASSUME NEW r \in Requests, RequestStep(r)
      PROVE  Key' /\ Begun'
  BY <1>3, <1>9 DEF RequestStep, Wait, Work, Lookup, BeginRequest, VerifyToken,
     VerifySpelled, StoreEcash, CommitRequest, RollbackRequest, TypeOK, Wallets
<1>10. CASE BeginRotation
  BY <1>2, <1>10 DEF BeginRotation, Due, IdleRotator
<1>11. CASE RotatorStep
  <2>1. ASSUME rot.pc \in {"mints", "swap", "rotate", "abort"}, UNCHANGED <<wallet, now>>,
               rot'.before = rot.before
        PROVE  Key' /\ Begun'
    BY <1>2, <2>1
  <2>2. ASSUME NEW m \in Mints, AskMint(m)
        PROVE  Key' /\ Begun'
    BY <2>1, <2>2 DEF AskMint, TypeOK, RotatorStates
  <2>3. CASE SwapProofs \/ SwapLost \/ SwapRefused \/ MintFails
    BY <2>1, <2>3 DEF SwapProofs, SwapLost, SwapRefused, MintFails, TypeOK, RotatorStates
  <2>4. CASE RotatePubkey
    BY <2>4 DEF RotatePubkey, TypeOK, RotatorStates, Wallets
  <2>5. CASE EndRotation
    BY <1>2, <2>5 DEF EndRotation, IdleRotator
  <2>6. CASE AbortRotation
    <3>1. rot.before[1] = wallet.version
      BY <1>2, <2>6 DEF AbortRotation
    <3> QED
      BY <1>2, <2>6, <3>1 DEF AbortRotation, IdleRotator, TypeOK, Wallets
  <2> QED
    BY <1>11, <2>2, <2>3, <2>4, <2>5, <2>6 DEF RotatorStep
<1>12. ASSUME NEW m \in Mints, RetireKeyset(m)
       PROVE  Key' /\ Begun'
  BY <1>3, <1>12 DEF RetireKeyset
<1>13. CASE UNCHANGED vars
  BY <1>3, <1>13 DEF vars
<1> QED
  BY <1>4, <1>5, <1>6, <1>7, <1>8, <1>9, <1>10, <1>11, <1>12, <1>13 DEF Next

\* Only RotatePubkey changes the key: a rotation that fails restores what it found.
LEMMA KeyStep ==
    TypeOK /\ RotationInv /\ [Next]_vars =>
      ((up /\ up' /\ <<wallet.key, wallet.version>>' # <<wallet.key, wallet.version>>)
         => now + Margin > wallet.expires)
<1> SUFFICES ASSUME TypeOK, RotationInv, [Next]_vars, up, up',
                    <<wallet.key, wallet.version>>' # <<wallet.key, wallet.version>>
             PROVE  now + Margin > wallet.expires
  OBVIOUS
<1>1. CASE RotatorStep
  <2>1. CASE RotatePubkey
    BY <2>1 DEF RotatePubkey, RotationInv
  <2>2. CASE AbortRotation
    BY <2>2 DEF AbortRotation, RotationInv
  <2> QED
    BY <1>1, <2>1, <2>2 DEF RotatorStep, AskMint, SwapProofs, SwapLost, SwapRefused,
       MintFails, EndRotation
<1>2. CASE \E r \in Requests : RequestStep(r)
  BY <1>2 DEF RequestStep, Wait, Work, Lookup, BeginRequest, VerifyToken, VerifySpelled,
     StoreEcash, CommitRequest, RollbackRequest, TypeOK, Wallets
<1> QED
  BY <1>1, <1>2 DEF Next, vars, NewDBLocalWallet, Crash, Tick, LockToQuote, Send,
     BeginRotation, RetireKeyset

\* A key that requests are checked against is not replaced before it is due,
\* however long the rotation takes, and neither by a rotation that fails.
THEOREM QuotesHold == Spec => QuoteHoldsUntilDue
<1>1. TypeOK /\ RotationInv /\ [Next]_vars =>
        [(up /\ up' /\ <<wallet.key, wallet.version>>' # <<wallet.key, wallet.version>>)
           => now + Margin > wallet.expires]_vars
  BY KeyStep
<1> QED
  BY <1>1, TypeCorrect, RotationInit, RotationNext, PTL DEF Spec, QuoteHoldsUntilDue

=============================================================================
