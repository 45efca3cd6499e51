------------------------- MODULE EcashLedgerProofs -------------------------
(***************************************************************************)
(* The committed database implements module Ledger, for any proofs, mints, *)
(* requests and bounds: between commits it does not change, and a commit   *)
(* is a payment, a whole rotation, or the first key.                       *)
(***************************************************************************)
EXTENDS EcashBooksProofs

-----------------------------------------------------------------------------
(* What an open transaction has done so far *)

LEMMA LedgerInit == Init => LedgerInv
<1> SUFFICES ASSUME Init PROVE LedgerInv
  OBVIOUS
<1>1. db.redeemed \subseteq db.locked
  BY DEF Init, EmptyTables
<1>2. rot.pc = "sleep" /\ \A r \in Requests : req[r].pc = "idle"
  BY DEF Init, IdleRotator, IdleRequest
<1> QED
  BY <1>1, <1>2, BooksInit DEF LedgerInv

\* A transaction of the rotator that has swapped nothing.
LEMMA NothingSwapped ==
    ASSUME tx' = db', rot'.pc # "commit", db'.version \in Nat
    PROVE  HasSwapped({})'
BY DEF HasSwapped

\* Asking for a counter changes nothing that is committed of swaps.
LEMMA AskSwapsNothing ==
    ASSUME TypeOK, NEW m \in Mints, AskMint(m), NEW M, HasSwapped(M)
    PROVE  HasSwapped(M)'
<1>1. /\ tx'.locked = tx.locked /\ tx'.version = tx.version
      /\ tx'.redeemed = tx.redeemed /\ tx'.swapped = tx.swapped
  <2>1. tx \in Tables
    BY DEF TypeOK
  <2>2. tx' = tx \/ \E k : tx' = SetKeysetCounter(tx, k, 0)
    BY DEF AskMint
  <2> QED
    BY <2>1, <2>2 DEF SetKeysetCounter, Tables
<1>2. db' = db /\ rot.pc # "commit" /\ rot'.pc # "commit"
  BY DEF AskMint, TypeOK, RotatorStates
<1> QED
  BY <1>1, <1>2 DEF HasSwapped

\* Booking a swap adds its mint to those swapped.
LEMMA BookedIsSwapped ==
    ASSUME TypeOK, BooksInv, rot.pc = "swap", NEW k \in rot.keyset,
           MintAccepts(Request(k)), tx' = Swapped(Request(k)), db' = db,
           rot'.pc = "mints", NEW M, HasSwapped(M)
    PROVE  HasSwapped(M \cup {KeysetMint[k]})'
<1> DEFINE b == Request(k)
           m == KeysetMint[k]
<1>1. /\ b \in Batches /\ b.ks = k /\ b.ins # {} /\ tx.counter[k] # NoRow
      /\ b.ins = ProofsToSwap(tx, m) /\ b.ins = ProofsToSwap(db, m)
  BY RequestIsNew
<1>2. b.ins \subseteq tx.locked
  BY <1>1 DEF ProofsToSwap, GetLockedProofsByRedeemed
<1>3. /\ tx'.locked = tx.locked
      /\ tx'.version = tx.version
      /\ tx'.redeemed = tx.redeemed \cup b.ins
      /\ tx'.swapped = tx.swapped \cup {b}
  BY <1>1, <1>2, SwappedTables
<1>4. tx'.locked = db'.locked /\ tx'.version = db'.version + (IF rot'.pc = "commit" THEN 1 ELSE 0)
  BY <1>3 DEF HasSwapped
<1>5. \A n \in M \cup {m} : ProofsToSwap(db', n) # {}
  BY <1>1 DEF HasSwapped
<1>6. tx'.redeemed = db'.redeemed \cup UNION {ProofsToSwap(db', n) : n \in M \cup {m}}
  <2>1. tx.redeemed = db.redeemed \cup UNION {ProofsToSwap(db, n) : n \in M}
    BY DEF HasSwapped
  <2>2. UNION {ProofsToSwap(db, n) : n \in M \cup {m}} =
          (UNION {ProofsToSwap(db, n) : n \in M}) \cup ProofsToSwap(db, m)
    OBVIOUS
  <2> QED
    BY <1>1, <1>3, <2>1, <2>2
<1>7. {a.ins : a \in tx'.swapped} =
        {a.ins : a \in db'.swapped} \cup {ProofsToSwap(db', n) : n \in M \cup {m}}
  <2>1. {a.ins : a \in tx.swapped} =
          {a.ins : a \in db.swapped} \cup {ProofsToSwap(db, n) : n \in M}
    BY DEF HasSwapped
  <2>2. {a.ins : a \in tx'.swapped} = {a.ins : a \in tx.swapped} \cup {b.ins}
    BY <1>3
  <2>3. {ProofsToSwap(db, n) : n \in M \cup {m}} =
          {ProofsToSwap(db, n) : n \in M} \cup {ProofsToSwap(db, m)}
    OBVIOUS
  <2> QED
    BY <1>1, <2>1, <2>2, <2>3
<1> QED
  BY <1>4, <1>5, <1>6, <1>7 DEF HasSwapped

\* What is redeemed was held before.
LEMMA SwappedRows ==
    ASSUME NEW M, HasSwapped(M), db.redeemed \subseteq db.locked
    PROVE  tx.redeemed \subseteq tx.locked
BY DEF HasSwapped, ProofsToSwap, GetLockedProofsByRedeemed

LEMMA LedgerNext == TypeOK /\ LedgerInv /\ [Next]_vars => LedgerInv'
<1> SUFFICES ASSUME TypeOK, LedgerInv, [Next]_vars PROVE LedgerInv'
  OBVIOUS
<1>1. /\ TypeOK' /\ BooksInv /\ BooksInv' /\ Exclusive /\ Exclusive'
      /\ db \in Tables /\ tx \in Tables
  BY TypeNext, BooksNext DEF LedgerInv, BooksInv, TypeOK
<1>2. \A r \in Requests : r # Rotator /\ r # Free
  BY OwnerAssumption
<1> DEFINE Rows == db.redeemed \subseteq db.locked
           Knows(r) == /\ req[r].pc # "idle" => req[r].token \in Tokens
                       /\ req[r].pc \in {"verify", "store"} => tx = db
                       /\ req[r].pc = "serve" => HasStored(r)
           Swaps == rot.pc \in {"mints", "swap", "rotate", "commit"} =>
                      \E M \in SUBSET Mints : HasSwapped(M)
<1>3. Rows /\ (\A r \in Requests : Knows(r)) /\ Swaps
  BY DEF LedgerInv
<1> SUFFICES Rows' /\ (\A r \in Requests : Knows(r)') /\ Swaps'
  BY <1>1 DEF LedgerInv
<1>0. ASSUME UNCHANGED <<db, tx, rot>>
       PROVE  Swaps'
  <2>1. CASE rot.pc \in {"mints", "swap", "rotate", "commit"}
    <3>1. PICK M \in SUBSET Mints : HasSwapped(M)
      BY <1>3, <2>1
    <3>2. HasSwapped(M)'
      BY <1>0, <3>1 DEF HasSwapped
    <3> QED
      BY <3>2
  <2>2. CASE rot.pc \notin {"mints", "swap", "rotate", "commit"}
    BY <1>0, <2>2
  <2> QED
    BY <2>1, <2>2
<1>4. ASSUME UNCHANGED <<db, tx, req, rot>>
      PROVE  Rows' /\ (\A r \in Requests : Knows(r)') /\ Swaps'
  BY <1>3, <1>4, <1>0 DEF HasStored
<1>5. CASE NewDBLocalWallet
  <2>1. rot'.pc = "sleep" /\ \A r \in Requests : req'[r].pc = "idle"
    BY <1>1, <1>5 DEF NewDBLocalWallet, Exclusive, Free, Rotator
  <2>2. db'.redeemed = db.redeemed /\ db'.locked = db.locked
    <3>1. Started.redeemed = db.redeemed /\ Started.locked = db.locked
      BY <1>1 DEF Started, RotateNewPubkey, Tables
    <3> QED
      BY <1>5, <3>1 DEF NewDBLocalWallet
  <2> QED
    BY <1>3, <2>1, <2>2
<1>6. CASE Crash
  <2>1. db' = db /\ rot'.pc = "sleep" /\ \A r \in Requests : req'[r].pc = "idle"
    BY <1>6 DEF Crash, RollbackTransaction, IdleRequest, IdleRotator
  <2> QED
    BY <1>3, <2>1
<1>7. CASE Tick
  BY <1>4, <1>7 DEF Tick
<1>8. ASSUME NEW p \in Proofs, LockToQuote(p)
      PROVE  Rows' /\ (\A r \in Requests : Knows(r)') /\ Swaps'
  BY <1>4, <1>8 DEF LockToQuote
<1>9. ASSUME NEW r \in Requests, NEW t \in Tokens, Send(r, t)
      PROVE  Rows' /\ (\A s \in Requests : Knows(s)') /\ Swaps'
  <2>1. /\ req' = [req EXCEPT ![r] = [pc |-> "lookup", token |-> t]]
        /\ UNCHANGED <<db, tx, rot>>
    BY <1>9 DEF Send
  <2>2. req'[r].pc = "lookup" /\ req'[r].token = t
    BY <2>1 DEF TypeOK
  <2>3. \A s \in Requests : s # r => req'[s] = req[s]
    BY <2>1 DEF TypeOK
  <2>4. ASSUME NEW s \in Requests, s # r
        PROVE  Knows(s)'
    BY <1>3, <2>1, <2>3, <2>4 DEF HasStored
  <2>5. Swaps'
    BY <1>3, <1>0, <2>1
  <2> QED
    BY <1>3, <2>1, <2>2, <2>4, <2>5
<1>10. ASSUME NEW r \in Requests, RequestStep(r)
       PROVE  Rows' /\ (\A s \in Requests : Knows(s)') /\ Swaps'
  <2>0. req[r] \in RequestStates
    BY DEF TypeOK
  <2>1. /\ rot' = rot
        /\ \A s \in Requests : s # r => req'[s] = req[s]
    BY <1>10 DEF RequestStep, Wait, Work, Lookup, BeginRequest, VerifyToken,
       VerifySpelled, StoreEcash, CommitRequest, RollbackRequest, GoTo, TypeOK
  <2>2. rot.pc = "sleep" /\ \A s \in Requests :
          s # r => req[s].pc \notin {"verify", "store", "serve"}
    <3>1. conn = Free \/ conn = r
      BY <1>1, <1>10 DEF Exclusive, RequestStep, Wait, Work, Lookup, BeginRequest,
         BeginTransaction, VerifyToken, VerifySpelled, StoreEcash, CommitRequest,
         RollbackRequest
    <3> QED
      BY <1>1, <1>2, <3>1 DEF Exclusive, Free, Rotator
  <2>3. Swaps' /\ \A s \in Requests : s # r => Knows(s)'
    BY <1>3, <2>1, <2>2
  <2>9. CASE Lookup(r)
    <3>1. /\ db' = db /\ req[r].pc = "lookup"
          /\ \/ req'[r].pc = "begin" /\ req'[r].token = req[r].token
             \/ req'[r].pc = "idle"
      BY <2>0, <2>9 DEF Lookup, GoTo, IdleRequest, TypeOK, RequestStates
    <3> QED
      BY <1>3, <2>3, <3>1
  <2>4. CASE BeginRequest(r)
    <3>1. db' = db /\ tx' = db /\ req'[r].pc = "verify" /\ req'[r].token = req[r].token
          /\ req[r].pc = "begin"
      BY <2>0, <2>4 DEF BeginRequest, BeginTransaction, GoTo, TypeOK, RequestStates
    <3> QED
      BY <1>3, <2>3, <3>1
  <2>5. CASE VerifyToken(r)
    <3>1. db' = db /\ tx' = tx /\ req'[r].token = req[r].token
          /\ req[r].pc = "verify" /\ req'[r].pc \in {"store", "rollback"}
      BY <2>0, <2>5 DEF VerifyToken, VerifySpelled, GoTo, TypeOK, RequestStates
    <3> QED
      BY <1>3, <2>3, <3>1
  <2>6. CASE StoreEcash(r)
    <3>1. db' = db /\ req'[r].token = req[r].token /\ req[r].pc = "store" /\ tx = db
      BY <1>3, <2>0, <2>6 DEF StoreEcash, GoTo, TypeOK, RequestStates
    <3>2. CASE req'[r].pc = "rollback"
      BY <1>3, <2>3, <3>1, <3>2
    <3>3. CASE /\ req'[r].pc = "serve"
               /\ CanAddLockedProofs(tx, req[r].token)
               /\ tx' = AddLockedProofs(tx, req[r].token, wallet.version)
      <4>1. /\ tx'.locked = tx.locked \cup Range(req[r].token)
            /\ tx'.redeemed = tx.redeemed /\ tx'.version = tx.version
            /\ tx'.swapped = tx.swapped
        BY <1>1, <3>3 DEF AddLockedProofs, Tables
      <4>2. HasStored(r)'
        BY <3>1, <3>3, <4>1 DEF HasStored, CanAddLockedProofs
      <4> QED
        BY <1>3, <2>3, <3>1, <3>3, <4>2
    <3> QED
      BY <2>0, <2>6, <3>2, <3>3 DEF StoreEcash, GoTo, TypeOK, RequestStates
  <2>7. CASE CommitRequest(r)
    <3>1. db' = tx /\ req'[r].pc = "idle" /\ HasStored(r)
      BY <1>3, <2>7 DEF CommitRequest, CommitTransaction, IdleRequest, TypeOK
    <3> QED
      BY <1>3, <2>3, <3>1 DEF HasStored
  <2>8. CASE RollbackRequest(r)
    <3>1. db' = db /\ req'[r].pc = "idle"
      BY <2>8 DEF RollbackRequest, RollbackTransaction, IdleRequest, TypeOK
    <3> QED
      BY <1>3, <2>3, <3>1
  <2> QED
    BY <1>10, <2>4, <2>5, <2>6, <2>7, <2>8, <2>9 DEF RequestStep, Wait, Work
<1>11. CASE BeginRotation
  <2>1. tx' = db /\ db' = db /\ req' = req /\ rot'.pc = "mints" /\ conn' = Rotator
    BY <1>11 DEF BeginRotation, BeginTransaction, IdleRotator
  <2>2. \A r \in Requests : req'[r].pc \notin {"verify", "store", "serve"}
    BY <1>1, <1>2, <2>1 DEF Exclusive
  <2>3. \A r \in Requests : Knows(r)'
    BY <1>3, <2>1, <2>2
  <2>4. HasSwapped({})'
    BY <1>1, <2>1, NothingSwapped DEF Tables
  <2> QED
    BY <1>3, <2>1, <2>3, <2>4
<1>12. CASE RotatorStep
  <2>1. conn = Rotator /\ req' = req
    BY <1>1, <1>12, RotatorInside
  <2>2. \A r \in Requests : req[r].pc \notin {"verify", "store", "serve"}
    BY <1>1, <1>2, <2>1 DEF Exclusive
  <2>3. \A r \in Requests : Knows(r)'
    BY <1>3, <2>1, <2>2
  <2>4. ASSUME NEW m \in Mints, AskMint(m)
        PROVE  Rows' /\ Swaps'
    <3>1. db' = db /\ rot.pc = "mints"
      BY <2>4 DEF AskMint
    <3>2. PICK M \in SUBSET Mints : HasSwapped(M)
      BY <1>3, <3>1
    <3>3. HasSwapped(M)'
      BY <2>4, <3>2, AskSwapsNothing
    <3> QED
      BY <1>3, <3>1, <3>3
  <2>5. CASE SwapProofs
    <3>1. PICK k \in rot.keyset : SwapProofs!(k)
      BY <2>5 DEF SwapProofs
    <3>2. rot.pc = "swap" /\ MintAccepts(Request(k)) /\ db' = db /\ k \in Keysets
      BY <3>1, RequestType
    <3>3. PICK M \in SUBSET Mints : HasSwapped(M)
      BY <1>3, <3>2
    <3>4. CASE /\ tx' = Swapped(Request(k))
               /\ rot' = [rot EXCEPT !.pc = "mints", !.keyset = {},
                                     !.todo = @ \ {KeysetMint[k]}]
      <4>1. rot'.pc = "mints"
        BY <3>4 DEF TypeOK, RotatorStates
      <4>2. HasSwapped(M \cup {KeysetMint[k]})'
        BY <1>1, <3>2, <3>3, <3>4, <4>1, BookedIsSwapped
      <4>3. M \cup {KeysetMint[k]} \in SUBSET Mints
        BY <3>2, SqliteAssumption DEF SqliteAssumption
      <4> QED
        BY <1>3, <2>3, <3>2, <4>2, <4>3
    <3>5. CASE rot' = [rot EXCEPT !.pc = "abort"]
      BY <1>3, <2>3, <3>2, <3>5 DEF TypeOK, RotatorStates
    <3> QED
      BY <3>1, <3>4, <3>5
  <2>6. CASE SwapLost \/ SwapRefused \/ MintFails
    <3>1. db' = db /\ rot'.pc = "abort"
      BY <2>6 DEF SwapLost, SwapRefused, MintFails, TypeOK, RotatorStates
    <3> QED
      BY <1>3, <2>3, <3>1
  <2>7. CASE RotatePubkey
    <3>1. /\ db' = db /\ tx' = RotateNewPubkey(tx, now + Lifetime)
          /\ rot.pc \in {"mints", "rotate"} /\ rot'.pc = "commit"
      BY <2>7 DEF RotatePubkey, TypeOK, RotatorStates
    <3>2. PICK M \in SUBSET Mints : HasSwapped(M)
      BY <1>3, <3>1
    <3>3. /\ tx'.locked = tx.locked /\ tx'.redeemed = tx.redeemed
          /\ tx'.swapped = tx.swapped /\ tx'.version = tx.version + 1
      BY <1>1, <3>1 DEF RotateNewPubkey, Tables
    <3>4. tx'.version = db'.version + 1
      BY <1>1, <3>1, <3>2, <3>3 DEF HasSwapped, Tables
    <3>5. HasSwapped(M)'
      BY <3>1, <3>2, <3>3, <3>4 DEF HasSwapped
    <3> QED
      BY <1>3, <2>3, <3>1, <3>5
  <2>8. CASE EndRotation
    <3>1. rot.pc = "commit" /\ rot'.pc = "sleep" /\ (db' = db \/ db' = tx)
      BY <2>8 DEF EndRotation, CommitTransaction, RollbackTransaction, IdleRotator
    <3>2. PICK M \in SUBSET Mints : HasSwapped(M)
      BY <1>3, <3>1
    <3>3. tx.redeemed \subseteq tx.locked
      BY <1>3, <3>2, SwappedRows
    <3> QED
      BY <1>3, <2>3, <3>1, <3>3
  <2>9. CASE AbortRotation
    BY <1>3, <2>3, <2>9 DEF AbortRotation, RollbackTransaction, IdleRotator
  <2> QED
    BY <1>12, <2>3, <2>4, <2>5, <2>6, <2>7, <2>8, <2>9 DEF RotatorStep
<1>13. ASSUME NEW m \in Mints, RetireKeyset(m)
       PROVE  Rows' /\ (\A r \in Requests : Knows(r)') /\ Swaps'
  BY <1>4, <1>13 DEF RetireKeyset
<1>14. CASE UNCHANGED vars
  BY <1>4, <1>14 DEF vars
<1> QED
  BY <1>5, <1>6, <1>7, <1>8, <1>9, <1>10, <1>11, <1>12, <1>13, <1>14 DEF Next

-----------------------------------------------------------------------------
(* Every step is one of the ledger, or none *)

\* The state of a proof in the ledger, told from its row.
LEMMA StateOfRow ==
    ASSUME NEW d, d.redeemed \subseteq d.locked, NEW p
    PROVE  /\ StateOf(d, p) = "new" <=> p \notin d.locked
           /\ StateOf(d, p) = "held" <=> p \in Held(d)
           /\ StateOf(d, p) = "redeemed" <=> p \in d.redeemed
           /\ StateOf(d, p) \in {"new", "held", "redeemed"}
<1>1. CASE p \in d.redeemed
  BY <1>1 DEF StateOf, Held
<1>2. CASE p \in Held(d)
  <2>1. StateOf(d, p) = "held"
    BY <1>2 DEF StateOf, Held
  <2> QED
    BY <1>2, <2>1 DEF Held
<1>3. CASE p \notin d.redeemed /\ p \notin Held(d)
  <2>1. StateOf(d, p) = "new"
    BY <1>3 DEF StateOf
  <2> QED
    BY <1>3, <2>1 DEF Held
<1> QED
  BY <1>1, <1>2, <1>3

\* The rows the rotator asks a mint to swap are those the ledger calls held.
LEMMA HeldRows ==
    ASSUME TypeOK, db.redeemed \subseteq db.locked, NEW m
    PROVE  L!HeldOf(m) = ProofsToSwap(db, m)
<1>1. db.locked \subseteq Proofs
  BY DEF TypeOK, Tables
<1>2. ProofsToSwap(db, m) = {p \in Held(db) : MintOf[p] = m}
  BY DEF ProofsToSwap, GetLockedProofsByRedeemed, Held
<1>3. L!HeldOf(m) = {p \in Proofs : StateOf(db, p) = "held" /\ MintOf[p] = m}
  BY DEF L!HeldOf
<1>4. \A p \in Proofs : StateOf(db, p) = "held" <=> p \in Held(db)
  BY StateOfRow
<1> QED
  BY <1>1, <1>2, <1>3, <1>4 DEF Held

LEMMA LedgerFirst == Init => L!Init
<1> SUFFICES ASSUME Init PROVE L!Init
  OBVIOUS
<1>1. db.redeemed = {} /\ db.locked = {} /\ db.swapped = {} /\ db.version = 0
  BY DEF Init, EmptyTables
<1>2. \A p : p \notin db.redeemed /\ p \notin Held(db)
  BY <1>1 DEF Held
<1>3. [p \in Proofs |-> StateOf(db, p)] = [p \in Proofs |-> "new"]
  BY <1>2 DEF StateOf
<1>4. {b.ins : b \in db.swapped} = {}
  BY <1>1
<1> QED
  BY <1>1, <1>3, <1>4 DEF L!Init

\* A commit of a request is a payment.
LEMMA CommitPays ==
    ASSUME TypeOK, LedgerInv, LedgerInv', NEW r \in Requests, CommitRequest(r)
    PROVE  L!Next
<1> DEFINE token == req[r].token
           S == Range(token)
           m == MintOf[token[1]]
<1>1. /\ HasStored(r) /\ token \in Tokens /\ db' = tx
  BY DEF CommitRequest, CommitTransaction, LedgerInv
<1>2. /\ 1 \in DOMAIN token /\ \A i \in DOMAIN token : token[i] \in Proofs
      /\ \A i, j \in DOMAIN token : MintOf[token[i]] = MintOf[token[j]]
  <2>1. PICK n \in 1 .. MaxToken : token \in [1 .. n -> Proofs]
    BY <1>1 DEF Tokens
  <2>2. 1 \in 1 .. n
    BY EcashAssumption DEF EcashAssumption
  <2>3. \A i, j \in DOMAIN token : MintOf[token[i]] = MintOf[token[j]]
    BY <1>1 DEF Tokens
  <2> QED
    BY <2>1, <2>2, <2>3
<1>3. S \in SUBSET Proofs /\ S # {} /\ \A p \in S : MintOf[p] = m
  <2>1. \A p \in S : \E i \in DOMAIN token : p = token[i]
    BY DEF Range
  <2>2. token[1] \in S
    BY <1>2 DEF Range
  <2> QED
    BY <1>2, <2>1, <2>2
<1>4. m \in Mints
  BY <1>2, SqliteAssumption DEF SqliteAssumption
<1>5. db.redeemed \subseteq db.locked /\ db'.redeemed \subseteq db'.locked
  BY DEF LedgerInv
<1>6. /\ db'.locked = db.locked \cup S /\ db'.redeemed = db.redeemed
      /\ db'.version = db.version /\ db'.swapped = db.swapped
      /\ S \cap db.locked = {}
  BY <1>1 DEF HasStored
<1>7. \A p \in S : StateOf(db, p) = "new" /\ MintOf[p] = m
  BY <1>3, <1>5, <1>6, StateOfRow
<1>8. ASSUME NEW p \in Proofs
      PROVE  StateOf(db', p) = IF p \in S THEN "held" ELSE StateOf(db, p)
  <2>1. CASE p \in S
    <3>1. p \in Held(db')
      BY <1>5, <1>6, <2>1 DEF Held
    <3> QED
      BY <1>5, <2>1, <3>1, StateOfRow
  <2>2. CASE p \notin S
    <3>1. (p \in Held(db') <=> p \in Held(db)) /\ (p \in db'.redeemed <=> p \in db.redeemed)
      BY <1>6, <2>2 DEF Held
    <3> QED
      BY <2>2, <3>1 DEF StateOf
  <2> QED
    BY <2>1, <2>2
<1>9. L!Pay(S, m)
  BY <1>3, <1>6, <1>7, <1>8 DEF L!Pay
<1> QED
  BY <1>3, <1>4, <1>9 DEF L!Next

\* A commit of the rotator is a whole rotation.
LEMMA CommitRotates ==
    ASSUME TypeOK, LedgerInv, LedgerInv', rot.pc = "commit", db' = tx
    PROVE  L!Next
<1>1. PICK M \in SUBSET Mints : HasSwapped(M)
  BY DEF LedgerInv
<1>2. db.redeemed \subseteq db.locked /\ db'.redeemed \subseteq db'.locked
  BY DEF LedgerInv
<1>3. \A m : L!HeldOf(m) = ProofsToSwap(db, m)
  BY <1>2, HeldRows
<1>4. \A m \in M : L!HeldOf(m) # {}
  BY <1>1, <1>3 DEF HasSwapped
<1>5. {b.ins : b \in db'.swapped} = {b.ins : b \in db.swapped} \cup {L!HeldOf(m) : m \in M}
  BY <1>1, <1>3 DEF HasSwapped
<1>6. db'.version = db.version + 1
  BY <1>1 DEF HasSwapped
<1>7. ASSUME NEW p \in Proofs
      PROVE  StateOf(db', p) = IF StateOf(db, p) = "held" /\ MintOf[p] \in M
                               THEN "redeemed" ELSE StateOf(db, p)
  <2>1. db'.locked = db.locked
    BY <1>1 DEF HasSwapped
  <2>2. p \in db'.redeemed <=> p \in db.redeemed \/ (p \in Held(db) /\ MintOf[p] \in M)
    <3>1. db'.redeemed = db.redeemed \cup UNION {ProofsToSwap(db, m) : m \in M}
      BY <1>1 DEF HasSwapped
    <3>2. \A m : p \in ProofsToSwap(db, m) <=> p \in Held(db) /\ MintOf[p] = m
      BY DEF ProofsToSwap, GetLockedProofsByRedeemed, Held
    <3> QED
      BY <3>1, <3>2
  <2>3. CASE p \in Held(db) /\ MintOf[p] \in M
    BY <1>2, <2>2, <2>3, StateOfRow
  <2>4. CASE ~(p \in Held(db) /\ MintOf[p] \in M)
    <3>1. (p \in Held(db') <=> p \in Held(db)) /\ (p \in db'.redeemed <=> p \in db.redeemed)
      BY <2>1, <2>2, <2>4 DEF Held
    <3>2. StateOf(db', p) = StateOf(db, p)
      BY <3>1 DEF StateOf
    <3> QED
      BY <1>2, <2>4, <3>2, StateOfRow
  <2> QED
    BY <2>3, <2>4
<1>8. L!Rotate(M)
  BY <1>4, <1>5, <1>6, <1>7 DEF L!Rotate
<1> QED
  BY <1>8 DEF L!Next

\* The first start makes the first key, a later one commits nothing.
LEMMA StartMakesFirstKey ==
    ASSUME TypeOK, NewDBLocalWallet
    PROVE  L!Next \/ UNCHANGED L!vars
<1>1. CASE db' = db
  BY <1>1 DEF L!vars
<1>2. CASE db' = Started /\ db' # db
  <2>1. db.version = 0 /\ db' = RotateNewPubkey(db, now + Lifetime)
    BY <1>2 DEF Started
  <2>2. /\ db'.version = 1 /\ db'.swapped = db.swapped
        /\ db'.redeemed = db.redeemed /\ db'.locked = db.locked
    BY <2>1 DEF RotateNewPubkey, TypeOK, Tables
  <2>3. \A p \in Proofs : StateOf(db', p) = StateOf(db, p)
    BY <2>2 DEF StateOf, Held
  <2>4. L!FirstKey
    BY <2>1, <2>2, <2>3 DEF L!FirstKey
  <2> QED
    BY <2>4 DEF L!Next
<1> QED
  BY <1>1, <1>2 DEF NewDBLocalWallet

LEMMA LedgerStep == TypeOK /\ LedgerInv /\ LedgerInv' /\ [Next]_vars => [L!Next]_(L!vars)
<1> SUFFICES ASSUME TypeOK, LedgerInv, LedgerInv', [Next]_vars
             PROVE  L!Next \/ UNCHANGED L!vars
  OBVIOUS
<1>1. CASE db' = db
  BY <1>1 DEF L!vars
<1>2. CASE NewDBLocalWallet
  BY <1>2, StartMakesFirstKey
<1>3. ASSUME NEW r \in Requests, RequestStep(r)
      PROVE  L!Next \/ UNCHANGED L!vars
  BY <1>1, <1>3, CommitPays DEF RequestStep, Wait, Work, Lookup, BeginRequest,
     VerifyToken, VerifySpelled, StoreEcash, RollbackRequest, RollbackTransaction
<1>4. CASE RotatorStep
  <2>1. db' = db \/ (rot.pc = "commit" /\ db' = tx)
    BY <1>4 DEF RotatorStep, AskMint, SwapProofs, SwapLost, SwapRefused, MintFails,
       RotatePubkey, EndRotation, AbortRotation, CommitTransaction, RollbackTransaction
  <2> QED
    BY <1>1, <2>1, CommitRotates
<1>5. CASE \/ Crash \/ Tick \/ BeginRotation \/ UNCHANGED vars
           \/ \E p \in Proofs : LockToQuote(p)
           \/ \E r \in Requests, t \in Tokens : Send(r, t)
           \/ \E m \in Mints : RetireKeyset(m)
  BY <1>1, <1>5 DEF Crash, RollbackTransaction, Tick, BeginRotation, vars, LockToQuote,
     Send, RetireKeyset
<1> QED
  BY <1>2, <1>3, <1>4, <1>5 DEF Next

\* The committed database implements the ledger: whatever the order of requests,
\* rotations, mint answers, crashes and failed commits, it only changes by payments of
\* new proofs of one mint, by whole rotations that also replace the key, and by the
\* first key.
THEOREM EcashImplementsLedger == Spec => ImplementsLedger
<1>1. Spec => [](TypeOK /\ LedgerInv)
  BY TypeCorrect, LedgerInit, LedgerNext, PTL DEF Spec
<1> QED
  BY <1>1, LedgerFirst, LedgerStep, PTL DEF Spec, ImplementsLedger, L!Spec

-----------------------------------------------------------------------------
(* What a commit has been paid *)

LEMMA FullInit == Init => FullInv
BY DEF Init, FullInv, IdleRequest

LEMMA FullNext == TypeOK /\ FullInv /\ [Next]_vars => FullInv'
<1> SUFFICES ASSUME TypeOK, FullInv, [Next]_vars PROVE FullInv'
  OBVIOUS
<1> DEFINE Full(r) ==
             /\ req[r].pc \in {"store", "serve"} => TokenAmount(req[r].token) >= Price[r]
             /\ req[r].pc = "serve" => IsInjective(req[r].token)
<1>1. \A r \in Requests : Full(r)
  BY DEF FullInv
<1> SUFFICES ASSUME NEW s \in Requests PROVE Full(s)'
  BY DEF FullInv
<1>2. CASE req'[s] = req[s]
  BY <1>1, <1>2
<1>3. CASE req'[s].pc \notin {"store", "serve"}
  BY <1>3
<1>4. ASSUME NEW r \in Requests, NEW t \in Tokens, Send(r, t)
      PROVE  req'[s] = req[s] \/ req'[s].pc \notin {"store", "serve"}
  BY <1>4 DEF Send, TypeOK
<1>5. ASSUME NEW r \in Requests, RequestStep(r)
      PROVE  Full(s)'
  <2>1. CASE s # r
    <3>1. req'[s] = req[s]
      BY <1>5, <2>1 DEF RequestStep, Wait, Work, Lookup, BeginRequest, VerifyToken,
         VerifySpelled, StoreEcash, CommitRequest, RollbackRequest, GoTo, TypeOK
    <3> QED
      BY <1>2, <3>1
  <2>2. CASE s = r /\ VerifyToken(r)
    <3>1. req'[r].token = req[r].token /\ req'[r].pc # "serve"
      BY <2>2 DEF VerifyToken, VerifySpelled, GoTo, TypeOK, RequestStates
    <3>2. CASE req'[r].pc = "store"
      <4>1. TokenAmount(req[r].token) >= Price[r]
        BY <2>2, <3>2 DEF VerifyToken, VerifySpelled, GoTo, TypeOK, RequestStates
      <4> QED
        BY <2>2, <3>1, <4>1
    <3> QED
      BY <2>2, <3>1, <3>2
  <2>3. CASE s = r /\ StoreEcash(r)
    <3>1. req'[r].token = req[r].token /\ req[r].pc = "store"
      BY <2>3 DEF StoreEcash, GoTo, TypeOK, RequestStates
    <3>2. CanAddLockedProofs(tx, req[r].token) \/ req'[r].pc = "rollback"
      BY <2>3 DEF StoreEcash, GoTo, TypeOK, RequestStates
    <3> QED
      BY <1>1, <2>3, <3>1, <3>2 DEF CanAddLockedProofs
  <2>4. CASE s = r /\ (Wait(r) \/ CommitRequest(r) \/ RollbackRequest(r))
    <3>1. req'[s].pc \notin {"store", "serve"}
      BY <2>4 DEF Wait, Lookup, BeginRequest, CommitRequest, RollbackRequest, GoTo,
         IdleRequest, TypeOK, RequestStates
    <3> QED
      BY <1>3, <3>1
  <2> QED
    BY <1>5, <2>1, <2>2, <2>3, <2>4 DEF RequestStep, Work
<1>6. CASE Crash
  BY <1>3, <1>6 DEF Crash, IdleRequest
<1>7. CASE RotatorStep
  BY <1>2, <1>7 DEF RotatorStep, AskMint, SwapProofs, SwapLost, SwapRefused, MintFails,
     RotatePubkey, EndRotation, AbortRotation
<1>8. CASE \/ NewDBLocalWallet \/ Tick \/ BeginRotation \/ UNCHANGED vars
           \/ \E p \in Proofs : LockToQuote(p)
           \/ \E m \in Mints : RetireKeyset(m)
  BY <1>2, <1>8 DEF NewDBLocalWallet, Tick, BeginRotation, vars, LockToQuote, RetireKeyset
<1> QED
  BY <1>2, <1>3, <1>4, <1>5, <1>6, <1>7, <1>8 DEF Next

\* The connection's owner r changes the committed tables only by committing r.
LEMMA OwnerCommits ==
    ASSUME TypeOK, Exclusive, [Next]_vars, NEW r \in Requests, conn = r, db' # db
    PROVE  CommitRequest(r)
<1>1. r # Free /\ r # Rotator
  BY OwnerAssumption
<1>2. up
  BY <1>1 DEF Exclusive
<1>3. ~RotatorStep
  BY <1>1, RotatorInside
<1>4. PICK s \in Requests : RequestStep(s)
  BY <1>2, <1>3 DEF Next, NewDBLocalWallet, Crash, RollbackTransaction, Tick, LockToQuote,
     Send, BeginRotation, RetireKeyset, vars
<1>5. CommitRequest(s)
  BY <1>4 DEF RequestStep, Wait, Work, Lookup, BeginRequest, VerifyToken, VerifySpelled,
     StoreEcash, RollbackRequest, RollbackTransaction
<1>6. s = r
  BY <1>5 DEF CommitRequest, Exclusive
<1> QED
  BY <1>5, <1>6

LEMMA FullStep ==
    ASSUME TypeOK, LedgerInv, FullInv, [Next]_vars,
           NEW r \in Requests, conn = r, db' # db
    PROVE  Value(db'.locked \ db.locked) >= Price[r]
<1> DEFINE token == req[r].token
<1>1. CommitRequest(r)
  BY OwnerCommits DEF LedgerInv, BooksInv
<1>2. /\ TokenAmount(token) >= Price[r] /\ IsInjective(token)
      /\ HasStored(r) /\ db' = tx
  BY <1>1 DEF FullInv, LedgerInv, CommitRequest, CommitTransaction
<1>3. db'.locked \ db.locked = Range(token)
  BY <1>2 DEF HasStored
<1>4. token \in Seq(Proofs)
  BY DEF TypeOK, RequestStates
<1> HIDE DEF token
<1>5. Value(Range(token)) = TokenAmount(token)
  BY <1>2, <1>4, AmountIsValue
<1> QED
  BY <1>2, <1>3, <1>5

\* A request whose transaction stores proofs was paid in full by proofs that never
\* paid before, for any amounts, prices and tokens: a token that lists a proof twice,
\* which VerifyToken lets pass, is refused when it is stored.
THEOREM PaymentsAreFull == Spec => PaidInFull
<1>1. TypeOK /\ LedgerInv /\ FullInv /\ [Next]_vars =>
        [\A r \in Requests :
           (conn = r /\ db' # db) => Value(db'.locked \ db.locked) >= Price[r]]_vars
  BY FullStep
<1>2. Spec => [](TypeOK /\ LedgerInv /\ FullInv)
  BY TypeCorrect, LedgerInit, LedgerNext, FullInit, FullNext, PTL DEF Spec
<1> QED
  BY <1>1, <1>2, PTL DEF Spec, PaidInFull

=============================================================================
