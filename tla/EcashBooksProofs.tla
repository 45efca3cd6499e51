-------------------------- MODULE EcashBooksProofs --------------------------
(***************************************************************************)
(* The books of the server balance for any proofs, mints, keysets and      *)
(* bounds: what is redeemed was swapped once, no derived secret is signed  *)
(* twice, and what a mint signed is stored or can be recovered.            *)
(***************************************************************************)
EXTENDS EcashPaymentProofs

-----------------------------------------------------------------------------
(* Statements that do not touch the books *)

\* What one set of tables must have in common with another for its books to be
\* right when those of the other are.  Rows may be added, and a missing counter
\* row may appear where it reads the same.
SameBooks(d, e) ==
    /\ e.redeemed = d.redeemed
    /\ e.swapped = d.swapped
    /\ d.locked \subseteq e.locked
    /\ \A k \in Keysets :
         /\ GetKeysetCounter(e, k) = GetKeysetCounter(d, k)
         /\ d.counter[k] # NoRow => e.counter[k] = d.counter[k]

\* Every statement but the three that book a swap.
LEMMA StatementsKeepBooks ==
    ASSUME NEW d \in Tables
    PROVE  /\ SameBooks(d, d)
           /\ \A token, v : SameBooks(d, AddLockedProofs(d, token, v))
           /\ \A e : SameBooks(d, RotateNewPubkey(d, e))
           /\ \A k \in Keysets : GetKeysetCounter(d, k) = 0 =>
                SameBooks(d, IF CanSetKeysetCounter(d, k) THEN SetKeysetCounter(d, k,
                0) ELSE d)
<1>1. SameBooks(d, d)
  BY DEF SameBooks
<1>2. ASSUME NEW token, NEW v
      PROVE  SameBooks(d, AddLockedProofs(d, token, v))
  BY DEF SameBooks, AddLockedProofs, Tables, GetKeysetCounter
<1>3. ASSUME NEW e
      PROVE  SameBooks(d, RotateNewPubkey(d, e))
  BY DEF SameBooks, RotateNewPubkey, Tables, GetKeysetCounter
<1>4. ASSUME NEW k \in Keysets, CanSetKeysetCounter(d, k)
      PROVE  SameBooks(d, SetKeysetCounter(d, k, 0))
  <2> DEFINE e == SetKeysetCounter(d, k, 0)
  <2>1. e.redeemed = d.redeemed /\ e.swapped = d.swapped /\ e.locked = d.locked
    BY DEF SetKeysetCounter, Tables
  <2>2. e.counter = [d.counter EXCEPT ![k] = 0]
    BY DEF SetKeysetCounter, Tables
  <2>3. d.counter[k] = NoRow /\ d.counter \in [Keysets -> Nat \cup {NoRow}]
    BY <1>4 DEF CanSetKeysetCounter, Tables
  <2>4. ASSUME NEW j \in Keysets
        PROVE  /\ GetKeysetCounter(e, j) = GetKeysetCounter(d, j)
               /\ d.counter[j] # NoRow => e.counter[j] = d.counter[j]
    BY <2>2, <2>3 DEF GetKeysetCounter, NoRow
  <2> QED
    BY <2>1, <2>4 DEF SameBooks
<1> QED
  BY <1>1, <1>2, <1>3, <1>4

\* Tables with the same books are as good as those they come from, as long as the
\* mints sign nothing.
LEMMA SameBooksAreRight ==
    ASSUME mint.signed \in SUBSET Batches,
           NEW d \in Tables, Balanced(d), Recovers(d), Counted(d),
           NEW e \in Tables, SameBooks(d, e)
    PROVE  Balanced(e) /\ Recovers(e) /\ Counted(e)
<1>1. Balanced(e)
  BY DEF Balanced, SameBooks
<1>2. Counted(e)
  BY DEF Counted, SameBooks, Tables, Batches
<1>3. Recovers(e)
  <2>1. Held(d) \subseteq Held(e)
    BY DEF Held, SameBooks
  <2>2. \A b \in mint.signed : b.ks \in Keysets
    BY DEF Batches
  <2> QED
    BY <2>1, <2>2 DEF Recovers, SameBooks
<1> QED
  BY <1>1, <1>2, <1>3

-----------------------------------------------------------------------------
(* A swap *)

\* A pending request that the mint accepts asks for secrets that come after all it
\* ever signed: an answer that was not booked left a spent proof behind, and the
\* request would offer it again.
LEMMA RequestIsNew ==
    ASSUME TypeOK, BooksInv, rot.pc = "swap",
           NEW k \in rot.keyset, MintAccepts(Request(k))
    PROVE  /\ Request(k) \in Batches
           /\ KeysetMint[k] \in rot.todo
           /\ tx.counter[k] # NoRow
           /\ Request(k).ks = k
           /\ Request(k).ins # {}
           /\ Request(k).ins = ProofsToSwap(tx, KeysetMint[k])
           /\ Request(k).ins = ProofsToSwap(db, KeysetMint[k])
           /\ Request(k).first = GetKeysetCounter(tx, k)
           /\ Request(k).first = GetKeysetCounter(db, k)
           /\ Request(k).ins \cap mint.spent = {}
           /\ \A a \in mint.signed : a.ks = k => a \in tx.swapped
<1> DEFINE b == Request(k)
           m == KeysetMint[k]
<1>1. k \in Keysets /\ b \in Batches
  BY RequestType
<1>2. /\ b.ks = k
      /\ b.ins = ProofsToSwap(tx, m)
      /\ b.first = GetKeysetCounter(tx, k)
  BY DEF Request, Batch
<1>3. /\ m \in rot.todo /\ tx.counter[k] # NoRow
      /\ ProofsToSwap(tx, m) # {} /\ ProofsToSwap(tx, m) = ProofsToSwap(db, m)
      /\ GetKeysetCounter(tx, k) = GetKeysetCounter(db, k)
  BY <1>1 DEF BooksInv, TodoIsUntouched
<1>4. b.ins \cap mint.spent = {}
  BY DEF MintAccepts
<1>5. ASSUME NEW a \in mint.signed, a.ks = k, a \notin tx.swapped
      PROVE  FALSE
  <2>1. a.ins # {} /\ a.ins \subseteq mint.spent /\ \A p \in a.ins : MintOf[p] = m
    BY <1>5 DEF BooksInv, SignedForInputs
  <2>2. a.ins \subseteq Held(tx)
    BY <1>5 DEF BooksInv, Recovers
  <2>3. a.ins \subseteq ProofsToSwap(tx, m)
    BY <2>1, <2>2 DEF ProofsToSwap, GetLockedProofsByRedeemed, Held
  <2> QED
    BY <1>2, <1>4, <2>1, <2>3
<1> QED
  BY <1>1, <1>2, <1>3, <1>4, <1>5

\* Hence no secret of it was signed before.
LEMMA RequestIsFresh ==
    ASSUME TypeOK, BooksInv, rot.pc = "swap",
           NEW k \in rot.keyset, MintAccepts(Request(k)),
           NEW a \in mint.signed
    PROVE  ~SharesSecret(a, Request(k)) /\ ~SharesSecret(Request(k), a)
<1> DEFINE b == Request(k)
<1>1. b \in Batches /\ b.ks = k /\ b.first = GetKeysetCounter(tx,
k) /\ tx.counter[k] # NoRow
  BY RequestIsNew
<1>2. CASE a.ks # k
  BY <1>1, <1>2 DEF SharesSecret
<1>3. CASE a.ks = k
  <2>1. a \in tx.swapped
    BY <1>3, RequestIsNew
  <2>2. a.first + a.n <= tx.counter[k]
    BY <1>3, <2>1 DEF BooksInv, Counted
  <2>3. a.first + a.n <= b.first
    BY <1>1, <2>2 DEF GetKeysetCounter
  <2>4. a.first \in Nat /\ a.n \in Nat /\ b.first \in Nat /\ b.n \in Nat
    BY <1>1 DEF TypeOK, MintStates, Batches
  <2>5. ASSUME NEW i \in Indices(a), i \in Indices(b)
        PROVE  FALSE
    BY <2>3, <2>4, <2>5 DEF Indices
  <2> QED
    BY <2>5 DEF SharesSecret
<1> QED
  BY <1>2, <1>3

\* What the mint signs for the request is new to it, spends what it swaps, and is
\* fresh.
LEMMA MintKeepsBooks ==
    ASSUME TypeOK, BooksInv, rot.pc = "swap",
           NEW k \in rot.keyset, MintAccepts(Request(k)), MintSwaps(Request(k))
    PROVE  SignedForInputs' /\ FreshOutputs'
<1> DEFINE b == Request(k)
<1>1. /\ mint'.active = mint.active
      /\ mint'.spent = mint.spent \cup b.ins
      /\ mint'.signed = mint.signed \cup {b}
  BY DEF MintSwaps, TypeOK, MintStates
<1>2. b.ins # {} /\ b.ks = k /\ b.ins = ProofsToSwap(tx, KeysetMint[k])
  BY RequestIsNew
<1>3. \A p \in b.ins : MintOf[p] = KeysetMint[b.ks]
  BY <1>2 DEF ProofsToSwap
<1>4. SignedForInputs'
  BY <1>1, <1>2, <1>3 DEF BooksInv, SignedForInputs
<1>5. FreshOutputs'
  BY <1>1, RequestIsFresh DEF BooksInv, FreshOutputs
<1> QED
  BY <1>4, <1>5

\* Tables that do not book the swap can ask for it again.
LEMMA UnbookedIsRecoverable ==
    ASSUME TypeOK, BooksInv, rot.pc = "swap", NEW d \in {db, tx},
           NEW k \in rot.keyset, MintAccepts(Request(k)), MintSwaps(Request(k))
    PROVE  \A b \in mint'.signed :
             \/ b \in d.swapped
             \/ b.first = GetKeysetCounter(d, b.ks) /\ b.ins \subseteq Held(d)
<1>1. mint'.signed = mint.signed \cup {Request(k)}
  BY DEF MintSwaps, TypeOK, MintStates
<1>2. /\ Request(k).first = GetKeysetCounter(d, Request(k).ks)
      /\ Request(k).ins \subseteq ProofsToSwap(d, KeysetMint[k])
  BY RequestIsNew
<1>3. Request(k).ins \subseteq Held(d)
  BY <1>2 DEF ProofsToSwap, GetLockedProofsByRedeemed, Held
<1> QED
  BY <1>1, <1>2, <1>3 DEF BooksInv, Recovers

\* The tables that book the swap.
LEMMA SwappedTables ==
    ASSUME TypeOK, NEW b \in Batches, tx.counter[b.ks] # NoRow, b.ins \subseteq tx.locked
    PROVE  /\ Swapped(b).locked = tx.locked
           /\ Swapped(b).version = tx.version
           /\ Swapped(b).redeemed = tx.redeemed \cup b.ins
           /\ Swapped(b).swapped = tx.swapped \cup {b}
           /\ Swapped(b).counter = [tx.counter EXCEPT ![b.ks] = b.first + b.n]
<1> DEFINE c == ModifyKeysetCounter(tx, b.ks, b.first + b.n)
           d == ChangeLockedProofsRedeem(c, b.ins)
<1>1. /\ c.locked = tx.locked /\ c.version = tx.version /\ c.redeemed = tx.redeemed
      /\ c.swapped = tx.swapped
      /\ c.counter = [tx.counter EXCEPT ![b.ks] = b.first + b.n]
      /\ c \in Tables
  <2>1. b.first + b.n \in Nat /\ b.ks \in Keysets
    BY DEF Batches
  <2>2. c \in Tables
    BY <2>1, StatementTypes DEF TypeOK
  <2> QED
    BY <2>2 DEF ModifyKeysetCounter, TypeOK, Tables
<1>2. /\ d.locked = c.locked /\ d.version = c.version /\ d.swapped = c.swapped
      /\ d.counter = c.counter /\ d.redeemed = c.redeemed \cup (b.ins \cap c.locked)
      /\ d \in Tables
  BY <1>1, StatementTypes DEF ChangeLockedProofsRedeem, Tables
<1>3. Swapped(b) = [d EXCEPT !.swapped = @ \cup {b}]
  BY DEF Swapped, AddProofs
<1>4. /\ Swapped(b).locked = d.locked /\ Swapped(b).version = d.version
      /\ Swapped(b).redeemed = d.redeemed /\ Swapped(b).counter = d.counter
      /\ Swapped(b).swapped = d.swapped \cup {b}
  BY <1>2, <1>3 DEF Tables
<1>5. d.redeemed = tx.redeemed \cup b.ins
  BY <1>1, <1>2
<1> QED
  BY <1>1, <1>2, <1>4, <1>5

\* Booking a swap that the mint has made leaves the books right.
LEMMA BookedIsRight ==
    ASSUME TypeOK, BooksInv, rot.pc = "swap", NEW k \in rot.keyset,
           MintAccepts(Request(k)), MintSwaps(Request(k)), tx' = Swapped(Request(k))
    PROVE  (Balanced(tx) /\ Recovers(tx) /\ Counted(tx))'
<1> DEFINE b == Request(k)
<1>1. /\ b \in Batches /\ b.ks = k /\ b.ins # {} /\ b.ins \cap mint.spent = {}
      /\ b.first = GetKeysetCounter(tx, k) /\ tx.counter[k] # NoRow
      /\ b.ins = ProofsToSwap(tx, KeysetMint[k])
      /\ \A a \in mint.signed : a.ks = k => a \in tx.swapped
  BY RequestIsNew
<1>2. b.ins \subseteq tx.locked /\ b.ins \cap tx.redeemed = {}
  BY <1>1 DEF ProofsToSwap, GetLockedProofsByRedeemed
<1>3. /\ tx'.locked = tx.locked
      /\ tx'.redeemed = tx.redeemed \cup b.ins
      /\ tx'.swapped = tx.swapped \cup {b}
      /\ tx'.counter = [tx.counter EXCEPT ![k] = b.first + b.n]
  BY <1>1, <1>2, SwappedTables
<1>4. Balanced(tx) /\ Recovers(tx) /\ Counted(tx)
  BY DEF BooksInv
<1>5. Balanced(tx)'
  <2>1. \A a \in tx.swapped : a.ins \subseteq tx.redeemed
    BY <1>4 DEF Balanced
  <2>2. tx'.redeemed = UNION {a.ins : a \in tx'.swapped}
    BY <1>3, <1>4 DEF Balanced
  <2>3. \A a, c \in tx'.swapped : a # c => a.ins \cap c.ins = {}
    BY <1>2, <1>3, <1>4, <2>1 DEF Balanced
  <2> QED
    BY <2>2, <2>3 DEF Balanced
<1>6. Counted(tx)'
  <2>1. /\ k \in Keysets /\ b.first \in Nat /\ b.n \in Nat
        /\ tx.counter \in [Keysets -> Nat \cup {NoRow}]
        /\ \A a \in tx.swapped : a.ks \in Keysets /\ a.first \in Nat /\ a.n \in Nat
    BY <1>1 DEF TypeOK, Tables, Batches
  <2>2. tx'.counter[k] = b.first + b.n /\ \A j \in Keysets : j # k => tx'.counter[j] = tx.counter[j]
    BY <1>3, <2>1
  <2>3. b.first + b.n # NoRow /\ b.first = tx.counter[k]
    BY <1>1, <2>1 DEF NoRow, GetKeysetCounter
  <2>4. ASSUME NEW a \in tx.swapped
        PROVE  tx'.counter[a.ks] # NoRow /\ a.first + a.n <= tx'.counter[a.ks]
    <3>1. tx.counter[a.ks] # NoRow /\ a.first + a.n <= tx.counter[a.ks]
      BY <1>4 DEF Counted
    <3>2. CASE a.ks = k
      BY <2>1, <2>2, <2>3, <3>1, <3>2
    <3>3. CASE a.ks # k
      BY <2>1, <2>2, <3>1, <3>3
    <3> QED
      BY <3>2, <3>3
  <2>5. tx'.counter[b.ks] # NoRow /\ b.first + b.n <= tx'.counter[b.ks]
    BY <1>1, <2>1, <2>2, <2>3
  <2> QED
    BY <1>3, <2>4, <2>5 DEF Counted
<1>7. Recovers(tx)'
  <2>1. mint'.signed = mint.signed \cup {b}
    BY DEF MintSwaps, TypeOK, MintStates
  <2>2. ASSUME NEW a \in mint.signed, a \notin tx.swapped
        PROVE  a.first = GetKeysetCounter(tx', a.ks) /\ a.ins \subseteq Held(tx')
    <3>1. a.first = GetKeysetCounter(tx, a.ks) /\ a.ins \subseteq Held(tx)
      BY <1>4, <2>2 DEF Recovers
    <3>2. a.ks # k /\ a.ks \in Keysets /\ k \in Keysets
      BY <1>1, <2>2 DEF TypeOK, MintStates, Batches
    <3>3. tx'.counter[a.ks] = tx.counter[a.ks]
      BY <1>3, <3>2 DEF TypeOK, Tables
    <3>4. a.ins \cap b.ins = {}
      BY <1>1 DEF BooksInv, SignedForInputs
    <3>5. a.ins \subseteq Held(tx')
      BY <1>3, <3>1, <3>4 DEF Held
    <3> QED
      BY <3>1, <3>3, <3>5 DEF GetKeysetCounter
  <2> QED
    BY <1>3, <2>1, <2>2 DEF Recovers
<1> QED
  BY <1>5, <1>6, <1>7

\* The mints still to do after it are not concerned.
LEMMA BookedLeavesTodo ==
    ASSUME TypeOK, BooksInv, rot.pc = "swap", NEW k \in rot.keyset,
           MintAccepts(Request(k)), tx' = Swapped(Request(k)), db' = db,
           rot' = [rot EXCEPT !.pc = "mints", !.keyset = {}, !.todo = @ \ {KeysetMint[k]}]
    PROVE  TodoIsUntouched'
<1> DEFINE b == Request(k)
           m == KeysetMint[k]
<1>1. /\ b \in Batches /\ b.ks = k /\ tx.counter[k] # NoRow
      /\ b.ins = ProofsToSwap(tx, m)
  BY RequestIsNew
<1>2. b.ins \subseteq tx.locked
  BY <1>1 DEF ProofsToSwap, GetLockedProofsByRedeemed
<1>3. /\ tx'.locked = tx.locked
      /\ tx'.redeemed = tx.redeemed \cup b.ins
      /\ tx'.counter = [tx.counter EXCEPT ![k] = b.first + b.n]
  BY <1>1, <1>2, SwappedTables
<1>4. rot'.pc = "mints" /\ rot'.todo = rot.todo \ {m}
  BY DEF TypeOK, RotatorStates
<1>5. ASSUME NEW n \in rot'.todo
      PROVE  ProofsToSwap(tx', n) # {} /\ ProofsToSwap(tx', n) = ProofsToSwap(db', n)
  <2>1. ProofsToSwap(tx', n) = ProofsToSwap(tx, n)
    BY <1>1, <1>3, <1>4 DEF ProofsToSwap, GetLockedProofsByRedeemed
  <2> QED
    BY <1>4, <2>1 DEF BooksInv, TodoIsUntouched
<1>6. ASSUME NEW j \in Keysets, KeysetMint[j] \in rot'.todo
      PROVE  GetKeysetCounter(tx', j) = GetKeysetCounter(db', j)
  <2>1. GetKeysetCounter(tx', j) = GetKeysetCounter(tx, j)
    <3>1. j # k
      BY <1>4, <1>6
    <3>2. tx.counter \in [Keysets -> Nat \cup {NoRow}]
      BY DEF TypeOK, Tables
    <3>3. tx'.counter[j] = tx.counter[j]
      BY <1>3, <3>1, <3>2
    <3> QED
      BY <3>3 DEF GetKeysetCounter
  <2> QED
    BY <1>4, <1>6, <2>1 DEF BooksInv, TodoIsUntouched
<1> QED
  BY <1>4, <1>5, <1>6 DEF TodoIsUntouched

-----------------------------------------------------------------------------
(* The books of every reachable state *)

LEMMA BooksInit == Init => BooksInv
<1> SUFFICES ASSUME Init PROVE BooksInv
  OBVIOUS
<1>1. /\ db = EmptyTables /\ tx = EmptyTables
      /\ mint.signed = {} /\ \A m \in Mints : KeysetMint[mint.active[m]] = m
  BY DEF Init
<1>2. EmptyTables.swapped = {} /\ EmptyTables.redeemed = {}
  BY DEF EmptyTables
<1>3. rot.pc = "sleep"
  BY DEF Init, IdleRotator
<1>4. \A d \in {db, tx} : Balanced(d) /\ Recovers(d) /\ Counted(d)
  BY <1>1, <1>2 DEF Balanced, Recovers, Counted
<1> QED
  BY <1>1, <1>3, <1>4, ExclusiveInit DEF BooksInv, SignedForInputs, FreshOutputs,
     TodoIsUntouched

\* Steps that make the mints sign nothing and leave what the tables say of swaps.
LEMMA BooksKept ==
    ASSUME TypeOK, TypeOK', BooksInv,
           UNCHANGED <<mint.signed, mint.spent>>,
           \A m \in Mints : KeysetMint[mint'.active[m]] = m,
           SameBooks(db, db') \/ SameBooks(tx, db'),
           SameBooks(db, tx') \/ SameBooks(tx, tx')
    PROVE  /\ SignedForInputs' /\ FreshOutputs'
           /\ (Balanced(db) /\ Recovers(db) /\ Counted(db))'
           /\ (Balanced(tx) /\ Recovers(tx) /\ Counted(tx))'
<1>1. mint.signed \in SUBSET Batches /\ {db, tx, db', tx'} \subseteq Tables
  BY DEF TypeOK, MintStates
<1>2. /\ Balanced(db) /\ Recovers(db) /\ Counted(db)
      /\ Balanced(tx) /\ Recovers(tx) /\ Counted(tx)
  BY DEF BooksInv
<1>3. Balanced(db') /\ Recovers(db') /\ Counted(db')
  BY <1>1, <1>2, SameBooksAreRight
<1>4. Balanced(tx') /\ Recovers(tx') /\ Counted(tx')
  BY <1>1, <1>2, SameBooksAreRight
<1>5. SignedForInputs' /\ FreshOutputs'
  BY DEF BooksInv, SignedForInputs, FreshOutputs
<1>6. (Balanced(db) /\ Counted(db))' /\ (Balanced(tx) /\ Counted(tx))'
  BY <1>3, <1>4 DEF Balanced, Counted
<1>7. Recovers(db)' /\ Recovers(tx)'
  BY <1>3, <1>4 DEF Recovers
<1> QED
  BY <1>5, <1>6, <1>7

\* A step of the loop over the mints up to the swap request.
LEMMA AskLeavesTodo ==
    ASSUME TypeOK, BooksInv, NEW m \in Mints, AskMint(m)
    PROVE  SameBooks(tx, tx') /\ TodoIsUntouched'
<1> DEFINE k == mint.active[m]
<1>1. /\ k \in Keysets /\ tx \in Tables
      /\ tx.counter \in [Keysets -> Nat \cup {NoRow}]
      /\ rot \in RotatorStates
  BY DEF TypeOK, MintStates, Tables
<1>2. KeysetMint[k] = m
  BY DEF BooksInv, SignedForInputs
<1>3. rot.pc = "mints" /\ m \in rot.todo /\ UNCHANGED <<db, mint>>
  BY DEF AskMint
<1>4. CASE rot'.pc # "swap"
  <2>1. rot'.pc \in {"rotate", "abort"} /\ tx' = tx
    BY <1>1, <1>4 DEF AskMint, RotatorStates
  <2> QED
    BY <1>1, <2>1, StatementsKeepBooks DEF TodoIsUntouched
<1>5. CASE rot'.pc = "swap"
  <2>1. rot' = [rot EXCEPT !.pc = "swap", !.keyset = {k}]
    BY <1>1, <1>5 DEF AskMint, RotatorStates
  <2>2. rot'.todo = rot.todo /\ rot'.keyset = {k}
    BY <1>1, <2>1 DEF RotatorStates
  <2>3. \/ GetKeysetCounter(tx, k) # 0 /\ tx' = tx
        \/ /\ GetKeysetCounter(tx, k) = 0 /\ CanSetKeysetCounter(tx, k)
           /\ tx' = SetKeysetCounter(tx, k, 0)
    BY <1>1, <1>5 DEF AskMint, RotatorStates
  <2>4. SameBooks(tx, tx')
    BY <1>1, <2>3, StatementsKeepBooks
  <2>5. tx'.counter[k] # NoRow
    <3>1. CASE GetKeysetCounter(tx, k) # 0 /\ tx' = tx
      BY <3>1 DEF GetKeysetCounter
    <3>2. CASE tx' = SetKeysetCounter(tx, k, 0)
      <4>1. tx'.counter = [tx.counter EXCEPT ![k] = 0]
        BY <1>1, <3>2 DEF SetKeysetCounter, Tables
      <4> QED
        BY <1>1, <4>1 DEF NoRow
    <3> QED
      BY <2>3, <3>1, <3>2
  <2>6. tx'.locked = tx.locked /\ tx'.redeemed = tx.redeemed
    BY <1>1, <2>3 DEF SetKeysetCounter, Tables
  <2>7. \A n : ProofsToSwap(tx', n) = ProofsToSwap(tx, n)
    BY <2>6 DEF ProofsToSwap, GetLockedProofsByRedeemed
  <2>8. \A j \in Keysets : GetKeysetCounter(tx', j) = GetKeysetCounter(tx, j)
    BY <2>4 DEF SameBooks
  <2>9. /\ \A n \in rot.todo :
             ProofsToSwap(tx, n) # {} /\ ProofsToSwap(tx, n) = ProofsToSwap(db, n)
        /\ \A j \in Keysets : KeysetMint[j] \in rot.todo =>
             GetKeysetCounter(tx, j) = GetKeysetCounter(db, j)
    BY <1>3 DEF BooksInv, TodoIsUntouched
  <2>10. /\ \A n \in rot'.todo :
              ProofsToSwap(tx', n) # {} /\ ProofsToSwap(tx', n) = ProofsToSwap(db', n)
         /\ \A j \in Keysets : KeysetMint[j] \in rot'.todo =>
              GetKeysetCounter(tx', j) = GetKeysetCounter(db', j)
    BY <1>3, <2>2, <2>7, <2>8, <2>9
  <2>11. \A j \in rot'.keyset : KeysetMint[j] \in rot'.todo /\ tx'.counter[j] # NoRow
    BY <1>2, <1>3, <2>2, <2>5
  <2> QED
    BY <2>4, <2>10, <2>11 DEF TodoIsUntouched
<1> QED
  BY <1>4, <1>5

LEMMA BooksNext == TypeOK /\ BooksInv /\ [Next]_vars => BooksInv'
<1> SUFFICES ASSUME TypeOK, BooksInv, [Next]_vars PROVE BooksInv'
  OBVIOUS
<1>1. TypeOK' /\ Exclusive /\ Exclusive'
  BY TypeNext, ExclusiveNext DEF BooksInv
<1>2. \A r \in Requests : r # Rotator /\ r # Free
  BY OwnerAssumption
<1>3. db \in Tables /\ tx \in Tables
  BY DEF TypeOK
<1>4. SameBooks(db, db) /\ SameBooks(tx, tx)
  BY <1>3, StatementsKeepBooks
<1>5. \A m \in Mints : KeysetMint[mint.active[m]] = m
  BY DEF BooksInv, SignedForInputs
\* A step that swaps nothing, or one that is not of the rotator or ends its part.
<1> DEFINE Keep == /\ mint' = mint
                   /\ SameBooks(db, db') \/ SameBooks(tx, db')
                   /\ SameBooks(db, tx') \/ SameBooks(tx, tx')
           Idle == rot'.pc \notin {"mints", "swap"} \/ UNCHANGED <<db, tx, rot>>
<1>6. ASSUME Keep, TodoIsUntouched'
      PROVE  BooksInv'
  <2>1. UNCHANGED <<mint.signed,
  mint.spent>> /\ \A m \in Mints : KeysetMint[mint'.active[m]] = m
    BY <1>5, <1>6
  <2> QED
    BY <1>1, <1>6, <2>1, BooksKept DEF BooksInv
<1>7. ASSUME Idle
      PROVE  TodoIsUntouched'
  BY <1>7 DEF BooksInv, TodoIsUntouched
<1>8. CASE NewDBLocalWallet
  <2>1. rot'.pc = "sleep"
    BY <1>1, <1>8 DEF NewDBLocalWallet, Exclusive, Free, Rotator
  <2>2. SameBooks(db, Started)
    BY <1>3, <1>4, StatementsKeepBooks DEF Started
  <2>3. mint' = mint /\ tx' = db' /\ (db' = db \/ db' = Started)
    BY <1>8 DEF NewDBLocalWallet
  <2> QED
    BY <1>4, <1>6, <1>7, <2>1, <2>2, <2>3
<1>9. CASE Crash
  BY <1>4, <1>6, <1>7, <1>9 DEF Crash, RollbackTransaction, IdleRotator
<1>10. CASE Tick
  BY <1>4, <1>6, <1>7, <1>10 DEF Tick
<1>11. ASSUME NEW p \in Proofs, LockToQuote(p)
       PROVE  BooksInv'
  BY <1>4, <1>6, <1>7, <1>11 DEF LockToQuote
<1>12. ASSUME NEW r \in Requests, NEW t \in Tokens, Send(r, t)
       PROVE  BooksInv'
  BY <1>4, <1>6, <1>7, <1>12 DEF Send
<1>13. ASSUME NEW r \in Requests, RequestStep(r)
       PROVE  BooksInv'
  <2>1. mint' = mint /\ rot' = rot /\ (db' = db \/ db' = tx)
    BY <1>13 DEF RequestStep, Wait, Work, Lookup, BeginRequest, BeginTransaction,
       VerifyToken, VerifySpelled, StoreEcash, CommitRequest, CommitTransaction,
       RollbackRequest, RollbackTransaction
  <2>2. \/ tx' = tx \/ tx' = db
        \/ tx' = AddLockedProofs(tx, req[r].token, wallet.version)
    BY <1>13 DEF RequestStep, Wait, Work, Lookup, BeginRequest, BeginTransaction,
       VerifyToken, VerifySpelled, StoreEcash, CommitRequest, CommitTransaction,
       RollbackRequest, RollbackTransaction
  <2>3. Keep
    BY <1>3, <1>4, <2>1, <2>2, StatementsKeepBooks
  <2>4. rot.pc = "sleep"
    <3>1. conn = Free \/ conn = r
      BY <1>1, <1>13 DEF Exclusive, RequestStep, Wait, Work, Lookup, BeginRequest,
         BeginTransaction, VerifyToken, VerifySpelled, StoreEcash, CommitRequest,
         RollbackRequest
    <3> QED
      BY <1>1, <1>2, <3>1 DEF Exclusive, Free, Rotator
  <2> QED
    BY <1>6, <1>7, <2>1, <2>3, <2>4
<1>14. CASE BeginRotation
  <2>1. /\ tx' = db /\ db' = db /\ mint' = mint
        /\ rot'.pc = "mints"
        /\ rot'.todo = {MintOf[p] : p \in GetLockedProofsByRedeemed(db, FALSE)}
    BY <1>14 DEF BeginRotation, BeginTransaction, IdleRotator
  <2>2. TodoIsUntouched'
    BY <2>1 DEF TodoIsUntouched, ProofsToSwap
  <2> QED
    BY <1>4, <1>6, <2>1, <2>2
<1>15. CASE RotatorStep
  <2>1. ASSUME NEW m \in Mints, AskMint(m)
        PROVE  BooksInv'
    <3>1. mint' = mint /\ db' = db
      BY <2>1 DEF AskMint
    <3> QED
      BY <1>4, <1>6, <2>1, <3>1, AskLeavesTodo
  <2>2. CASE SwapProofs
    <3>1. PICK k \in rot.keyset : SwapProofs!(k)
      BY <2>2 DEF SwapProofs
    <3>2. rot.pc = "swap" /\ MintAccepts(Request(k)) /\ MintSwaps(Request(k)) /\ db' = db
      BY <3>1
    <3>3. SignedForInputs' /\ FreshOutputs'
      BY <3>2, MintKeepsBooks
    <3>4. Recovers(db)' /\ (tx' = tx => Recovers(tx)')
      BY <3>2, UnbookedIsRecoverable DEF Recovers
    <3>5. Balanced(db)' /\ Counted(db)' /\ (tx' = tx => Balanced(tx)' /\ Counted(tx)')
      BY <3>2 DEF BooksInv, Balanced, Counted
    <3>6. CASE /\ tx' = Swapped(Request(k))
               /\ rot' = [rot EXCEPT !.pc = "mints", !.keyset = {},
                                     !.todo = @ \ {KeysetMint[k]}]
      BY <1>1, <3>2, <3>3, <3>4, <3>5, <3>6, BookedIsRight, BookedLeavesTodo DEF BooksInv
    <3>7. CASE tx' = tx /\ rot' = [rot EXCEPT !.pc = "abort"]
      <4>1. rot'.pc = "abort"
        BY <3>7 DEF TypeOK, RotatorStates
      <4> QED
        BY <1>1, <1>7, <3>3, <3>4, <3>5, <3>7, <4>1 DEF BooksInv
    <3> QED
      BY <3>1, <3>6, <3>7
  <2>3. CASE SwapLost
    <3>1. PICK k \in rot.keyset : SwapLost!(k)
      BY <2>3 DEF SwapLost
    <3>2. /\ rot.pc = "swap" /\ MintAccepts(Request(k)) /\ MintSwaps(Request(k))
          /\ db' = db /\ tx' = tx
      BY <3>1
    <3>3. rot'.pc = "abort"
      BY <3>1 DEF TypeOK, RotatorStates
    <3>4. Recovers(db)' /\ Recovers(tx)'
      BY <3>2, UnbookedIsRecoverable DEF Recovers
    <3>5. (Balanced(db) /\ Counted(db))' /\ (Balanced(tx) /\ Counted(tx))'
      BY <3>2 DEF BooksInv, Balanced, Counted
    <3> QED
      BY <1>1, <1>7, <3>2, <3>3, <3>4, <3>5, MintKeepsBooks DEF BooksInv
  <2>4. CASE SwapRefused \/ MintFails
    <3>1. rot'.pc = "abort" /\ UNCHANGED <<db, tx, mint>>
      BY <2>4 DEF SwapRefused, MintFails, TypeOK, RotatorStates
    <3> QED
      BY <1>4, <1>6, <1>7, <3>1
  <2>5. CASE RotatePubkey
    <3>1. rot'.pc = "commit" /\ UNCHANGED <<db, mint>> /\ tx' = RotateNewPubkey(tx,
    now + Lifetime)
      BY <2>5 DEF RotatePubkey, TypeOK, RotatorStates
    <3>2. SameBooks(tx, tx')
      BY <1>3, <3>1, StatementsKeepBooks
    <3> QED
      BY <1>4, <1>6, <1>7, <3>1, <3>2
  <2>6. CASE EndRotation \/ AbortRotation
    <3>1. rot'.pc = "sleep" /\ mint' = mint /\ (db' = db \/ db' = tx) /\ (tx' = tx \/ tx' = db)
      BY <2>6 DEF EndRotation, AbortRotation, CommitTransaction, RollbackTransaction,
         IdleRotator
    <3> QED
      BY <1>4, <1>6, <1>7, <3>1
  <2> QED
    BY <1>15, <2>1, <2>2, <2>3, <2>4, <2>5, <2>6 DEF RotatorStep
<1>16. ASSUME NEW m \in Mints, RetireKeyset(m)
       PROVE  BooksInv'
  <2>1. PICK k \in Keysets :
          /\ KeysetMint[k] = m
          /\ mint' = [mint EXCEPT !.active[m] = k, !.retired = @ \cup {mint.active[m]}]
    BY <1>16 DEF RetireKeyset
  <2>2. /\ mint'.active = [mint.active EXCEPT ![m] = k]
        /\ mint'.signed = mint.signed /\ mint'.spent = mint.spent
    BY <2>1 DEF TypeOK, MintStates
  <2>3. \A n \in Mints : KeysetMint[mint'.active[n]] = n
    BY <1>5, <2>1, <2>2 DEF TypeOK, MintStates
  <2>4. UNCHANGED <<db, tx, rot>>
    BY <1>16 DEF RetireKeyset
  <2> QED
    BY <1>1, <1>4, <1>7, <2>2, <2>3, <2>4, BooksKept DEF BooksInv
<1>17. CASE UNCHANGED vars
  BY <1>4, <1>6, <1>7, <1>17 DEF vars
<1> QED
  BY <1>8, <1>9, <1>10, <1>11, <1>12, <1>13, <1>14, <1>15, <1>16, <1>17 DEF Next

LEMMA BooksAlways == Spec => [](TypeOK /\ BooksInv)
BY TypeCorrect, BooksInit, BooksNext, PTL DEF Spec

\* The property SwappedOnce: in the committed tables the redeemed rows are exactly the
\* inputs of the stored batches, and no two of these share an input, after any number of
\* lost answers and crashes (crons.go:329-382).  That a mint does not swap a proof twice
\* is an assumption about mints (MintAccepts), not a result.
THEOREM ProofsAreSwappedOnce == Spec => []SwappedOnce
<1>1. BooksInv => SwappedOnce
  BY DEF BooksInv, SwappedOnce
<1> QED
  BY <1>1, BooksAlways, PTL

\* The property FreshOutputs: no two batches that mints have signed share a derived
\* secret, although the counter is rolled back with every rotation that fails
\* (backend.go:390-396).
THEOREM OutputsAreFresh == Spec => []FreshOutputs
<1>1. BooksInv => FreshOutputs
  BY DEF BooksInv
<1> QED
  BY <1>1, BooksAlways, PTL

\* Whatever a mint signed is stored or can be asked for again: a lost answer loses
\* neither the inputs of the swap nor the place of its secrets.
THEOREM SignaturesAreRecoverable == Spec => []Recoverable
<1>1. BooksInv => Recoverable
  BY DEF BooksInv, Recoverable
<1> QED
  BY <1>1, BooksAlways, PTL

=============================================================================
