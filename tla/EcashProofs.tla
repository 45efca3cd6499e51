---------------------------- MODULE EcashProofs -----------------------------
(***************************************************************************)
(* Theorems about module Ecash, for any proofs, mints, requests, amounts   *)
(* and bounds.                                                             *)
(***************************************************************************)
EXTENDS EcashProperties, FiniteSetTheorems, WellFoundedInduction, TLAPS

-----------------------------------------------------------------------------
(* Lemmas about the operators *)

\* The number of outputs a swap asks for (cashu.AmountSplit) is a number,
\* whatever the amount.
LEMMA OutputCountType ==
    ASSUME NEW amount
    PROVE  OutputCount(amount) \in Nat
<1> DEFINE I == 0 .. (Width - 1)
           S == {i \in I : (amount \div 2^i) % 2 = 1}
<1>1. IsFiniteSet(I)
  BY FS_Interval, EcashAssumption DEF EcashAssumption
<1>2. IsFiniteSet(S)
  BY <1>1, FS_Subset
<1>3. Cardinality(S) \in Nat
  BY <1>2, FS_CardinalityType
<1> QED
  BY <1>3 DEF OutputCount

\* The batch of a swap request is one, for the keyset it is asked for.
LEMMA BatchType ==
    ASSUME NEW ins \in SUBSET Proofs, NEW k \in Keysets, NEW first \in Nat
    PROVE  Batch(ins, k, first) \in Batches
BY OutputCountType DEF Batch, Batches

\* The proofs of a token.
LEMMA RangeType ==
    ASSUME NEW token \in Seq(Proofs)
    PROVE  Range(token) \in SUBSET Proofs
BY DEF Range

\* Statements take tables to tables.
LEMMA StatementTypes ==
    ASSUME NEW d \in Tables
    PROVE  /\ \A token \in Seq(Proofs), v \in Nat : AddLockedProofs(d, token, v) \in Tables
           /\ \A ps : ChangeLockedProofsRedeem(d, ps) \in Tables
           /\ \A e \in Nat : RotateNewPubkey(d, e) \in Tables
           /\ \A k \in Keysets : GetKeysetCounter(d, k) \in Nat
           /\ \A k \in Keysets, c \in Nat : SetKeysetCounter(d, k, c) \in Tables
           /\ \A k \in Keysets, c \in Nat : ModifyKeysetCounter(d, k, c) \in Tables
           /\ \A b \in Batches : AddProofs(d, b) \in Tables
           /\ \A r : GetLockedProofsByRedeemed(d, r) \in SUBSET Proofs
<1>1. \A token \in Seq(Proofs), v \in Nat : AddLockedProofs(d, token, v) \in Tables
  BY RangeType DEF Tables, AddLockedProofs
<1>2. \A ps : ChangeLockedProofsRedeem(d, ps) \in Tables
  BY DEF Tables, ChangeLockedProofsRedeem
<1>3. \A e \in Nat : RotateNewPubkey(d, e) \in Tables
  <2> SUFFICES ASSUME NEW e \in Nat PROVE RotateNewPubkey(d, e) \in Tables
    OBVIOUS
  <2>1. d.version \in Nat
    BY DEF Tables
  <2>2. d.version + 1 \in Nat
    BY <2>1
  <2> QED
    BY <2>2 DEF Tables, RotateNewPubkey
<1>4. \A k \in Keysets : GetKeysetCounter(d, k) \in Nat
  BY DEF Tables, GetKeysetCounter, NoRow
<1>5. \A k \in Keysets, c \in Nat : SetKeysetCounter(d, k, c) \in Tables
  BY DEF Tables, SetKeysetCounter
<1>6. \A k \in Keysets, c \in Nat : ModifyKeysetCounter(d, k, c) \in Tables
  BY DEF Tables, ModifyKeysetCounter
<1>7. \A b \in Batches : AddProofs(d, b) \in Tables
  BY DEF Tables, AddProofs
<1>8. \A r : GetLockedProofsByRedeemed(d, r) \in SUBSET Proofs
  BY DEF Tables, GetLockedProofsByRedeemed
<1> QED
  BY <1>1, <1>2, <1>3, <1>4, <1>5, <1>6, <1>7, <1>8

\* A token in flight is a sequence of proofs of one mint.
LEMMA TokenType == Tokens \subseteq Seq(Proofs)
BY EcashAssumption DEF Tokens, EcashAssumption

\* The pending swap request is a batch of an existing keyset.
LEMMA RequestType ==
    ASSUME TypeOK, NEW k \in rot.keyset
    PROVE  k \in Keysets /\ Request(k) \in Batches
<1>1. k \in Keysets /\ tx \in Tables
  BY DEF TypeOK, RotatorStates
<1>2. GetKeysetCounter(tx, k) \in Nat
  BY <1>1, StatementTypes
<1>3. ProofsToSwap(tx, KeysetMint[k]) \in SUBSET Proofs
  BY <1>1, StatementTypes DEF ProofsToSwap
<1> QED
  BY <1>1, <1>2, <1>3, BatchType DEF Request

\* Where the rotator is may change on its own.
LEMMA RotatorAt ==
    ASSUME rot \in RotatorStates,
           NEW pc \in {"sleep", "mints", "swap", "rotate", "commit", "abort"}
    PROVE  [rot EXCEPT !.pc = pc] \in RotatorStates
BY DEF RotatorStates

-----------------------------------------------------------------------------
(* The type invariant *)

LEMMA TypeInit == Init => TypeOK
<1> SUFFICES ASSUME Init PROVE TypeOK
  OBVIOUS
<1>1. EmptyTables \in Tables
  BY DEF EmptyTables, Tables, NoRow
<1>2. mint \in MintStates
  BY EcashAssumption DEF Init, MintStates, EcashAssumption
<1>3. IdleRequest \in RequestStates
  BY DEF IdleRequest, RequestStates
<1>4. IdleRotator \in RotatorStates
  BY DEF IdleRotator, RotatorStates
<1>5. NoWallet \in Wallets
  BY DEF NoWallet, Wallets
<1> QED
  BY <1>1, <1>2, <1>3, <1>4, <1>5 DEF Init, TypeOK

LEMMA TypeNext == TypeOK /\ [Next]_vars => TypeOK'
<1> SUFFICES ASSUME TypeOK, [Next]_vars PROVE TypeOK'
  OBVIOUS
<1> USE DEF TypeOK
<1>1. CASE NewDBLocalWallet
  <2>1. Started \in Tables
    <3>1. now + Lifetime \in Nat
      BY EcashAssumption DEF EcashAssumption
    <3> QED
      BY <3>1, StatementTypes DEF Started
  <2>2. wallet' \in Wallets
    <3>1. db.version \in Nat /\ db.expires \in Nat
      BY DEF Tables
    <3>2. GetLockedProofsByRedeemed(db, FALSE) \in SUBSET Proofs
      BY StatementTypes
    <3>3. PICK m \in Mints :
            wallet' = [key     |-> db.version,
                       version |-> db.version,
                       expires |-> db.expires,
                       filter  |-> GetLockedProofsByRedeemed(db, FALSE),
                       trusted |-> {m}]
      BY <1>1 DEF NewDBLocalWallet
    <3> QED
      BY <3>1, <3>2, <3>3 DEF Wallets
  <2>3. faults' \in Nat
    BY <1>1 DEF NewDBLocalWallet, Fault
  <2> QED
    BY <1>1, <2>1, <2>2, <2>3 DEF NewDBLocalWallet
<1>2. CASE Crash
  <2>1. IdleRequest \in RequestStates /\ IdleRotator \in RotatorStates /\ NoWallet \in Wallets
    BY DEF IdleRequest, RequestStates, IdleRotator, RotatorStates, NoWallet, Wallets
  <2>2. faults' \in Nat
    BY <1>2 DEF Crash, Fault
  <2> QED
    BY <1>2, <2>1, <2>2 DEF Crash, RollbackTransaction
<1>3. CASE Tick
  BY <1>3 DEF Tick
<1>4. ASSUME NEW p \in Proofs, LockToQuote(p)
      PROVE  TypeOK'
  BY <1>4 DEF LockToQuote, Wallets
<1>5. ASSUME NEW r \in Requests, NEW t \in Tokens, Send(r, t)
      PROVE  TypeOK'
  <2>1. [pc |-> "lookup", token |-> t] \in RequestStates
    BY TokenType DEF RequestStates
  <2> QED
    BY <1>5, <2>1 DEF Send
<1>6. ASSUME NEW r \in Requests, RequestStep(r)
      PROVE  TypeOK'
  <2>1. \A pc \in {"begin", "verify", "store", "serve", "rollback"} :
          GoTo(r, pc) => req' \in [Requests -> RequestStates]
    BY DEF GoTo, RequestStates
  <2>2. IdleRequest \in RequestStates
    BY DEF IdleRequest, RequestStates
  <2>3. req[r].token \in Seq(Proofs)
    BY DEF RequestStates
  <2>4. CASE Wait(r)
    BY <2>1, <2>2, <2>4 DEF Wait, Lookup, BeginRequest, BeginTransaction
  <2>5. CASE VerifyToken(r)
    <3>1. wallet' \in Wallets
      BY <2>3, <2>5 DEF VerifyToken, VerifySpelled, Wallets
    <3>2. req' \in [Requests -> RequestStates]
      BY <2>1, <2>5 DEF VerifyToken, VerifySpelled
    <3> QED
      BY <2>5, <3>1, <3>2 DEF VerifyToken, VerifySpelled
  <2>6. CASE StoreEcash(r)
    <3>1. wallet.version \in Nat
      BY DEF Wallets
    <3>2. tx' \in Tables
      BY <2>3, <2>6, <3>1, StatementTypes DEF StoreEcash
    <3>3. req' \in [Requests -> RequestStates]
      BY <2>1, <2>6 DEF StoreEcash
    <3> QED
      BY <2>6, <3>2, <3>3 DEF StoreEcash
  <2>7. CASE CommitRequest(r)
    BY <2>2, <2>7 DEF CommitRequest, CommitTransaction
  <2>8. CASE RollbackRequest(r)
    BY <2>2, <2>8 DEF RollbackRequest, RollbackTransaction
  <2> QED
    BY <1>6, <2>4, <2>5, <2>6, <2>7, <2>8 DEF RequestStep, Work
<1>7. CASE BeginRotation
  <2>1. {MintOf[p] : p \in GetLockedProofsByRedeemed(db, FALSE)} \subseteq Mints
    BY StatementTypes, SqliteAssumption DEF SqliteAssumption
  <2>2. <<wallet.version, wallet.expires>> \in Nat \X Nat
    BY DEF Wallets
  <2>3. rot' \in RotatorStates
    BY <1>7, <2>1, <2>2 DEF BeginRotation, IdleRotator, RotatorStates
  <2> QED
    BY <1>7, <2>3 DEF BeginRotation, BeginTransaction
<1>8. CASE RotatorStep
  <2>1. IdleRotator \in RotatorStates
    BY DEF IdleRotator, RotatorStates
  <2>2. ASSUME NEW m \in Mints, AskMint(m)
        PROVE  TypeOK'
    <3>1. mint.active[m] \in Keysets
      BY DEF MintStates
    <3>2. tx' \in Tables
      <4>1. SetKeysetCounter(tx, mint.active[m], 0) \in Tables
        BY <3>1, StatementTypes
      <4> QED
        BY <2>2, <4>1 DEF AskMint
    <3>3. rot' \in RotatorStates
      <4>1. [rot EXCEPT !.pc = "swap", !.keyset = {mint.active[m]}] \in RotatorStates
        BY <3>1 DEF RotatorStates
      <4> QED
        BY <2>2, <4>1, RotatorAt DEF AskMint
    <3> QED
      BY <2>2, <3>2, <3>3 DEF AskMint
  <2>3. CASE SwapProofs
    <3>1. PICK k \in rot.keyset : SwapProofs!(k)
      BY <2>3 DEF SwapProofs
    <3> DEFINE b == Request(k)
    <3>2. k \in Keysets /\ b \in Batches
      BY RequestType
    <3>3. mint' \in MintStates
      BY <3>1, <3>2 DEF MintSwaps, MintStates, Batches
    <3>4. Swapped(b) \in Tables
      <4>1. b.ks \in Keysets /\ b.first + b.n \in Nat
        BY <3>2 DEF Batches
      <4> QED
        BY <3>2, <4>1, StatementTypes DEF Swapped
    <3>5. tx' \in Tables
      BY <3>1, <3>4
    <3>6. rot' \in RotatorStates
      <4>1. [rot EXCEPT !.pc = "mints", !.keyset = {},
                        !.todo = @ \ {KeysetMint[k]}] \in RotatorStates
        BY DEF RotatorStates
      <4> QED
        BY <3>1, <4>1, RotatorAt
    <3> QED
      BY <3>1, <3>3, <3>5, <3>6
  <2>4. CASE SwapLost
    <3>1. PICK k \in rot.keyset : SwapLost!(k)
      BY <2>4 DEF SwapLost
    <3>2. mint' \in MintStates
      BY <3>1, RequestType DEF MintSwaps, MintStates, Batches
    <3>3. rot' \in RotatorStates
      BY <3>1, RotatorAt
    <3> QED
      BY <3>1, <3>2, <3>3 DEF Fault
  <2>5. CASE SwapRefused
    BY <2>5, RotatorAt DEF SwapRefused
  <2>6. CASE MintFails
    BY <2>6, RotatorAt DEF MintFails, Fault
  <2>7. CASE RotatePubkey
    <3>1. tx' \in Tables
      <4>1. now + Lifetime \in Nat
        BY EcashAssumption DEF EcashAssumption
      <4> QED
        BY <2>7, <4>1, StatementTypes DEF RotatePubkey
    <3>2. wallet' \in Wallets
      BY <2>7, <3>1 DEF RotatePubkey, Wallets, Tables
    <3>3. rot' \in RotatorStates
      BY <2>7, RotatorAt DEF RotatePubkey
    <3> QED
      BY <2>7, <3>1, <3>2, <3>3 DEF RotatePubkey
  <2>8. CASE EndRotation
    BY <2>1, <2>8 DEF EndRotation, CommitTransaction, RollbackTransaction, Fault
  <2>9. CASE AbortRotation
    <3>1. wallet' \in Wallets
      BY <2>9 DEF AbortRotation, Wallets, RotatorStates
    <3> QED
      BY <2>1, <2>9, <3>1 DEF AbortRotation, RollbackTransaction
  <2> QED
    BY <1>8, <2>2, <2>3, <2>4, <2>5, <2>6, <2>7, <2>8, <2>9 DEF RotatorStep
<1>9. ASSUME NEW m \in Mints, RetireKeyset(m)
      PROVE  TypeOK'
  <2>1. PICK k \in Keysets \ mint.retired :
          mint' = [mint EXCEPT !.active[m] = k, !.retired = @ \cup {mint.active[m]}]
    BY <1>9 DEF RetireKeyset
  <2>2. mint' \in MintStates
    BY <2>1 DEF MintStates
  <2> QED
    BY <1>9, <2>2 DEF RetireKeyset
<1>10. CASE UNCHANGED vars
  BY <1>10 DEF vars
<1> QED
  BY <1>1, <1>2, <1>3, <1>4, <1>5, <1>6, <1>7, <1>8, <1>9, <1>10 DEF Next

\* Every variable stays within its type, whatever the order of steps and faults.
THEOREM TypeCorrect == Spec => []TypeOK
BY TypeInit, TypeNext, PTL DEF Spec

-----------------------------------------------------------------------------
(* What sums over sets and tokens amount to *)

(* Value and TokenAmount add up with a recursive function of the community     *)
(* modules.  Total is that function; the lemmas establish that it has a        *)
(* solution and what it sums up to.  Induction over the finite sets involved   *)
(* is the existence of a least counterexample (LeastSet).                      *)

\* The values of f on the subsets of S, added up in the order CHOOSE takes them.
Added(f, g, s) ==
    IF s = {} THEN 0 ELSE f[CHOOSE x \in s : TRUE] + g[s \ {CHOOSE x \in s : TRUE}]

Partial(f, S) == CHOOSE g : g = [s \in SUBSET S |-> Added(f, g, s)]

Total(f, S) == Partial(f, S)[S]

\* Induction over finite sets and over numbers, as the existence of a least one.
LEMMA LeastSet ==
    ASSUME NEW S, IsFiniteSet(S), NEW T \in SUBSET (SUBSET S), T # {}
    PROVE  \E s \in T : \A r \in T : r \subseteq s => r = s
<1>1. IsWellFoundedOn(StrictSubsetOrdering(S), SUBSET S)
  BY FS_StrictSubsetOrderingWellFounded, FS_FiniteSubsetsOfFinite
<1>2. PICK s \in T : \A r \in T : ~(<<r, s>> \in StrictSubsetOrdering(S))
  BY <1>1, WFMin, Zenon
<1> QED
  BY <1>2 DEF StrictSubsetOrdering

LEMMA LeastNumber ==
    ASSUME NEW T \in SUBSET Nat, T # {}
    PROVE  \E n \in T : \A m \in T : n <= m
<1>1. PICK k \in T : TRUE
  OBVIOUS
<1> DEFINE Below == {n \in T : n <= k}
           Initial == {0 .. n : n \in Below}
<1>2. Initial \in SUBSET (SUBSET (0 .. k)) /\ Initial # {}
  <2>1. \A n \in Below : 0 .. n \subseteq 0 .. k
    BY <1>1
  <2>2. k \in Below
    BY <1>1
  <2> HIDE DEF Below
  <2>3. Initial \in SUBSET (SUBSET (0 .. k))
    BY <2>1
  <2>4. 0 .. k \in Initial
    BY <2>2
  <2> QED
    BY <2>3, <2>4
<1>3. IsFiniteSet(0 .. k)
  BY <1>1, FS_Interval
<1> HIDE DEF Initial
<1>4. PICK s \in Initial : \A r \in Initial : r \subseteq s => r = s
  <2> DEFINE I == 0 .. k
  <2>1. Initial \in SUBSET (SUBSET I) /\ Initial # {} /\ IsFiniteSet(I)
    BY <1>2, <1>3
  <2> HIDE DEF I, Below
  <2> QED
    BY <2>1, LeastSet
<1>5. PICK n \in Below : s = 0 .. n
  BY <1>4 DEF Initial
<1>6. ASSUME NEW m \in T, m < n
      PROVE  FALSE
  <2>1. m \in Nat /\ n \in Nat /\ k \in Nat /\ n <= k
    BY <1>1, <1>5
  <2>2. m \in Below
    BY <1>6, <2>1
  <2>3. 0 .. m \in Initial
    BY <2>2 DEF Initial
  <2>4. 0 .. m \subseteq 0 .. n
    BY <1>6, <2>1
  <2>5. 0 .. m = 0 .. n
    BY <1>4, <1>5, <2>3, <2>4
  <2>6. n \in 0 .. n /\ n \notin 0 .. m
    BY <1>6, <2>1
  <2> QED
    BY <2>5, <2>6
<1>7. ASSUME NEW m \in T
      PROVE  n <= m
  <2>1. m \in Nat /\ n \in Nat
    BY <1>5
  <2> QED
    BY <1>6, <2>1
<1> QED
  BY <1>5, <1>7

\* What CHOOSE takes from a set, and what it leaves.
LEMMA Taken ==
    ASSUME NEW S, IsFiniteSet(S), NEW s \in SUBSET S, s # {}
    PROVE  LET x == CHOOSE x \in s : TRUE IN
           /\ x \in s
           /\ s \ {x} \in SUBSET S
           /\ s \ {x} # s
           /\ Cardinality(s) \in Nat /\ Cardinality(s \ {x}) = Cardinality(s) - 1
<1> DEFINE x == CHOOSE x \in s : TRUE
<1>1. x \in s
  OBVIOUS
<1>2. IsFiniteSet(s)
  BY FS_Subset
<1> HIDE DEF x
<1>3. Cardinality(s) \in Nat /\ Cardinality(s \ {x}) = Cardinality(s) - 1
  BY <1>1, <1>2, FS_RemoveElement, FS_CardinalityType
<1> QED
  BY <1>1, <1>3 DEF x

\* The recursive definition has a solution.
LEMMA PartialExists ==
    ASSUME NEW S, IsFiniteSet(S), NEW f
    PROVE  Partial(f, S) = [s \in SUBSET S |-> Added(f, Partial(f, S), s)]
<1> DEFINE Upto(g, n) ==
             /\ g = [s \in SUBSET S |-> g[s]]
             /\ \A s \in SUBSET S : Cardinality(s) <= n => g[s] = Added(f, g, s)
           Some == {n \in Nat : \E g : Upto(g, n)}
<1>1. \A s \in SUBSET S : IsFiniteSet(s) /\ Cardinality(s) \in Nat
  BY FS_Subset, FS_CardinalityType
<1>2. 0 \in Some
  <2> DEFINE g == [s \in SUBSET S |-> 0]
  <2>1. \A s \in SUBSET S : Cardinality(s) <= 0 => s = {}
    BY <1>1, FS_EmptySet
  <2>2. \A s \in SUBSET S : Cardinality(s) <= 0 => g[s] = Added(f, g, s)
    BY <2>1 DEF Added
  <2>3. g = [s \in SUBSET S |-> g[s]]
    OBVIOUS
  <2> HIDE DEF g
  <2> QED
    BY <2>2, <2>3
<1>3. ASSUME NEW n \in Nat, n \in Some
      PROVE  n + 1 \in Some
  <2>1. PICK g : Upto(g, n)
    BY <1>3
  <2> DEFINE h == [s \in SUBSET S |-> IF Cardinality(s) = n + 1 THEN Added(f, g, s) ELSE g[s]]
  <2>2. h = [s \in SUBSET S |-> h[s]]
    OBVIOUS
  <2>3. ASSUME NEW s \in SUBSET S, Cardinality(s) <= n + 1
        PROVE  h[s] = Added(f, h, s)
    <3>1. Added(f, g, s) = Added(f, h, s)
      <4>1. CASE s = {}
        BY <4>1 DEF Added
      <4>2. CASE s # {}
        <5> DEFINE r == s \ {CHOOSE x \in s : TRUE}
        <5>1. r \in SUBSET S /\ Cardinality(r) = Cardinality(s) - 1
          BY <4>2, Taken
        <5>2. Cardinality(r) # n + 1
          BY <1>1, <2>3, <5>1
        <5>3. h[r] = g[r]
          BY <5>1, <5>2
        <5> HIDE DEF h
        <5> QED
          BY <4>2, <5>3 DEF Added
      <4> QED
        BY <4>1, <4>2
    <3>2. CASE Cardinality(s) = n + 1
      BY <3>1, <3>2
    <3>3. CASE Cardinality(s) # n + 1
      <4>1. Cardinality(s) <= n
        BY <1>1, <2>3, <3>3
      <4> QED
        BY <2>1, <3>1, <3>3, <4>1
    <3> QED
      BY <3>2, <3>3
  <2> HIDE DEF h
  <2>4. Upto(h, n + 1)
    BY <2>2, <2>3
  <2> HIDE DEF Upto
  <2> QED
    BY <2>4
<1>4. Some = Nat
  <2> HIDE DEF Some
  <2>1. SUFFICES ASSUME Nat \ Some # {} PROVE FALSE
    BY DEF Some
  <2>2. PICK n \in Nat \ Some : \A m \in Nat \ Some : n <= m
    BY <2>1, LeastNumber
  <2>3. n # 0
    BY <1>2
  <2>4. n - 1 \in Nat /\ ~(n <= n - 1) /\ (n - 1) + 1 = n
    BY <2>3
  <2>5. n - 1 \in Some
    BY <2>2, <2>4
  <2>6. (n - 1) + 1 \in Some
    BY <1>3, <2>4, <2>5
  <2> QED
    BY <2>4, <2>6
<1>5. PICK g : Upto(g, Cardinality(S))
  BY <1>1, <1>4
<1>6. \A s \in SUBSET S : Cardinality(s) <= Cardinality(S)
  BY FS_Subset
<1>7. g = [s \in SUBSET S |-> Added(f, g, s)]
  BY <1>5, <1>6
<1> HIDE DEF Upto, Some
<1> QED
  BY <1>7 DEF Partial

\* The solution at one subset.
LEMMA PartialAt ==
    ASSUME NEW S, IsFiniteSet(S), NEW f, NEW s \in SUBSET S
    PROVE  Partial(f, S)[s] = Added(f, Partial(f, S), s)
<1> DEFINE P == Partial(f, S)
<1>1. P = [r \in SUBSET S |-> Added(f, P, r)]
  BY PartialExists
<1> HIDE DEF P
<1>2. P[s] = Added(f, P, s)
  BY <1>1
<1> QED
  BY <1>2 DEF P

\* The sum over a subset does not depend on the set it is a subset of.
LEMMA PartialOfSubset ==
    ASSUME NEW S, IsFiniteSet(S), NEW f, NEW s \in SUBSET S
    PROVE  Partial(f, S)[s] = Total(f, s)
<1> DEFINE Other == {r \in SUBSET s : Partial(f, S)[r] # Partial(f, s)[r]}
<1>1. IsFiniteSet(s)
  BY FS_Subset
<1>2. Other = {}
  <2>1. SUFFICES ASSUME Other # {} PROVE FALSE
    OBVIOUS
  <2>2. Other \in SUBSET (SUBSET s)
    OBVIOUS
  <2> HIDE DEF Other
  <2>3. PICK r \in Other : \A q \in Other : q \subseteq r => q = r
    BY <1>1, <2>1, <2>2, LeastSet
  <2>4. r \in SUBSET s /\ r \in SUBSET S
    BY <2>2
  <2>5. Partial(f, S)[r] = Added(f, Partial(f, S), r)
    BY <2>4, PartialAt
  <2>6. Partial(f, s)[r] = Added(f, Partial(f, s), r)
    BY <1>1, <2>4, PartialAt
  <2>7. CASE r = {}
    BY <2>3, <2>5, <2>6, <2>7 DEF Added, Other
  <2>8. CASE r # {}
    <3> DEFINE q == r \ {CHOOSE x \in r : TRUE}
    <3>1. q \in SUBSET s /\ q # r /\ q \subseteq r
      BY <1>1, <2>4, <2>8, Taken
    <3>2. q \notin Other
      BY <2>3, <3>1
    <3>3. Partial(f, S)[q] = Partial(f, s)[q]
      BY <3>1, <3>2 DEF Other
    <3>4. Partial(f, S)[r] = Partial(f, s)[r]
      BY <2>5, <2>6, <2>8, <3>3 DEF Added
    <3> QED
      BY <2>3, <3>4 DEF Other
  <2> QED
    BY <2>7, <2>8
<1>3. s \notin Other
  BY <1>2
<1> QED
  BY <1>3 DEF Total

\* Nothing adds up to nothing; the rest is one value and a smaller sum.
LEMMA TotalUnfolded ==
    ASSUME NEW S, IsFiniteSet(S), NEW f
    PROVE  Total(f, S) = IF S = {} THEN 0
                       ELSE LET x == CHOOSE x \in S : TRUE IN f[x] + Total(f, S \ {x})
<1> DEFINE x == CHOOSE x \in S : TRUE
<1>1. Total(f, S) = Added(f, Partial(f, S), S)
  BY PartialAt DEF Total
<1>2. Partial(f, S)[S \ {x}] = Total(f, S \ {x})
  BY PartialOfSubset
<1> QED
  BY <1>1, <1>2 DEF Added

\* Numbers add up to a number.
LEMMA TotalType ==
    ASSUME NEW S, IsFiniteSet(S), NEW f, \A x \in S : f[x] \in Nat
    PROVE  Total(f, S) \in Nat
<1> DEFINE Other == {s \in SUBSET S : Total(f, s) \notin Nat}
<1>1. SUFFICES ASSUME Other # {} PROVE FALSE
  OBVIOUS
<1>2. Other \in SUBSET (SUBSET S)
  OBVIOUS
<1> HIDE DEF Other
<1>3. PICK s \in Other : \A q \in Other : q \subseteq s => q = s
  BY <1>1, <1>2, LeastSet
<1>4. s \in SUBSET S /\ IsFiniteSet(s) /\ Total(f, s) \notin Nat
  BY <1>2, FS_Subset DEF Other
<1>5. s # {}
  BY <1>4, TotalUnfolded
<1> DEFINE x == CHOOSE x \in s : TRUE
<1>6. x \in s /\ s \ {x} \in SUBSET S /\ s \ {x} # s
  BY <1>4, <1>5, Taken
<1>7. Total(f, s) = f[x] + Total(f, s \ {x})
  BY <1>4, <1>5, TotalUnfolded
<1> HIDE DEF x
<1>8. Total(f, s \ {x}) \in Nat
  <2>1. s \ {x} \notin Other
    BY <1>3, <1>6
  <2> QED
    BY <1>6, <2>1 DEF Other
<1>9. f[x] \in Nat
  BY <1>4, <1>6
<1> QED
  BY <1>4, <1>7, <1>8, <1>9

\* Any element can be taken out first.
LEMMA TotalWithout ==
    ASSUME NEW S, IsFiniteSet(S), NEW f, \A x \in S : f[x] \in Nat, NEW e \in S
    PROVE  Total(f, S) = f[e] + Total(f, S \ {e})
<1> DEFINE Other ==
             {s \in SUBSET S : \E y \in s : Total(f, s) # f[y] + Total(f, s \ {y})}
<1>1. SUFFICES ASSUME Other # {} PROVE FALSE
  OBVIOUS
<1>2. Other \in SUBSET (SUBSET S)
  OBVIOUS
<1> HIDE DEF Other
<1>3. PICK s \in Other : \A q \in Other : q \subseteq s => q = s
  BY <1>1, <1>2, LeastSet
<1>4. PICK y \in s : Total(f, s) # f[y] + Total(f, s \ {y})
  BY <1>3 DEF Other
<1>5. s \in SUBSET S
  BY <1>2
<1>6. \A q \in SUBSET s : IsFiniteSet(q) /\ Total(f, q) \in Nat
  BY <1>5, FS_Subset, TotalType
<1> DEFINE x == CHOOSE x \in s : TRUE
<1>7. Total(f, s) = f[x] + Total(f, s \ {x})
  BY <1>4, <1>6, TotalUnfolded
<1>8. x \in s
  BY <1>4
<1> HIDE DEF x
<1>9. x # y
  BY <1>4, <1>7
<1>10. \A z \in s : \A w \in s \ {z} :
         Total(f, s \ {z}) = f[w] + Total(f, (s \ {z}) \ {w})
  <2> SUFFICES ASSUME NEW z \in s, NEW w \in s \ {z}
               PROVE  Total(f, s \ {z}) = f[w] + Total(f, (s \ {z}) \ {w})
    OBVIOUS
  <2>1. s \ {z} \in SUBSET S /\ s \ {z} \subseteq s /\ s \ {z} # s
    BY <1>5
  <2>2. s \ {z} \notin Other
    BY <1>3, <2>1
  <2> QED
    BY <2>1, <2>2 DEF Other
<1>11. Total(f, s \ {x}) = f[y] + Total(f, (s \ {x}) \ {y})
  BY <1>8, <1>9, <1>10
<1>12. Total(f, s \ {y}) = f[x] + Total(f, (s \ {y}) \ {x})
  BY <1>8, <1>9, <1>10
<1>13. (s \ {x}) \ {y} = (s \ {y}) \ {x}
  OBVIOUS
<1>14. f[x] \in Nat /\ f[y] \in Nat /\ Total(f, (s \ {y}) \ {x}) \in Nat
  BY <1>5, <1>6, <1>8
<1> DEFINE rest == Total(f, (s \ {y}) \ {x})
<1>15. /\ Total(f, s) = f[x] + (f[y] + rest)
       /\ Total(f, s \ {y}) = f[x] + rest
  BY <1>7, <1>11, <1>12, <1>13
<1> HIDE DEF rest
<1>16. f[x] + (f[y] + rest) = f[y] + (f[x] + rest)
  BY <1>14 DEF rest
<1> QED
  BY <1>4, <1>15, <1>16

\* A sum over the values of an injection is one over its domain.
LEMMA TotalOfImage ==
    ASSUME NEW I, IsFiniteSet(I), NEW t, IsFiniteSet({t[i] : i \in I}), NEW f,
           \A i \in I : f[t[i]] \in Nat,
           \A i, j \in I : t[i] = t[j] => i = j
    PROVE  Total([i \in I |-> f[t[i]]], I) = Total(f, {t[i] : i \in I})
<1> DEFINE g == [i \in I |-> f[t[i]]]
           Image(J) == {t[i] : i \in J}
           Other == {J \in SUBSET I : Total(g, J) # Total(f, Image(J))}
<1>1. SUFFICES ASSUME Other # {} PROVE FALSE
  OBVIOUS
<1>2. Other \in SUBSET (SUBSET I)
  OBVIOUS
<1>3. \A i \in I : g[i] = f[t[i]]
  OBVIOUS
<1> HIDE DEF Other, g
<1>4. PICK J \in Other : \A K \in Other : K \subseteq J => K = J
  BY <1>1, <1>2, LeastSet
<1>5. J \in SUBSET I /\ IsFiniteSet(J) /\ Total(g, J) # Total(f, Image(J))
  BY <1>2, <1>4, FS_Subset DEF Other
<1>6. IsFiniteSet(Image(J))
  <2>1. Image(J) \subseteq Image(I)
    BY <1>5
  <2> QED
    BY <2>1, FS_Subset
<1>7. J # {}
  <2>1. ASSUME J = {} PROVE FALSE
    <3>1. Image(J) = {}
      BY <2>1
    <3>2. Total(g, J) = 0 /\ Total(f, Image(J)) = 0
      BY <1>5, <1>6, <2>1, <3>1, TotalUnfolded
    <3> QED
      BY <1>5, <3>2
  <2> QED
    BY <2>1
<1>8. PICK i \in J : TRUE
  BY <1>7
<1>9. Total(g, J) = g[i] + Total(g, J \ {i})
  <2>1. \A x \in J : g[x] \in Nat
    BY <1>3, <1>5
  <2> QED
    BY <1>5, <2>1, TotalWithout
<1>10. Total(f, Image(J)) = f[t[i]] + Total(f, Image(J) \ {t[i]})
  <2>1. \A x \in Image(J) : f[x] \in Nat
    BY <1>5
  <2>2. t[i] \in Image(J)
    OBVIOUS
  <2> HIDE DEF Image
  <2> QED
    BY <1>6, <2>1, <2>2, TotalWithout
<1>11. Image(J) \ {t[i]} = Image(J \ {i})
  BY <1>5
<1>12. Total(g, J \ {i}) = Total(f, Image(J \ {i}))
  <2>1. J \ {i} \notin Other
    BY <1>4
  <2>2. J \ {i} \in SUBSET I
    BY <1>5
  <2> QED
    BY <2>1, <2>2 DEF Other
<1> HIDE DEF Image
<1> QED
  BY <1>3, <1>5, <1>9, <1>10, <1>11, <1>12

-----------------------------------------------------------------------------
(* Amounts of tokens *)

\* Values of proofs and amounts of tokens are such totals.
LEMMA ValueIsTotal ==
    /\ \A ps : Value(ps) = Total(Amount, ps)
    /\ \A t : TokenAmount(t) = Total([i \in DOMAIN t |-> Amount[t[i]]], DOMAIN t)
<1>1. \A ps : Value(ps) = Total(Amount, ps)
  BY DEF Value, Total, Partial, Added, MapThenSumSet, MapThenFoldSet
<1>2. \A t : TokenAmount(t) = Total([i \in DOMAIN t |-> Amount[t[i]]], DOMAIN t)
  BY DEF TokenAmount, Total, Partial, Added, FoldFunction, FoldFunctionOnSet, MapThenFoldSet
<1> QED
  BY <1>1, <1>2

\* A token that lists no proof twice is worth what its proofs are.
LEMMA AmountIsValue ==
    ASSUME NEW token \in Seq(Proofs), IsInjective(token)
    PROVE  TokenAmount(token) = Value(Range(token))
<1> DEFINE I == DOMAIN token
<1>1. I = 1 .. Len(token) /\ Len(token) \in Nat
  OBVIOUS
<1>2. IsFiniteSet(I)
  BY <1>1, FS_Interval
<1>3. Range(token) = {token[i] : i \in I} /\ Range(token) \in SUBSET Proofs
  BY RangeType DEF Range
<1>4. IsFiniteSet(Range(token))
  BY <1>3, FS_Subset, SqliteAssumption DEF SqliteAssumption
<1>5. \A i \in I : token[i] \in Proofs /\ Amount[token[i]] \in Nat
  BY EcashAssumption DEF EcashAssumption
<1>6. \A i, j \in I : token[i] = token[j] => i = j
  BY DEF IsInjective
<1>7. TokenAmount(token) = Total([i \in I |-> Amount[token[i]]], I)
  BY ValueIsTotal
<1>8. Value(Range(token)) = Total(Amount, {token[i] : i \in I})
  BY <1>3, ValueIsTotal
<1> HIDE DEF I
<1> QED
  BY <1>2, <1>3, <1>4, <1>5, <1>6, <1>7, <1>8, TotalOfImage

=============================================================================
