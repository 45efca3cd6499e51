---------------------------- MODULE PayoutProofs ----------------------------
(***************************************************************************)
(* The properties of the payout hold for any proofs, mints and bounds.     *)
(***************************************************************************)
EXTENDS Payout, FiniteSetTheorems, TLAPS

\* While the file is written it is a proper prefix of its content; there is
\* something to write, and it is about rows.
RewriteInv ==
    /\ TypeOK
    /\ pc = "open" => tokens # <<>>
    /\ \A i \in DOMAIN tokens : tokens[i] \subseteq swapped
    /\ pc = "writing" =>
         /\ Len(file) < Len(content)
         /\ \A i \in 1 .. Len(file) : file[i] = content[i]

\* What is spent, or about to be, is in the file or will be at the end of the write.
WrittenInv ==
    /\ pc \in {"tokens", "open", "writing", "mark"} => tx = spent
    /\ ~cut =>
         /\ pc # "writing" => \A p \in spent : Contains(file, p)
         /\ pc = "writing" => \A p \in spent : Contains(content, p)
         /\ pc = "writing" => \A p : Contains(tokens, p) => Contains(content, p)
         /\ pc = "mark" => \A p : Contains(tokens, p) => Contains(file, p)
         /\ pc = "commit" => \A p \in tx : Contains(file, p)

\* The proofs whose line in the file the database knows of, or soon will.
Booked ==
    CASE pc \in {"writing", "mark"} -> spent \cup {p \in Proofs : Contains(tokens, p)}
      [] pc = "commit"              -> tx
      [] OTHER                      -> spent

\* A line of the file that is not booked costs a fault; and the tokens of a payout
\* bring a line each for proofs that are not booked yet.
OnceInv ==
    /\ pc \in {"tokens", "open", "writing", "mark"} => tx = spent
    /\ pc = "open" => \A i, j \in DOMAIN tokens :
         /\ tokens[i] \cap spent = {}
         /\ i # j => tokens[i] \cap tokens[j] = {}
    /\ \A p \in Proofs :
         Cardinality(LinesOf(IF pc = "writing" THEN content ELSE file, p))
            <= faults + (IF p \in Booked THEN 1 ELSE 0)

-----------------------------------------------------------------------------
(* Sequences *)

LEMMA ContainsConcatenation ==
    ASSUME NEW s \in Seq(Tokens), NEW t \in Seq(Tokens), NEW p,
           Contains(s, p) \/ Contains(t, p)
    PROVE  Contains(s \o t, p)
<1>1. \A i \in 1 .. Len(s) : (s \o t)[i] = s[i] /\ i \in 1 .. Len(s \o t)
  OBVIOUS
<1>2. \A i \in 1 .. Len(t) : (s \o t)[Len(s) + i] = t[i] /\ Len(s) + i \in 1 .. Len(s \o t)
  OBVIOUS
<1>3. CASE Contains(s, p)
  BY <1>1, <1>3 DEF Contains
<1>4. CASE Contains(t, p)
  <2>1. PICK i \in 1 .. Len(t) : p \in t[i]
    BY <1>4 DEF Contains
  <2>2. Len(s) + i \in DOMAIN (s \o t) /\ p \in (s \o t)[Len(s) + i]
    BY <1>2, <2>1
  <2> QED
    BY <2>2 DEF Contains
<1> QED
  BY <1>3, <1>4

\* The tokens a payout may make of some mints: one of each, of their unspent rows.
LEMMA TokensOfType ==
    ASSUME TypeOK, NEW ms \in SUBSET Mints, NEW t \in TokensOf(ms)
    PROVE  /\ t \in Seq(Tokens)
           /\ \A i \in DOMAIN t : t[i] \subseteq swapped
           /\ ms # {} => t # <<>>
<1>1. IsFiniteSet(ms)
  BY PayoutAssumption, FS_Subset DEF PayoutAssumption
<1>2. Cardinality(ms) \in Nat
  BY <1>1, FS_CardinalityType
<1>3. t \in [1 .. Cardinality(ms) -> {GetBySpentProofs(m) : m \in ms}]
  BY DEF TokensOf
<1>4. \A m \in ms : GetBySpentProofs(m) \in Tokens /\ GetBySpentProofs(m) \subseteq swapped
  BY DEF TypeOK, GetBySpentProofs, Tokens
<1>5. t \in [1 .. Cardinality(ms) -> Tokens]
  BY <1>3, <1>4
<1>6. t \in Seq(Tokens)
  BY <1>2, <1>5
<1>7. \A i \in DOMAIN t : t[i] \subseteq swapped
  BY <1>3, <1>4
<1>8. ASSUME ms # {} PROVE t # <<>>
  <2>1. Cardinality(ms) # 0
    BY <1>1, <1>8, FS_EmptySet
  <2>2. 1 \in DOMAIN t
    BY <1>2, <1>3, <2>1
  <2> QED
    BY <2>2
<1> QED
  BY <1>6, <1>7, <1>8

-----------------------------------------------------------------------------
(* Types *)

LEMMA RewriteInit == Init => RewriteInv
<1> SUFFICES ASSUME Init PROVE RewriteInv
  OBVIOUS
<1>1. <<>> \in Seq(Tokens)
  OBVIOUS
<1>2. tokens = <<>> /\ content = <<>> /\ file = <<>> /\ pc = "rotation"
  BY DEF Init
<1>3. TypeOK
  BY <1>1, <1>2 DEF Init, TypeOK
<1>4. DOMAIN tokens = {}
  BY <1>2
<1> QED
  BY <1>2, <1>3, <1>4 DEF RewriteInv

\* A payout that ends leaves nothing of its local variables.
LEMMA ReturnRewrites ==
    ASSUME TypeOK, Return, up' \in BOOLEAN, faults' \in Nat, cut' \in BOOLEAN,
           swapped' = swapped, spent' \in SUBSET swapped, tx' = spent', file' = file
    PROVE  RewriteInv'
<1>1. <<>> \in Seq(Tokens) /\ DOMAIN <<>> = {}
  OBVIOUS
<1>2. tokens' = <<>> /\ content' = <<>> /\ pc' = "rotation"
  BY DEF Return
<1> QED
  BY <1>1, <1>2 DEF RewriteInv, TypeOK

LEMMA RewriteNext == RewriteInv /\ [Next]_vars => RewriteInv'
<1> SUFFICES ASSUME RewriteInv, [Next]_vars PROVE RewriteInv'
  OBVIOUS
<1>0. TypeOK
  BY DEF RewriteInv
<1>1. \A kind : Fault(kind) => faults' \in Nat
  BY <1>0 DEF Fault, TypeOK
<1>2. ASSUME NEW new \in SUBSET Proofs, Rotation(new)
      PROVE  RewriteInv'
  BY <1>2 DEF Rotation, RewriteInv, TypeOK
<1>10. CASE BeginTransaction
  BY <1>10 DEF BeginTransaction, RewriteInv, TypeOK
<1>3. CASE GetUnspentProofsToTokens
  <2>1. PICK ms \in SUBSET Mints :
           /\ tokens' \in TokensOf(ms)
           /\ pc' \in {"open", "commit", "rollback"}
           /\ pc' = "open" => ms # {}
    BY <1>3 DEF GetUnspentProofsToTokens
  <2>2. faults' \in Nat /\ UNCHANGED <<up, swapped, spent, tx, content, file, cut>>
    BY <1>0, <1>1, <1>3 DEF GetUnspentProofsToTokens, TypeOK
  <2>3. /\ tokens' \in Seq(Tokens)
        /\ \A i \in DOMAIN tokens' : tokens'[i] \subseteq swapped
        /\ ms # {} => tokens' # <<>>
    BY <1>0, <2>1, TokensOfType
  <2> QED
    BY <2>1, <2>2, <2>3 DEF RewriteInv, TypeOK
<1>4. CASE OpenTokenFile
  <2>1. CASE content' = file \o tokens /\ file' = <<>> /\ pc' = "writing" /\ UNCHANGED faults
    <3>1. content' \in Seq(Tokens) /\ file' \in Seq(Tokens)
      BY <1>0, <2>1 DEF TypeOK
    <3>2. Len(tokens) > 0
      BY <1>0, <1>4 DEF RewriteInv, TypeOK, OpenTokenFile
    <3>3. Len(content') > 0 /\ Len(file') = 0
      BY <1>0, <2>1, <3>2 DEF TypeOK
    <3> QED
      BY <1>4, <2>1, <3>1, <3>3 DEF OpenTokenFile, RewriteInv, TypeOK
  <2>2. CASE Fault("disk") /\ pc' = "mark" /\ UNCHANGED <<content, file>>
    BY <1>1, <1>4, <2>2 DEF OpenTokenFile, RewriteInv, TypeOK
  <2> QED
    BY <1>4, <2>1, <2>2 DEF OpenTokenFile
<1>5. CASE WriteToken
  <2>0. UNCHANGED <<up, swapped, spent, tx, tokens, content, cut>>
    BY <1>5 DEF WriteToken
  <2>1. CASE /\ file' = Append(file, content[Len(file) + 1])
             /\ pc' = IF file' = content THEN "mark" ELSE "writing"
             /\ UNCHANGED faults
    <3>1. /\ file \in Seq(Tokens) /\ content \in Seq(Tokens) /\ pc = "writing"
          /\ Len(file) < Len(content)
          /\ \A i \in 1 .. Len(file) : file[i] = content[i]
      BY <1>0, <1>5 DEF WriteToken, RewriteInv, TypeOK
    <3>2. content[Len(file) + 1] \in Tokens
      BY <3>1
    <3>3. file' \in Seq(Tokens) /\ Len(file') = Len(file) + 1
      BY <2>1, <3>1, <3>2
    <3>4. \A i \in 1 .. Len(file') : file'[i] = content[i]
      BY <2>1, <3>1, <3>2, <3>3
    <3>5. Len(file') = Len(content) => file' = content
      BY <3>1, <3>3, <3>4
    <3>6. pc' = "writing" => Len(file') < Len(content)
      BY <2>1, <3>1, <3>3, <3>5
    <3> QED
      BY <2>0, <2>1, <3>3, <3>4, <3>6 DEF RewriteInv, TypeOK
  <2>2. CASE Fault("disk") /\ pc' = "mark" /\ UNCHANGED file
    BY <1>1, <2>0, <2>2 DEF RewriteInv, TypeOK
  <2> QED
    BY <1>5, <2>1, <2>2 DEF WriteToken
<1>6. CASE ChangeSwappedProofsSpent
  <2>1. \A p : Contains(tokens, p) => p \in swapped
    BY DEF RewriteInv, Contains
  <2>2. tx' \in SUBSET swapped /\ faults' \in Nat /\ pc' \in {"commit", "rollback"}
    BY <1>0, <1>1, <1>6, <2>1 DEF ChangeSwappedProofsSpent, TypeOK
  <2> QED
    BY <1>6, <2>2 DEF ChangeSwappedProofsSpent, RewriteInv, TypeOK
<1>7. CASE Commit \/ Rollback
  <2>1. spent' \in SUBSET swapped /\ faults' \in Nat /\ tx' = spent'
    BY <1>0, <1>1, <1>7 DEF Commit, Rollback, TypeOK
  <2>2. UNCHANGED <<up, swapped, file, cut>>
    BY <1>7 DEF Commit, Rollback
  <2> QED
    BY <1>0, <1>7, <2>1, <2>2, ReturnRewrites DEF Commit, Rollback, TypeOK
<1>8. CASE Crash
  <2>1. cut' \in BOOLEAN /\ up' \in BOOLEAN
    BY <1>8, Zenon DEF Crash
  <2>2. faults' \in Nat
    BY <1>1, <1>8 DEF Crash
  <2>3. Return /\ tx' = spent' /\ UNCHANGED <<swapped, spent, file>>
    BY <1>8 DEF Crash
  <2> QED
    BY <1>0, <2>1, <2>2, <2>3, ReturnRewrites DEF TypeOK
<1>9. CASE Restart \/ UNCHANGED vars
  BY <1>9 DEF Restart, vars, RewriteInv, TypeOK
<1> QED
  BY <1>2, <1>3, <1>4, <1>5, <1>6, <1>7, <1>8, <1>9, <1>10 DEF Next, SpendSwappedProofs

\* The type invariant: rows are marked spent only if they exist, and the rewrite of
\* the file never runs past its content.
THEOREM TypeCorrect == Spec => []TypeOK
<1>1. RewriteInv => TypeOK
  BY DEF RewriteInv
<1> QED
  BY <1>1, RewriteInit, RewriteNext, PTL DEF Spec

-----------------------------------------------------------------------------
(* Nothing is lost between the file and the database *)

LEMMA WrittenInit == Init => WrittenInv
BY DEF Init, WrittenInv

LEMMA WrittenNext ==
    ASSUME "disk" \notin Faults, RewriteInv, WrittenInv, [Next]_vars
    PROVE  WrittenInv'
<1>1. /\ file \in Seq(Tokens)
      /\ tokens \in Seq(Tokens)
      /\ pc \in {"rotation", "begin", "tokens", "open", "writing", "mark", "commit",
                 "rollback"}
  BY DEF RewriteInv, TypeOK
<1>2. ~Fault("disk")
  BY DEF Fault
<1>3. ASSUME NEW new \in SUBSET Proofs, Rotation(new)
      PROVE  WrittenInv'
  BY <1>3 DEF Rotation, WrittenInv
<1>11. CASE BeginTransaction
  BY <1>11 DEF BeginTransaction, WrittenInv
<1>4. CASE GetUnspentProofsToTokens
  <2>1. pc = "tokens" /\ pc' \in {"open", "commit", "rollback"}
    BY <1>4 DEF GetUnspentProofsToTokens
  <2>2. UNCHANGED <<spent, tx, content, file, cut>>
    BY <1>4 DEF GetUnspentProofsToTokens
  <2> QED
    BY <2>1, <2>2 DEF WrittenInv
<1>5. CASE OpenTokenFile
  <2>1. /\ pc = "open" /\ pc' = "writing"
        /\ content' = file \o tokens
        /\ UNCHANGED <<spent, tx, tokens, cut>>
    BY <1>2, <1>5 DEF OpenTokenFile
  <2>2. \A p : Contains(file, p) \/ Contains(tokens, p) => Contains(content', p)
    BY <1>1, <2>1, ContainsConcatenation
  <2>3. tx' = spent'
    BY <2>1 DEF WrittenInv
  <2>4. ~cut => \A p \in spent : Contains(content', p)
    BY <2>1, <2>2 DEF WrittenInv
  <2> QED
    BY <2>1, <2>2, <2>3, <2>4 DEF WrittenInv
<1>6. CASE WriteToken
  <2>1. /\ pc = "writing" /\ pc' \in {"writing", "mark"}
        /\ pc' = "mark" => file' = content
        /\ UNCHANGED <<spent, tx, tokens, content, cut>>
    BY <1>2, <1>6 DEF WriteToken
  <2> QED
    BY <2>1 DEF WrittenInv
<1>7. CASE ChangeSwappedProofsSpent
  <2>1. pc = "mark" /\ UNCHANGED <<spent, file, cut>>
    BY <1>7 DEF ChangeSwappedProofsSpent
  <2>2. pc' = "rollback" \/ (pc' = "commit" /\ tx' = tx \cup {p \in Proofs : Contains(tokens, p)})
    BY <1>7 DEF ChangeSwappedProofsSpent
  <2> QED
    BY <2>1, <2>2 DEF WrittenInv
<1>8. CASE Commit \/ Rollback
  <2>1. pc \in {"commit", "rollback"} /\ pc' = "rotation" /\ UNCHANGED <<file, cut>>
    BY <1>8 DEF Commit, Rollback, Return
  <2>2. spent' = spent \/ (pc = "commit" /\ spent' = tx)
    BY <1>8 DEF Commit, Rollback
  <2> QED
    BY <2>1, <2>2 DEF WrittenInv
<1>9. CASE Crash
  <2>1. pc' = "rotation" /\ UNCHANGED <<spent, file>>
    BY <1>9 DEF Crash, Return
  <2>2. ~cut' => ~cut /\ pc # "writing"
    BY <1>9, Zenon DEF Crash
  <2> QED
    BY <2>1, <2>2 DEF WrittenInv
<1>10. CASE Restart \/ UNCHANGED vars
  BY <1>10 DEF Restart, vars, WrittenInv
<1> QED
  BY <1>3, <1>4, <1>5, <1>6, <1>7, <1>8, <1>9, <1>10, <1>11
   DEF Next, SpendSwappedProofs

\* The property SpentIsWritten: while the disk works, what the database calls spent
\* is in the file, unless the process died while it rewrote the file.
THEOREM SpentAreWritten == ASSUME "disk" \notin Faults PROVE Spec => []SpentIsWritten
<1>1. RewriteInv /\ WrittenInv /\ [Next]_vars => WrittenInv'
  BY WrittenNext
<1>2. WrittenInv => SpentIsWritten
  BY DEF WrittenInv, SpentIsWritten
<1> QED
  BY <1>1, <1>2, RewriteInit, RewriteNext, WrittenInit, PTL DEF Spec

-----------------------------------------------------------------------------
(* Nothing is written twice without a fault *)

LEMMA LinesAreFinite ==
    ASSUME NEW s \in Seq(Tokens), NEW p
    PROVE  IsFiniteSet(LinesOf(s, p)) /\ Cardinality(LinesOf(s, p)) \in Nat
<1>1. IsFiniteSet(1 .. Len(s))
  BY FS_Interval
<1>2. LinesOf(s, p) \subseteq 1 .. Len(s)
  BY DEF LinesOf
<1>3. IsFiniteSet(LinesOf(s, p))
  BY <1>1, <1>2, FS_Subset
<1> QED
  BY <1>3, FS_CardinalityType

\* A prefix has no more lines.
LEMMA PrefixLines ==
    ASSUME NEW s \in Seq(Tokens), NEW t \in Seq(Tokens), NEW p, Len(s) <= Len(t),
           \A i \in 1 .. Len(s) : s[i] = t[i]
    PROVE  Cardinality(LinesOf(s, p)) <= Cardinality(LinesOf(t, p))
<1>1. LinesOf(s, p) \subseteq LinesOf(t, p)
  BY DEF LinesOf
<1> QED
  BY <1>1, LinesAreFinite, FS_Subset

\* Tokens that share no proof add at most a line for each.
LEMMA LinesOfConcatenation ==
    ASSUME NEW s \in Seq(Tokens), NEW t \in Seq(Tokens), NEW p,
           \A i, j \in DOMAIN t : i # j => t[i] \cap t[j] = {}
    PROVE  Cardinality(LinesOf(s \o t, p))
              <= Cardinality(LinesOf(s, p)) + (IF Contains(t, p) THEN 1 ELSE 0)
<1>1. \A i \in DOMAIN (s \o t) :
         IF i <= Len(s) THEN i \in DOMAIN s /\ (s \o t)[i] = s[i]
                        ELSE i - Len(s) \in DOMAIN t /\ (s \o t)[i] = t[i - Len(s)]
  OBVIOUS
<1>2. \A i \in DOMAIN s : i \in DOMAIN (s \o t) /\ (s \o t)[i] = s[i]
  OBVIOUS
<1>3. CASE ~Contains(t, p)
  <2>1. LinesOf(s \o t, p) = LinesOf(s, p)
    BY <1>1, <1>2, <1>3 DEF LinesOf, Contains
  <2> QED
    BY <1>3, <2>1, LinesAreFinite
<1>4. CASE Contains(t, p)
  <2>1. PICK k \in DOMAIN t : p \in t[k]
    BY <1>4 DEF Contains
  <2>2. \A i \in DOMAIN t : p \in t[i] => i = k
    BY <2>1
  <2>3. LinesOf(s \o t, p) \subseteq LinesOf(s, p) \cup {Len(s) + k}
    <3> SUFFICES ASSUME NEW i \in DOMAIN (s \o t), p \in (s \o t)[i]
                 PROVE  (i \in DOMAIN s /\ p \in s[i]) \/ i = Len(s) + k
      BY DEF LinesOf
    <3>1. CASE i <= Len(s)
      BY <1>1, <3>1
    <3>2. CASE ~(i <= Len(s))
      <4>1. i - Len(s) = k
        BY <1>1, <2>2, <3>2
      <4>2. i \in Int /\ Len(s) \in Int
        OBVIOUS
      <4> QED
        BY <4>1, <4>2
    <3> QED
      BY <3>1, <3>2
  <2>4. /\ IsFiniteSet(LinesOf(s, p) \cup {Len(s) + k})
        /\ Cardinality(LinesOf(s, p) \cup {Len(s) + k}) <= Cardinality(LinesOf(s, p)) + 1
    <3>1. IsFiniteSet(LinesOf(s, p)) /\ Cardinality(LinesOf(s, p)) \in Nat
      BY LinesAreFinite
    <3> DEFINE S == LinesOf(s, p)
               x == Len(s) + k
    <3>2. /\ IsFiniteSet(S \cup {x})
          /\ Cardinality(S \cup {x}) = IF x \in S THEN Cardinality(S) ELSE Cardinality(S) + 1
      <4> HIDE DEF S, x
      <4>1. IsFiniteSet(S)
        BY <3>1 DEF S
      <4> QED
        BY <4>1, FS_AddElement
    <3> QED
      BY <3>1, <3>2
  <2>5. Cardinality(LinesOf(s \o t, p)) <= Cardinality(LinesOf(s, p) \cup {Len(s) + k})
    BY <2>3, <2>4, FS_Subset
  <2>6. /\ Cardinality(LinesOf(s \o t, p)) \in Nat /\ Cardinality(LinesOf(s, p)) \in Nat
        /\ Cardinality(LinesOf(s, p) \cup {Len(s) + k}) \in Nat
    <3>1. s \o t \in Seq(Tokens)
      OBVIOUS
    <3> QED
      BY <2>4, <3>1, LinesAreFinite, FS_CardinalityType
  <2> QED
    BY <1>4, <2>4, <2>5, <2>6
<1> QED
  BY <1>3, <1>4

\* The tokens of a payout are of unspent rows, each row in one token.
LEMMA TokensAreApart ==
    ASSUME NEW ms \in SUBSET Mints, NEW t \in TokensOf(ms)
    PROVE  \A i, j \in DOMAIN t :
              /\ t[i] \cap tx = {}
              /\ i # j => t[i] \cap t[j] = {}
<1> SUFFICES ASSUME NEW i \in DOMAIN t, NEW j \in DOMAIN t
             PROVE  t[i] \cap tx = {} /\ (i # j => t[i] \cap t[j] = {})
  OBVIOUS
<1>1. t \in [1 .. Cardinality(ms) -> {GetBySpentProofs(m) : m \in ms}] /\ IsInjective(t)
  BY DEF TokensOf
<1>2. PICK m \in ms : t[i] = GetBySpentProofs(m)
  BY <1>1
<1>3. PICK n \in ms : t[j] = GetBySpentProofs(n)
  BY <1>1
<1>4. i # j => t[i] # t[j]
  BY <1>1 DEF IsInjective
<1> QED
  BY <1>2, <1>3, <1>4 DEF GetBySpentProofs

LEMMA OnceInit == Init => OnceInv
<1> SUFFICES ASSUME Init PROVE OnceInv
  OBVIOUS
<1>1. \A p : LinesOf(<<>>, p) = {}
  BY DEF LinesOf
<1> QED
  BY <1>1, FS_EmptySet DEF Init, OnceInv, Booked

\* The bound on the lines of the sequence that is, or becomes, the file.
Bounded(s, f, booked) ==
    \A p \in Proofs : Cardinality(LinesOf(s, p)) <= f + (IF p \in booked THEN 1 ELSE 0)

\* After a fault the bound holds whatever is booked.
LEMMA FaultPays ==
    ASSUME NEW s \in Seq(Tokens), NEW f \in Nat, NEW A, NEW B, Bounded(s, f, A)
    PROVE  Bounded(s, f + 1, B)
<1>1. \A p : Cardinality(LinesOf(s, p)) \in Nat
  BY LinesAreFinite
<1> QED
  BY <1>1 DEF Bounded

LEMMA OnceNext == RewriteInv /\ RewriteInv' /\ OnceInv /\ [Next]_vars => OnceInv'
<1> SUFFICES ASSUME RewriteInv, RewriteInv', OnceInv, [Next]_vars PROVE OnceInv'
  OBVIOUS
<1> DEFINE Lines == IF pc = "writing" THEN content ELSE file
<1>1. /\ file \in Seq(Tokens) /\ content \in Seq(Tokens) /\ tokens \in Seq(Tokens)
      /\ faults \in Nat
      /\ pc \in {"rotation", "begin", "tokens", "open", "writing", "mark", "commit",
                 "rollback"}
      /\ file' \in Seq(Tokens)
  BY DEF RewriteInv, TypeOK
<1>2. Lines \in Seq(Tokens) /\ Bounded(Lines, faults, Booked)
  BY <1>1 DEF OnceInv, Bounded
<1>3. \A kind : Fault(kind) =>
         /\ faults' = faults + 1
         /\ Bounded(Lines, faults', Booked')
  BY <1>1, <1>2, FaultPays DEF Fault
<1>4. ASSUME Bounded(IF pc' = "writing" THEN content' ELSE file', faults', Booked'),
             pc' \in {"tokens", "open", "writing", "mark"} => tx' = spent',
             pc' # "open"
      PROVE  OnceInv'
  BY <1>4 DEF OnceInv, Bounded
<1>5. ASSUME NEW new \in SUBSET Proofs, Rotation(new)
      PROVE  OnceInv'
  <2>1. /\ pc = "rotation" /\ pc' = "begin"
        /\ UNCHANGED <<faults, spent, tx, tokens, content, file>>
    BY <1>5 DEF Rotation
  <2>2. Booked' = Booked
    BY <2>1 DEF Booked
  <2> QED
    BY <1>2, <1>4, <2>1, <2>2
<1>6. CASE BeginTransaction
  <2>1. /\ pc = "begin" /\ pc' = "tokens" /\ tx' = spent
        /\ UNCHANGED <<faults, spent, tokens, content, file>>
    BY <1>6 DEF BeginTransaction
  <2>2. Booked' = Booked
    BY <2>1 DEF Booked
  <2> QED
    BY <1>2, <1>4, <2>1, <2>2
<1>7. CASE GetUnspentProofsToTokens
  <2>1. PICK ms \in SUBSET Mints : tokens' \in TokensOf(ms)
    BY <1>7 DEF GetUnspentProofsToTokens
  <2>2. /\ pc = "tokens" /\ pc' \in {"open", "commit", "rollback"}
        /\ UNCHANGED <<spent, tx, content, file>>
        /\ faults' = faults \/ Fault("statement")
    BY <1>7 DEF GetUnspentProofsToTokens
  <2>3. tx = spent
    BY <2>2 DEF OnceInv
  <2>4. Booked' = Booked
    BY <2>2, <2>3 DEF Booked
  <2>5. Bounded(file', faults', Booked')
    BY <1>2, <1>3, <2>2, <2>4
  <2>6. \A i, j \in DOMAIN tokens' :
           /\ tokens'[i] \cap tx = {}
           /\ i # j => tokens'[i] \cap tokens'[j] = {}
    BY <2>1, TokensAreApart
  <2> QED
    BY <2>2, <2>3, <2>5, <2>6 DEF OnceInv, Bounded
<1>8. CASE OpenTokenFile
  <2>1. pc = "open" /\ UNCHANGED <<spent, tx, tokens>>
    BY <1>8 DEF OpenTokenFile
  <2>2. tx = spent /\ Booked = spent /\ Lines = file
    BY <2>1 DEF OnceInv, Booked
  <2>3. CASE content' = file \o tokens /\ pc' = "writing" /\ faults' = faults
    <3>1. \A p : Contains(tokens, p) => p \notin spent
      BY <2>1 DEF OnceInv, Contains
    <3>2. Booked' = spent \cup {p \in Proofs : Contains(tokens, p)}
      BY <2>1, <2>3 DEF Booked
    <3>3. ASSUME NEW p \in Proofs
          PROVE  Cardinality(LinesOf(content', p)) <= faults + (IF p \in Booked' THEN 1 ELSE 0)
      <4>1. Cardinality(LinesOf(content', p))
               <= Cardinality(LinesOf(file, p)) + (IF Contains(tokens, p) THEN 1 ELSE 0)
        BY <1>1, <2>1, <2>3, LinesOfConcatenation DEF OnceInv
      <4>2. Cardinality(LinesOf(file, p)) <= faults + (IF p \in spent THEN 1 ELSE 0)
        BY <1>2, <2>2 DEF Bounded
      <4>3. Cardinality(LinesOf(file, p)) \in Nat /\ Cardinality(LinesOf(content', p)) \in Nat
        <5>1. content' \in Seq(Tokens)
          BY <1>1, <2>3
        <5> QED
          BY <1>1, <5>1, LinesAreFinite
      <4> QED
        BY <1>1, <3>1, <3>2, <4>1, <4>2, <4>3
    <3> QED
      BY <1>4, <2>1, <2>2, <2>3, <3>3 DEF Bounded
  <2>4. CASE Fault("disk") /\ pc' = "mark" /\ file' = file
    BY <1>3, <1>4, <2>1, <2>2, <2>4
  <2> QED
    BY <1>8, <2>3, <2>4 DEF OpenTokenFile
<1>9. CASE WriteToken
  <2>1. pc = "writing" /\ UNCHANGED <<spent, tx, tokens, content>>
    BY <1>9 DEF WriteToken
  <2>2. pc' \in {"writing", "mark"}
    BY <1>9 DEF WriteToken
  <2>3. Booked' = Booked /\ tx = spent /\ Lines = content
    BY <2>1, <2>2 DEF Booked, OnceInv
  <2>4. CASE faults' = faults /\ (pc' = "mark" => file' = content)
    BY <1>2, <1>4, <2>1, <2>2, <2>3, <2>4
  <2>5. CASE Fault("disk") /\ pc' = "mark" /\ file' = file
    <3>1. \A p : Cardinality(LinesOf(file, p)) <= Cardinality(LinesOf(content, p))
      BY <1>1, <2>1, PrefixLines DEF RewriteInv
    <3>2. Bounded(content, faults', Booked')
      BY <1>3, <2>3, <2>5
    <3>3. \A p : /\ Cardinality(LinesOf(file, p)) \in Nat
                 /\ Cardinality(LinesOf(content, p)) \in Nat
      BY <1>1, LinesAreFinite
    <3>4. faults' \in Nat
      BY <1>1, <1>3, <2>5
    <3>5. Bounded(file', faults', Booked')
      BY <2>5, <3>1, <3>2, <3>3, <3>4 DEF Bounded
    <3> QED
      BY <1>4, <2>1, <2>3, <2>5, <3>5
  <2> QED
    BY <1>9, <2>4, <2>5 DEF WriteToken
<1>10. CASE ChangeSwappedProofsSpent
  <2>1. pc = "mark" /\ UNCHANGED <<spent, tokens, file>>
    BY <1>10 DEF ChangeSwappedProofsSpent
  <2>2. tx = spent /\ Lines = file
    BY <2>1 DEF OnceInv
  <2>3. CASE /\ tx' = tx \cup {p \in Proofs : Contains(tokens, p)}
             /\ pc' = "commit" /\ faults' = faults
    <3>1. Booked' = Booked
      BY <2>1, <2>2, <2>3 DEF Booked
    <3> QED
      BY <1>2, <1>4, <2>1, <2>2, <2>3, <3>1
  <2>4. CASE Fault("statement") /\ pc' = "rollback"
    BY <1>3, <1>4, <2>1, <2>2, <2>4
  <2> QED
    BY <1>10, <2>3, <2>4 DEF ChangeSwappedProofsSpent
<1>11. CASE Commit \/ Rollback
  <2>1. pc \in {"commit", "rollback"} /\ pc' = "rotation" /\ file' = file
    BY <1>11 DEF Commit, Rollback, Return
  <2>2. Lines = file
    BY <2>1
  <2>3. CASE spent' = Booked /\ faults' = faults
    <3>1. Booked' = Booked
      BY <2>1, <2>3 DEF Booked
    <3> QED
      BY <1>2, <1>4, <2>1, <2>2, <2>3, <3>1
  <2>4. CASE Fault("commit")
    BY <1>3, <1>4, <2>1, <2>2, <2>4
  <2>5. (spent' = Booked /\ faults' = faults) \/ Fault("commit")
    BY <1>11 DEF Commit, Rollback, Booked
  <2> QED
    BY <2>3, <2>4, <2>5
<1>12. CASE Crash
  <2>1. Fault("crash") /\ pc' = "rotation" /\ file' = file
    BY <1>12 DEF Crash, Return
  <2>2. CASE pc # "writing"
    BY <1>3, <1>4, <2>1, <2>2
  <2>3. CASE pc = "writing"
    <3>1. \A p : Cardinality(LinesOf(file, p)) <= Cardinality(LinesOf(content, p))
      BY <1>1, <2>3, PrefixLines DEF RewriteInv
    <3>2. Bounded(content, faults', Booked')
      BY <1>3, <2>1, <2>3
    <3>3. \A p : /\ Cardinality(LinesOf(file, p)) \in Nat
                 /\ Cardinality(LinesOf(content, p)) \in Nat
      BY <1>1, LinesAreFinite
    <3>4. faults' \in Nat
      BY <1>1, <1>3, <2>1
    <3>5. Bounded(file', faults', Booked')
      BY <2>1, <3>1, <3>2, <3>3, <3>4 DEF Bounded
    <3> QED
      BY <1>4, <2>1, <3>5
  <2> QED
    BY <2>2, <2>3
<1>13. CASE Restart \/ UNCHANGED vars
  BY <1>13 DEF Restart, vars, OnceInv, Booked
<1> QED
  BY <1>5, <1>6, <1>7, <1>8, <1>9, <1>10, <1>11, <1>12, <1>13 DEF Next, SpendSwappedProofs

\* The property WrittenOncePerFault: every line of a proof in tokens.txt after the
\* first costs a fault, be it of the disk, of a statement, a commit or the process.
THEOREM WrittenOnce == Spec => []WrittenOncePerFault
<1>1. RewriteInv /\ OnceInv => WrittenOncePerFault
  <2> SUFFICES ASSUME RewriteInv, OnceInv, NEW p \in Proofs
               PROVE  Cardinality(LinesOf(file, p)) <= faults + 1
    BY DEF WrittenOncePerFault
  <2>1. /\ file \in Seq(Tokens) /\ content \in Seq(Tokens) /\ faults \in Nat
    BY DEF RewriteInv, TypeOK
  <2>2. /\ Cardinality(LinesOf(file, p)) \in Nat
        /\ Cardinality(LinesOf(content, p)) \in Nat
    BY <2>1, LinesAreFinite
  <2>3. CASE pc = "writing"
    <3>1. Cardinality(LinesOf(file, p)) <= Cardinality(LinesOf(content, p))
      BY <2>1, <2>3, PrefixLines DEF RewriteInv
    <3> QED
      BY <2>1, <2>2, <2>3, <3>1 DEF OnceInv
  <2>4. CASE pc # "writing"
    BY <2>1, <2>2, <2>4 DEF OnceInv
  <2> QED
    BY <2>3, <2>4
<1> QED
  BY <1>1, RewriteInit, RewriteNext, OnceInit, OnceNext, PTL DEF Spec

=============================================================================
