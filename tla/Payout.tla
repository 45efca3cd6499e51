------------------------------- MODULE Payout -------------------------------
(***************************************************************************)
(* The payout: after every attempt of a rotation SpendSwappedProofs turns  *)
(* the unspent rows of swapped_proofs into tokens, one a mint, rewrites    *)
(* tokens.txt with the tokens at its end, and marks the rows spent.  The   *)
(* file and the database are two stores that no transaction spans.         *)
(*                                                                         *)
(* A token is the set of its proofs, the file is the sequence of the       *)
(* tokens in it.  The rotation before the payout is module Ecash.          *)
(***************************************************************************)
EXTENDS Integers, Sequences, FiniteSets, Functions

CONSTANTS
    Proofs,    \* proofs the mints sign in swaps
    Mints,
    MintOf,    \* the mint of a proof
    MaxFaults, \* bound: faults of a behaviour
    Faults     \* the kinds of fault considered

ASSUME PayoutAssumption ==
    /\ IsFiniteSet(Mints)
    /\ MintOf \in [Proofs -> Mints]
    /\ MaxFaults \in Nat
    /\ Faults \subseteq {"crash", "disk", "statement", "commit"}

VARIABLES
    up,      \* the process is running
    faults,  \* faults so far
    pc,      \* where the rotator is
    swapped, \* the rows of swapped_proofs
    spent,   \* those whose spent column is true
    tx,      \* that column as the open transaction sees it
    tokens,  \* the tokens of this payout
    content, \* what the file is being rewritten with
    file,    \* tokens.txt
    cut      \* history: the process died while it rewrote the file

vars == <<up, faults, pc, swapped, spent, tx, tokens, content, file, cut>>

Init ==
    /\ up = FALSE
    /\ faults = 0
    /\ pc = "rotation"
    /\ swapped = {}
    /\ spent = {}
    /\ tx = {}
    /\ tokens = <<>>
    /\ content = <<>>
    /\ file = <<>>
    /\ cut = FALSE

\* Proof p is in one of the tokens s.
Contains(s, p) == \E i \in DOMAIN s : p \in s[i]

Fault(kind) ==
    /\ kind \in Faults
    /\ faults < MaxFaults
    /\ faults' = faults + 1

\* Mutant: the new rows replace those of earlier rotations.
RotationReplaces(new) ==
    /\ up
    /\ pc = "rotation"
    /\ new \cap swapped = {}
    /\ swapped' = new
    /\ pc' = "begin"
    /\ UNCHANGED <<up, faults, spent, tx, tokens, content, file, cut>>

\* An attempt of a rotation ends and may have stored proofs.
Rotation(new) ==
    /\ up
    /\ pc = "rotation"
    /\ new \cap swapped = {}
    /\ swapped' = swapped \cup new
    /\ pc' = "begin"
    /\ UNCHANGED <<up, faults, spent, tx, tokens, content, file, cut>>

BeginTransaction ==
    /\ pc = "begin"
    /\ tx' = spent
    /\ pc' = "tokens"
    /\ UNCHANGED <<up, faults, swapped, spent, tokens, content, file, cut>>

\* Mutant: the column is compared the wrong way round.
GetSpentProofs(m) == {p \in tx : MintOf[p] = m}

\* The unspent rows of a mint: an entry of the map the query returns.
GetBySpentProofs(m) == {p \in swapped \ tx : MintOf[p] = m}

\* The tokens of the given mints, in the order in which a map happens to be
\* iterated over.
TokensOf(ms) ==
    {t \in [1 .. Cardinality(ms) -> {GetBySpentProofs(m) : m \in ms}] : IsInjective(t)}

\* When the query or a token fails, the tokens made so far are returned with the
\* error; if there are any, the error is overwritten later.
GetUnspentProofsToTokens ==
    LET mints == {m \in Mints : GetBySpentProofs(m) # {}} IN
    /\ pc = "tokens"
    /\ \/ /\ tokens' \in TokensOf(mints)
          /\ pc' = IF mints = {} THEN "commit" ELSE "open"
          /\ UNCHANGED faults
       \/ /\ Fault("statement")
          /\ \E ms \in SUBSET mints \ {mints} :
               /\ tokens' \in TokensOf(ms)
               /\ pc' = IF ms = {} THEN "rollback" ELSE "open"
    /\ UNCHANGED <<up, swapped, spent, tx, content, file, cut>>

-----------------------------------------------------------------------------
(* WriteTokenToLocalFile: its error is logged, then overwritten by that of the *)
(* statement that marks the proofs                                             *)

\* Mutant: the file is not read before it is rewritten.
OverwriteTokenFile ==
    /\ pc = "open"
    /\ \/ /\ content' = tokens
          /\ file' = <<>>
          /\ pc' = "writing"
          /\ UNCHANGED faults
       \/ /\ Fault("disk")
          /\ pc' = "mark"
          /\ UNCHANGED <<content, file>>
    /\ UNCHANGED <<up, swapped, spent, tx, tokens, cut>>

\* The file is read, then truncated by os.WriteFile.
OpenTokenFile ==
    /\ pc = "open"
    /\ \/ /\ content' = file \o tokens
          /\ file' = <<>>
          /\ pc' = "writing"
          /\ UNCHANGED faults
       \/ /\ Fault("disk")
          /\ pc' = "mark"
          /\ UNCHANGED <<content, file>>
    /\ UNCHANGED <<up, swapped, spent, tx, tokens, cut>>

\* The content reaches the file bit by bit.
WriteToken ==
    /\ pc = "writing"
    /\ \/ /\ file' = Append(file, content[Len(file) + 1])
          /\ pc' = IF file' = content THEN "mark" ELSE "writing"
          /\ UNCHANGED faults
       \/ /\ Fault("disk")
          /\ pc' = "mark"
          /\ UNCHANGED file
    /\ UNCHANGED <<up, swapped, spent, tx, tokens, content, cut>>

-----------------------------------------------------------------------------
(* The end of the transaction *)

\* Mutant: the flag is written as it was.
ChangeNothing ==
    /\ pc = "mark"
    /\ pc' = "commit"
    /\ UNCHANGED <<up, faults, swapped, spent, tx, tokens, content, file, cut>>

ChangeSwappedProofsSpent ==
    /\ pc = "mark"
    /\ \/ /\ tx' = tx \cup {p \in Proofs : Contains(tokens, p)}
          /\ pc' = "commit"
          /\ UNCHANGED faults
       \/ /\ Fault("statement")
          /\ pc' = "rollback"
          /\ UNCHANGED tx
    /\ UNCHANGED <<up, swapped, spent, tokens, content, file, cut>>

Return == pc' = "rotation" /\ tokens' = <<>> /\ content' = <<>>

\* A commit that fails is only logged.
Commit ==
    /\ pc = "commit"
    /\ \/ spent' = tx /\ UNCHANGED faults
       \/ Fault("commit") /\ UNCHANGED spent
    /\ tx' = spent'
    /\ Return
    /\ UNCHANGED <<up, swapped, file, cut>>

Rollback ==
    /\ pc = "rollback"
    /\ tx' = spent
    /\ Return
    /\ UNCHANGED <<up, faults, swapped, spent, file, cut>>

Crash ==
    /\ up
    /\ Fault("crash")
    /\ up' = FALSE
    /\ tx' = spent
    /\ Return
    /\ cut' = (cut \/ pc = "writing")
    /\ UNCHANGED <<swapped, spent, file>>

Restart ==
    /\ ~up
    /\ up' = TRUE
    /\ UNCHANGED <<faults, pc, swapped, spent, tx, tokens, content, file, cut>>

-----------------------------------------------------------------------------
(* Specification *)

SpendSwappedProofs ==
    \/ BeginTransaction
    \/ GetUnspentProofsToTokens
    \/ OpenTokenFile
    \/ WriteToken
    \/ ChangeSwappedProofsSpent
    \/ Commit
    \/ Rollback

Next ==
    \/ \E new \in SUBSET Proofs : Rotation(new)
    \/ SpendSwappedProofs
    \/ Crash
    \/ Restart

Spec == Init /\ [][Next]_vars

\* The rotator's goroutine runs, keys expire again and again, and the process is
\* restarted.
Fairness ==
    /\ WF_vars(\E new \in SUBSET Proofs : Rotation(new))
    /\ WF_vars(SpendSwappedProofs)
    /\ WF_vars(Restart)

FairSpec == Spec /\ Fairness

-----------------------------------------------------------------------------
(* Properties *)

Tokens == SUBSET Proofs

\* The type invariant.
TypeOK ==
    /\ up \in BOOLEAN
    /\ faults \in Nat
    /\ pc \in {"rotation", "begin", "tokens", "open", "writing", "mark", "commit", "rollback"}
    /\ swapped \in SUBSET Proofs
    /\ spent \in SUBSET swapped
    /\ tx \in SUBSET swapped
    /\ tokens \in Seq(Tokens)
    /\ content \in Seq(Tokens)
    /\ file \in Seq(Tokens)
    /\ cut \in BOOLEAN

\* Where proof p is in the tokens s.
LinesOf(s, p) == {i \in DOMAIN s : p \in s[i]}

\* No ecash is lost between the two stores while the disk works: what the database
\* calls spent is in the file, or in the content it is being rewritten with.  Only
\* a process that dies during that rewrite can lose it (crons.go:153-170, 209).
SpentIsWritten ==
    ~cut => \A p \in spent :
        Contains(IF pc = "writing" THEN content ELSE file, p)

\* A proof is written again only for a fault: without one the file holds it once.
WrittenOncePerFault ==
    \A p \in Proofs : Cardinality(LinesOf(file, p)) <= faults + 1

\* Every swapped proof is paid out in the end, through failed commits and crashes.
PaidOut == \A p \in Proofs : p \in swapped ~> p \in spent

(* What the code does not do *)

\* "Ensure that the transaction is rolled back in case of a panic or error"
\* (crons.go:131): no proof becomes spent that did not reach the file.
FailedWriteIsRolledBack == [][\A p \in spent' \ spent : Contains(file, p)]_vars

=============================================================================
