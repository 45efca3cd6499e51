------------------------------- MODULE Ledger -------------------------------
(***************************************************************************)
(* What ratasker's books promise, whatever the interleaving of requests,   *)
(* rotations, mint answers and crashes: a proof pays once and is swapped   *)
(* once; proofs of a mint are swapped all together, only when the key is   *)
(* replaced, and in the same step as it; keys are numbered without gaps.   *)
(***************************************************************************)
EXTENDS Naturals

CONSTANTS Proofs, Mints, MintOf

VARIABLES
    state,   \* of each proof: new, held (locked to the server), or redeemed
    version, \* the newest key, 0 before there is one
    swaps    \* the sets of proofs that were swapped together

vars == <<state, version, swaps>>

HeldOf(m) == {p \in Proofs : state[p] = "held" /\ MintOf[p] = m}

Init ==
    /\ state = [p \in Proofs |-> "new"]
    /\ version = 0
    /\ swaps = {}

FirstKey ==
    /\ version = 0
    /\ version' = 1
    /\ UNCHANGED <<state, swaps>>

\* A payment: new proofs of one mint.
Pay(S, m) ==
    /\ S # {}
    /\ \A p \in S : state[p] = "new" /\ MintOf[p] = m
    /\ state' = [p \in Proofs |-> IF p \in S THEN "held" ELSE state[p]]
    /\ UNCHANGED <<version, swaps>>

\* A rotation: all held proofs of the mints in M are swapped, one batch a mint.
Rotate(M) ==
    /\ \A m \in M : HeldOf(m) # {}
    /\ swaps' = swaps \cup {HeldOf(m) : m \in M}
    /\ state' = [p \in Proofs |->
                   IF state[p] = "held" /\ MintOf[p] \in M THEN "redeemed" ELSE state[p]]
    /\ version' = version + 1

Next ==
    \/ FirstKey
    \/ \E S \in SUBSET Proofs, m \in Mints : Pay(S, m)
    \/ \E M \in SUBSET Mints : Rotate(M)

Spec == Init /\ [][Next]_vars

=============================================================================
