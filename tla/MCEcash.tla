------------------------------ MODULE MCEcash -------------------------------
(* Instances of Ecash small enough for TLC. *)
EXTENDS EcashProperties, TLC

CONSTANTS p1, p2, p3, r1, r2, m1, m2, k1, k2, k3

\* p3 and k3 are those of the second mint, where there is one.
MCMintOf == [p \in Proofs |-> IF p = p3 THEN m2 ELSE m1]
MCKeysetMint == [k \in Keysets |-> IF k = k3 THEN m2 ELSE m1]

\* Two sats a proof, and a fee that leaves one of them: any proof can be swapped.
TwoSats == [p \in Proofs |-> 2]
LowFee == [p \in Proofs |-> 100]
\* Alone, p2 costs more to swap than it is worth; with p1 it does not.
HighFee == [p \in Proofs |-> IF p = p2 THEN 2900 ELSE 100]

\* One request takes a token of two proofs.
TwoPrices == [r \in Requests |-> IF r = r1 THEN 3 ELSE 1]

\* A proof of one sat is eaten up by its fee, one of four sats is swapped for two
\* proofs.
SmallChange == [p \in Proofs |-> IF p = p3 THEN 1 ELSE 4]
Cheap == [r \in Requests |-> 1]

\* The proofs that nothing tells apart.
SameMint == Permutations({p1, p2})
=============================================================================
