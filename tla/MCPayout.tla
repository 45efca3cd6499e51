------------------------------ MODULE MCPayout ------------------------------
(* Instances of Payout small enough for TLC. *)
EXTENDS Payout, TLC

CONSTANTS p1, p2, p3, m1, m2

\* Two proofs of one mint, one of another.
MintOfProof == (p1 :> m1) @@ (p2 :> m1) @@ (p3 :> m2)
=============================================================================
