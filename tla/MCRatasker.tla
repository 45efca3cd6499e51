----------------------------- MODULE MCRatasker -----------------------------
(* Instances of Ratasker small enough for TLC. *)
EXTENDS Ratasker, MCEcash

=============================================================================
