----------------------------- MODULE MCStartup -----------------------------
(* An instance of Startup small enough for TLC: the service and a process  *)
(* started by hand.                                                        *)
EXTENDS Startup

CONSTANTS service, byHand
=============================================================================
