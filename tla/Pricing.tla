------------------------------- MODULE Pricing -------------------------------
(***************************************************************************)
(* What an upload or a download costs (external/xcashu).                   *)
(***************************************************************************)
EXTENDS Integers

BPer4MB == 4096 * 1024

\* Integer division by zero: a Go panic.
Panics(length, cost) == length >= 1024 /\ cost = 0

\* The price in sats of a number of bytes; there is none where it panics.
QuoteAmountToPay(length, cost) ==
    LET res == (length \div BPer4MB) \div cost IN
    IF length < 1024 \/ res = 0 THEN 1 ELSE res

=============================================================================
