---------------------------- MODULE MCBlobServer ----------------------------
(* Instances of BlobServer small enough for TLC. *)
EXTENDS BlobServer

CONSTANTS b1, b2, r1, r2

\* Three times 4 MB, and less than a kilobyte.
Sizes == [b \in Blobs |-> IF b = b1 THEN 3 * BPer4MB ELSE 1000]

\* What payers say their blob measures: the truth about b1, or nothing.
Named == {0, 3 * BPer4MB}

\* Both set, so that an upload and a download of b1 cost 1 and 3 sats; one not set.
SomeCosts == {[get |-> 1, put |-> 2], [get |-> 0, put |-> 1]}
BothSet == {[get |-> 1, put |-> 1]}
=============================================================================
