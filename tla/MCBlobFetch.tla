----------------------------- MODULE MCBlobFetch -----------------------------
(* Instances of BlobFetch for TLC: two quants of a repository share the mtp     *)
(* head, and the first has a file of its own.                                   *)
EXTENDS BlobFetch

CONSTANTS q4, q8, mtp, own

Plans == [d \in Download |-> IF d = q4 THEN <<mtp, own>> ELSE <<mtp>>]
Runs  == [d \in Download |-> IF d = q4 THEN 2 ELSE 1]
Sizes == [f \in File |-> 2]
=============================================================================
