------------------------------ MODULE BlobCache ------------------------------
(* What downloading promises of the model cache (mod.rs and cache.rs of         *)
(* utils/hf_model_downloader): a blob appears whole or not at all and stays     *)
(* until the repository is deleted; only blobs that are there are linked.       *)
EXTENDS FiniteSets

CONSTANT File      \* the blobs of a repository

VARIABLES
    have,     \* the blobs that are there, whole
    linked    \* the blobs that the snapshot links to

Init == have \subseteq File /\ linked = {}

Store(f)  == have' = have \union {f} /\ UNCHANGED linked
Link(f)   == f \in have /\ linked' = linked \union {f} /\ UNCHANGED have
Unlink(f) == linked' = linked \ {f} /\ UNCHANGED have
Remove    == have' = {} /\ linked' = {}

Next == Remove \/ \E f \in File : Store(f) \/ Link(f) \/ Unlink(f)

Spec == Init /\ [][Next]_<<have, linked>>
=============================================================================
