------------------------- MODULE MCInferenceServer -------------------------
(* Requests of two daemons, two servers one after the other, two models. *)
EXTENDS InferenceServer, TLC
CONSTANTS r1, r2, m1, m2
MCDaemon == [c \in Caller |-> IF c = 1 THEN "release" ELSE "dev"]
Symmetry == Permutations(Request) \union Permutations(Model)
===============================================================================
