------------------------------- MODULE ChatLog -------------------------------
(***************************************************************************)
(* What chat sync promises, without messages: every user writes a log of   *)
(* chats on their own device, and every other device holds a prefix of it. *)
(* A device catches up in one step, from the start of the log and without  *)
(* a gap, so the highest chat it holds says which chats it still lacks.    *)
(* ChatSync implements this where a device is called by at most one other  *)
(* and saves one chat at a time (see ChatSyncProof).                       *)
(***************************************************************************)
EXTENDS Naturals

CONSTANT Device    \* a device is known by the DID of its user

VARIABLES
    size,   \* size[u]: how many chats user u has written
    held    \* held[d][u]: the chats of user u that device d holds

vars == <<size, held>>

TypeOK ==
    /\ size \in [Device -> Nat]
    /\ held \in [Device -> [Device -> SUBSET Nat]]

Init ==
    /\ size = [u \in Device |-> 0]
    /\ held = [d \in Device |-> [u \in Device |-> {}]]

\* User u writes the next chat on their own device.
Write(u) ==
    /\ size' = [size EXCEPT ![u] = @ + 1]
    /\ held' = [held EXCEPT ![u][u] = @ \union {size[u] + 1}]

\* Device d gets the chats of u up to the k-th.
CatchUp(d, u) ==
    /\ \E k \in 1 .. size[u] : held' = [held EXCEPT ![d][u] = @ \union 1 .. k]
    /\ UNCHANGED size

Next ==
    \/ \E u \in Device : Write(u)
    \/ \E d, u \in Device : CatchUp(d, u)

Spec == Init /\ [][Next]_vars

==============================================================================
