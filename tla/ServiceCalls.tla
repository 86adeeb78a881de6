---------------------------- MODULE ServiceCalls ----------------------------
(***************************************************************************)
(* What the daemon's request handlers have in common: a request arrives,   *)
(* its handler runs from one await to the next, and is dropped where it    *)
(* stands if the client closes the connection.                             *)
(***************************************************************************)
EXTENDS FaultBudget, Naturals, Sequences, FiniteSets

CONSTANT Requests       \* how many requests arrive, numbered as they do

ASSUME RequestsAssumption == Requests \in Nat

VARIABLE calls          \* each request: what it asks, how far it is, its argument

Calls == 1..Requests

NoCall == [op |-> "none", step |-> "none", of |-> 0]

InitCalls == calls = [c \in Calls |-> NoCall] /\ left = Faults

Arrives(c, op, step, of) ==
    /\ calls[c] = NoCall
    /\ \A b \in 1..(c - 1) : calls[b] # NoCall
    /\ calls' = [calls EXCEPT ![c] = [op |-> op, step |-> step, of |-> of]]
    /\ left' = left

At(c, op, step) == calls[c].op = op /\ calls[c].step = step

To(c, step) == calls' = [calls EXCEPT ![c].step = step] /\ left' = left

\* Likewise, as a fault.
Fails(c, step) ==
    /\ Fault
    /\ calls' = [calls EXCEPT ![c].step = step]

\* A request is in a queue once at most, and leaves it.
Without(queue, c) ==
    LET at == {i \in DOMAIN queue : queue[i] = c}
        i == CHOOSE n \in at : TRUE
    IN  IF at = {} THEN queue
        ELSE [n \in 1 .. Len(queue) - 1 |-> queue[IF n < i THEN n ELSE n + 1]]

Ended == {"none", "ok", "failed", "left"}
=============================================================================
