------------------------------ MODULE MCChatSync ------------------------------
(* Small instances of ChatSync for TLC. *)
EXTENDS ChatSyncInv

CONSTANTS ana, bob

\* How many chats each user writes.
Rows02 == [u \in Device |-> IF u = bob THEN 2 ELSE 0]
Rows13 == [u \in Device |-> IF u = bob THEN 3 ELSE 1]

\* A sync call of device d with device e.
Sync(d, e, n) == [dev |-> d, topic |-> e, try |-> n]

OneCall  == {Sync(ana, bob, 1)}
Retry    == {Sync(ana, bob, 1), Sync(ana, bob, 2)}
BothWays == {Sync(ana, bob, 1), Sync(bob, ana, 1)}

AnyTwo   == Retry \union BothWays

\* Of several calls at most two are made, those to one peer in order.
Made(i) == call[i].st # "new"
TwoCallsMade ==
    /\ Cardinality({i \in Initiator : Made(i)}) <= 2
    /\ \A i, j \in Initiator :
          i.dev = j.dev /\ i.topic = j.topic /\ i.try < j.try /\ Made(j) => Made(i)

==============================================================================
