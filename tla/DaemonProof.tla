---------------------------- MODULE DaemonProof ------------------------------
(***************************************************************************)
(* Theorems about the daemon: its services behind the router, for any      *)
(* number of requests, faults and accounts; its processes and the commands *)
(* that start and stop it, for any number of each; and the app's hold on   *)
(* the Mac's sleep.                                                        *)
(***************************************************************************)
EXTENDS DaemonServices, DaemonLife, StayAwake, TLAPS

USE RequestsAssumption, FaultsAssumption, DidsAssumption

-------------------------------------------------------------------------------
(* Requests and the queues of locks *)

LEMMA ToFacts ==
    ASSUME CallsTypeOK, NEW c \in Calls, NEW step \in Steps, To(c, step)
    PROVE  /\ CallsTypeOK'
           /\ \A b \in Calls \ {c} : calls'[b] = calls[b]
           /\ calls'[c].op = calls[c].op /\ calls'[c].of = calls[c].of /\ calls'[c].step = step
BY DEF To, CallsTypeOK

LEMMA FailsFacts ==
    ASSUME CallsTypeOK, NEW c \in Calls, NEW step \in Steps, Fails(c, step)
    PROVE  /\ CallsTypeOK'
           /\ \A b \in Calls \ {c} : calls'[b] = calls[b]
           /\ calls'[c].op = calls[c].op /\ calls'[c].of = calls[c].of /\ calls'[c].step = step
BY DEF Fails, Fault, CallsTypeOK

LEMMA ArrivesFacts ==
    ASSUME CallsTypeOK, NEW c \in Calls, NEW step \in Steps, NEW of \in 0..Requests \cup Dids,
           NEW op \in NetOps \cup {"share", "unshare", "login", "logout", "tap"},
           Arrives(c, op, step, of)
    PROVE  /\ CallsTypeOK'
           /\ \A b \in Calls \ {c} : calls'[b] = calls[b]
           /\ calls[c].op = "none"
           /\ calls'[c].op = op /\ calls'[c].of = of /\ calls'[c].step = step
BY DEF Arrives, CallsTypeOK, NoCall

\* The queue of a lock keeps its head, unless the head itself leaves it.
LEMMA HeadFacts ==
    ASSUME NEW s \in Seq(Calls), Len(s) > 0
    PROVE  s # <<>> /\ Head(s) = s[1]
OBVIOUS

LEMMA AppendFacts ==
    ASSUME NEW q \in Seq(Calls), NEW c \in Calls
    PROVE  /\ Append(q, c) \in Seq(Calls) /\ Append(q, c) # <<>>
           /\ q # <<>> => Head(Append(q, c)) = Head(q)
<1>1. /\ Append(q, c) \in Seq(Calls) /\ Len(Append(q, c)) = Len(q) + 1
      /\ \A n \in 1 .. Len(q) : Append(q, c)[n] = q[n]
  OBVIOUS
<1>2. Append(q, c) # <<>> /\ Head(Append(q, c)) = Append(q, c)[1]
  <2>1. Len(Append(q, c)) > 0
    BY <1>1
  <2> QED
    BY <1>1, <2>1, HeadFacts
<1>3. q # <<>> => 1 \in 1 .. Len(q) /\ Head(q) = q[1]
  OBVIOUS
<1> QED
  BY <1>1, <1>2, <1>3

LEMMA WithoutFacts ==
    ASSUME NEW q \in Seq(Calls), NEW c \in Calls
    PROVE  /\ Without(q, c) \in Seq(Calls)
           /\ q # <<>> /\ Head(q) # c => Without(q, c) # <<>> /\ Head(Without(q, c)) = Head(q)
<1> DEFINE at == {i \in DOMAIN q : q[i] = c}
           i == CHOOSE n \in at : TRUE
           rest == [n \in 1 .. Len(q) - 1 |-> q[IF n < i THEN n ELSE n + 1]]
<1>1. CASE at = {}
  BY <1>1 DEF Without
<1>2. CASE at # {}
  <2>1. i \in 1 .. Len(q) /\ q[i] = c /\ Len(q) \in Nat
    <3>1. i \in at
      BY <1>2
    <3> QED
      BY <3>1
  <2>2. Without(q, c) = rest
    BY <1>2 DEF Without
  <2> HIDE DEF i
  <2>3. Len(q) - 1 \in Nat
    BY <2>1
  <2>4. \A n \in 1 .. Len(q) - 1 : rest[n] \in Calls
    BY <2>1
  <2>5. rest \in Seq(Calls) /\ Len(rest) = Len(q) - 1
    BY <2>3, <2>4
  <2>6. ASSUME q # <<>>, Head(q) # c
        PROVE  rest # <<>> /\ Head(rest) = Head(q)
    <3>1. i # 1 /\ 1 \in 1 .. Len(q) - 1
      BY <2>1, <2>6
    <3>2. rest[1] = q[1] /\ Head(q) = q[1]
      BY <2>1, <2>6, <3>1
    <3> HIDE DEF rest
    <3>3. rest # <<>> /\ Head(rest) = rest[1]
      BY <2>1, <2>5, <3>1, HeadFacts
    <3> QED
      BY <3>2, <3>3
  <2> QED
    BY <2>2, <2>5, <2>6
<1> QED
  BY <1>1, <1>2

\* Holding a lock, and what a request may do with its queue.
Holds(q, c) == q # <<>> /\ Head(q) = c
QueueMoves(q, new, c) ==
    \/ new = q
    \/ new = Append(q, c)
    \/ new = Without(q, c)
    \/ Holds(q, c) /\ new = Tail(q)

LEMMA QueueKeeps ==
    ASSUME NEW q \in Seq(Calls), NEW c \in Calls, NEW new, QueueMoves(q, new, c)
    PROVE  /\ new \in Seq(Calls)
           /\ \A b \in Calls \ {c} : Holds(q, b) => Holds(new, b)
<1>1. CASE new = q
  BY <1>1
<1>2. CASE new = Append(q, c)
  BY <1>2, AppendFacts DEF Holds
<1>3. CASE new = Without(q, c)
  BY <1>3, WithoutFacts DEF Holds
<1>4. CASE Holds(q, c) /\ new = Tail(q)
  BY <1>4 DEF Holds
<1> QED
  BY <1>1, <1>2, <1>3, <1>4 DEF QueueMoves

-------------------------------------------------------------------------------
(* The network *)

LEMMA NetInvFacts ==
    ASSUME NetInv
    PROVE  /\ NetTypeOK /\ NetworkIsKnown
           /\ network.running => network.of \in Calls
           /\ \A c \in Calls : Holds(netLock, c) <=> HoldsNet(c)
BY DEF NetInv, NetTypeOK, Holds, HoldsNet, Calls

\* A step of a request keeps the invariant, if it moves in the queue as one may,
\* changes the state under the lock only, and its own network is accounted for.
LEMMA NetStepKeeps ==
    ASSUME NetInv, NetTypeOK', NEW c \in Calls,
           \A b \in Calls \ {c} : calls'[b] = calls[b],
           QueueMoves(netLock, netLock', c),
           network' = network \/ Holds(netLock, c),
           network'.running => network'.of # 0,
           calls'[c].op = "start" /\ calls'[c].step \in {"create", "wait"} =>
              Holds(netLock', c) /\ ~network'.running,
           \A b \in Calls \ {c} : nets'[b] # "none" => nets[b] # "none",
           nets'[c] # "none" => calls'[c].op = "start" /\ calls'[c].step \notin {"lock", "create"},
           NetworkIsKnown'
    PROVE  NetInv'
<1>1. netLock \in Seq(Calls)
  BY DEF NetInv, NetTypeOK
<1>2. \A b \in Calls \ {c} : Holds(netLock, b) => Holds(netLock', b)
  BY <1>1, QueueKeeps
<1>3. ASSUME NEW b \in Calls, calls'[b].op = "start", calls'[b].step \in {"create", "wait"}
      PROVE  Holds(netLock', b) /\ ~network'.running
  <2>1. CASE b = c
    BY <1>3, <2>1
  <2>2. CASE b # c
    <3>1. Holds(netLock, b) /\ ~network.running
      BY <1>3, <2>2 DEF NetInv, HoldsNet, Holds
    <3>2. network' = network
      BY <2>2, <3>1 DEF Holds
    <3> QED
      BY <1>2, <2>2, <3>1, <3>2
  <2> QED
    BY <2>1, <2>2
<1>4. ASSUME NEW b \in Calls, nets'[b] # "none"
      PROVE  calls'[b].op = "start" /\ calls'[b].step \notin {"lock", "create"}
  BY <1>4 DEF NetInv
<1> QED
  BY <1>3, <1>4 DEF NetInv, HoldsNet, Holds

LEMMA NetAskKeeps ==
    ASSUME NetInv, CallsTypeOK, NEW c \in Calls, NetAsk(c)
    PROVE  NetInv' /\ CallsTypeOK'
<1>1. PICK op \in NetOps : Arrives(c, op, "lock", 0)
  BY DEF NetAsk
<1>2. 0 \in 0..Requests \cup Dids
  OBVIOUS
<1>3. /\ CallsTypeOK' /\ \A b \in Calls \ {c} : calls'[b] = calls[b]
      /\ calls[c].op = "none" /\ calls'[c].step = "lock"
  BY <1>1, <1>2, ArrivesFacts DEF Steps
<1>4. netLock' = Append(netLock, c) /\ UNCHANGED <<network, nets>> /\ NetTypeOK
  BY DEF NetAsk, NetInv
<1>5. QueueMoves(netLock, netLock', c)
  BY <1>4 DEF QueueMoves
<1>6. NetTypeOK'
  BY <1>4, <1>5, QueueKeeps DEF NetTypeOK
<1>7. nets[c] = "none" /\ (network.running => network.of # 0)
  BY <1>3 DEF NetInv
<1>8. NetworkIsKnown'
  BY <1>3, <1>4, <1>7 DEF NetInv, NetworkIsKnown
<1> QED
  BY <1>3, <1>4, <1>5, <1>6, <1>7, <1>8, NetStepKeeps

LEMMA StartNetKeeps ==
    ASSUME NetInv, CallsTypeOK, NEW c \in Calls, StartNet(c)
    PROVE  NetInv' /\ CallsTypeOK'
<1>1. /\ calls[c].op = "start" /\ calls[c].step = "lock" /\ Holds(netLock, c)
      /\ UNCHANGED <<network, nets>> /\ NetTypeOK
      /\ IF network.running THEN To(c, "ok") /\ netLock' = Tail(netLock)
                            ELSE To(c, "create") /\ netLock' = netLock
  BY DEF StartNet, At, HoldsNet, Holds, NetInv
<1>2. /\ CallsTypeOK' /\ \A b \in Calls \ {c} : calls'[b] = calls[b]
      /\ calls'[c].step \in {"ok", "create"}
      /\ calls'[c].step = "create" => ~network.running /\ netLock' = netLock
  BY <1>1, ToFacts DEF Steps, Ended
<1>3. QueueMoves(netLock, netLock', c)
  BY <1>1 DEF QueueMoves
<1>4. NetTypeOK'
  BY <1>1, <1>3, QueueKeeps DEF NetTypeOK
<1>5. nets[c] = "none" /\ (network.running => network.of # 0)
  BY <1>1 DEF NetInv
<1>6. NetworkIsKnown'
  BY <1>1, <1>2, <1>5 DEF NetInv, NetworkIsKnown
<1> QED
  BY <1>1, <1>2, <1>3, <1>4, <1>5, <1>6, NetStepKeeps

LEMMA NetCreatedKeeps ==
    ASSUME NetInv, CallsTypeOK, NEW c \in Calls, NetCreated(c)
    PROVE  NetInv' /\ CallsTypeOK'
<1>1. /\ calls[c].op = "start" /\ calls[c].step = "create" /\ To(c, "wait")
      /\ UNCHANGED <<network, netLock>> /\ NetTypeOK
      /\ nets' = [nets EXCEPT ![c] = "starting"]
  BY DEF NetCreated, At, NetInv
<1>2. /\ CallsTypeOK' /\ \A b \in Calls \ {c} : calls'[b] = calls[b]
      /\ calls'[c].step = "wait" /\ calls'[c].op = "start"
  BY <1>1, ToFacts DEF Steps, Ended
<1>3. QueueMoves(netLock, netLock', c)
  BY <1>1 DEF QueueMoves
<1>4. NetTypeOK' /\ nets'[c] = "starting" /\ \A b \in Calls \ {c} : nets'[b] = nets[b]
  BY <1>1 DEF NetTypeOK
<1>5. Holds(netLock, c) /\ ~network.running
  BY <1>1 DEF NetInv, HoldsNet, Holds
<1>6. NetworkIsKnown'
  BY <1>1, <1>2, <1>4, <1>5 DEF NetInv, NetworkIsKnown
<1> QED
  BY <1>1, <1>2, <1>3, <1>4, <1>5, <1>6, NetStepKeeps

LEMMA NetStartedKeeps ==
    ASSUME NetInv, CallsTypeOK, NEW c \in Calls, NetStarted(c)
    PROVE  NetInv' /\ CallsTypeOK'
<1>1. /\ calls[c].op = "start" /\ calls[c].step = "wait"
      /\ UNCHANGED nets /\ NetTypeOK /\ netLock' = Without(netLock, c)
      /\ \/ nets[c] = "up" /\ To(c, "ok") /\ network' = [of |-> c, running |-> TRUE]
         \/ nets[c] # "up" /\ To(c, "failed") /\ network' = network
  BY DEF NetStarted, At, NetInv
<1>2. /\ CallsTypeOK' /\ \A b \in Calls \ {c} : calls'[b] = calls[b]
      /\ calls'[c].step \in {"ok", "failed"} /\ calls'[c].op = "start"
  BY <1>1, ToFacts DEF Steps, Ended
<1>3. QueueMoves(netLock, netLock', c)
  BY <1>1 DEF QueueMoves
<1>4. NetTypeOK'
  <2>1. netLock' \in Seq(Calls)
    BY <1>1, <1>3, QueueKeeps DEF NetTypeOK
  <2>2. network' \in [of : 0..Requests, running : BOOLEAN]
    <3>1. c \in 0..Requests
      BY DEF Calls
    <3>2. [of |-> c, running |-> TRUE] \in [of : 0..Requests, running : BOOLEAN]
      BY <3>1
    <3> QED
      BY <1>1, <3>2 DEF NetTypeOK
  <2> QED
    BY <1>1, <2>1, <2>2 DEF NetTypeOK
<1>5. Holds(netLock, c) /\ ~network.running
  BY <1>1 DEF NetInv, HoldsNet, Holds
<1>6. network'.running => network'.of # 0
  BY <1>1, <1>5 DEF Calls
<1>7. NetworkIsKnown'
  BY <1>1, <1>2, <1>5 DEF NetInv, NetworkIsKnown
<1> QED
  BY <1>1, <1>2, <1>3, <1>4, <1>5, <1>6, <1>7, NetStepKeeps

LEMMA StopNetKeeps ==
    ASSUME NetInv, CallsTypeOK, NEW c \in Calls, StopNet(c)
    PROVE  NetInv' /\ CallsTypeOK'
<1>1. /\ calls[c].op = "stop" /\ Holds(netLock, c) /\ netLock' = Tail(netLock)
      /\ NetTypeOK
      /\ \/ /\ network.running /\ To(c, "ok") /\ network' = [network EXCEPT !.running = FALSE]
            /\ nets' = [nets EXCEPT ![network.of] = "closing"]
         \/ To(c, "failed") /\ UNCHANGED <<network, nets>>
  BY DEF StopNet, At, HoldsNet, Holds, NetInv
<1>2. /\ CallsTypeOK' /\ \A b \in Calls \ {c} : calls'[b] = calls[b]
      /\ calls'[c].step \in {"ok", "failed"} /\ calls'[c].op = "stop"
  BY <1>1, ToFacts DEF Steps, Ended
<1>3. QueueMoves(netLock, netLock', c)
  BY <1>1 DEF QueueMoves
<1>4. network.running => network.of \in Calls /\ nets[network.of] = "up"
  BY NetInvFacts DEF NetworkIsKnown
<1>5. NetTypeOK' /\ (network'.running => network' = network)
  BY <1>1, <1>3, QueueKeeps DEF NetTypeOK
<1>6. nets[c] = "none"
  BY <1>1 DEF NetInv
<1>7. /\ \A b \in Calls : nets'[b] # "none" => nets[b] # "none"
      /\ \A b \in Calls : nets'[b] = "up" => nets[b] = "up"
      /\ \A b \in Calls : nets'[b] = "up" => network' = network \/ network.of # b
  BY <1>1, <1>4 DEF NetTypeOK
<1>8. NetworkIsKnown'
  <2>1. network'.running => nets'[network'.of] = "up"
    BY <1>1, <1>4 DEF NetTypeOK
  <2>2. ASSUME NEW b \in Calls, nets'[b] = "up"
        PROVE  \/ network' = [of |-> b, running |-> TRUE]
               \/ calls'[b].step \in {"wait", "left"}
    <3>1. b # c
      BY <2>2, <1>6, <1>7
    <3>2. \/ network = [of |-> b, running |-> TRUE]
          \/ calls[b].step \in {"wait", "left"}
      BY <2>2, <1>7 DEF NetInv, NetworkIsKnown
    <3> QED
      BY <2>2, <3>1, <3>2, <1>2, <1>7
  <2> QED
    BY <2>1, <2>2 DEF NetworkIsKnown
<1>9. network.running => network.of # 0
  BY DEF NetInv
<1> QED
  BY <1>1, <1>2, <1>3, <1>5, <1>6, <1>7, <1>8, <1>9, NetStepKeeps

LEMMA NetCreateFailsKeeps ==
    ASSUME NetInv, CallsTypeOK, NEW c \in Calls, NetCreateFails(c)
    PROVE  NetInv' /\ CallsTypeOK'
<1>1. /\ calls[c].step = "create" /\ Fails(c, "failed") /\ calls[c].op = "start"
      /\ UNCHANGED <<network, nets>> /\ NetTypeOK /\ netLock' = Without(netLock, c)
  BY DEF NetCreateFails, At, NetInv
<1>2. /\ CallsTypeOK' /\ \A b \in Calls \ {c} : calls'[b] = calls[b]
      /\ calls'[c].step = "failed"
  BY <1>1, FailsFacts DEF Steps, Ended
<1>3. QueueMoves(netLock, netLock', c)
  BY <1>1 DEF QueueMoves
<1>4. NetTypeOK'
  BY <1>1, <1>3, QueueKeeps DEF NetTypeOK
<1>5. nets[c] = "none" /\ (network.running => network.of # 0)
  BY <1>1 DEF NetInv
<1>6. NetworkIsKnown'
  BY <1>1, <1>2, <1>5 DEF NetInv, NetworkIsKnown
<1> QED
  BY <1>1, <1>2, <1>3, <1>4, <1>5, <1>6, NetStepKeeps

\* A client that leaves after its network is up takes the confirmation along.
LEMMA NetLeavesKeeps ==
    ASSUME NetInv, CallsTypeOK, NEW c \in Calls, NetLeaves(c)
    PROVE  NetInv' /\ CallsTypeOK'
<1>1. /\ Fails(c, "left") /\ calls[c].step \in {"lock", "create", "wait"}
      /\ UNCHANGED <<network, nets>> /\ NetTypeOK /\ netLock' = Without(netLock, c)
  BY DEF NetLeaves, NetInv
<1>2. /\ CallsTypeOK' /\ \A b \in Calls \ {c} : calls'[b] = calls[b]
      /\ calls'[c].step = "left" /\ calls'[c].op = calls[c].op
  BY <1>1, FailsFacts DEF Steps, Ended
<1>3. QueueMoves(netLock, netLock', c)
  BY <1>1 DEF QueueMoves
<1>4. NetTypeOK'
  BY <1>1, <1>3, QueueKeeps DEF NetTypeOK
<1>5. (nets[c] # "none" => calls[c].op = "start") /\ (network.running => network.of # 0)
  BY DEF NetInv
<1>6. NetworkIsKnown'
  BY <1>1, <1>2 DEF NetInv, NetworkIsKnown
<1> QED
  BY <1>1, <1>2, <1>3, <1>4, <1>5, <1>6, NetStepKeeps

LEMMA UseNetKeeps ==
    ASSUME NetInv, CallsTypeOK, NEW c \in Calls, UseNet(c)
    PROVE  NetInv' /\ CallsTypeOK'
<1>1. /\ calls[c].op = "use" /\ Holds(netLock, c) /\ netLock' = Tail(netLock)
      /\ UNCHANGED <<network, nets>> /\ NetTypeOK
      /\ \/ To(c, "failed")
         \/ /\ calls' = [calls EXCEPT ![c].step = "using", ![c].of = network.of]
            /\ left' = left
  BY DEF UseNet, At, HoldsNet, Holds, NetInv
<1>2. network.of \in 0..Requests
  BY <1>1 DEF NetTypeOK
<1>3. /\ CallsTypeOK' /\ \A b \in Calls \ {c} : calls'[b] = calls[b]
      /\ calls'[c].op = "use"
  <2>1. CASE To(c, "failed")
    BY <1>1, <2>1, ToFacts DEF Steps, Ended
  <2>2. CASE /\ calls' = [calls EXCEPT ![c].step = "using", ![c].of = network.of]
             /\ left' = left
    BY <1>1, <1>2, <2>2 DEF CallsTypeOK, Steps
  <2> QED
    BY <1>1, <2>1, <2>2
<1>4. QueueMoves(netLock, netLock', c)
  BY <1>1 DEF QueueMoves
<1>5. NetTypeOK'
  BY <1>1, <1>4, QueueKeeps DEF NetTypeOK
<1>6. nets[c] = "none" /\ (network.running => network.of # 0)
  BY <1>1 DEF NetInv
<1>7. NetworkIsKnown'
  BY <1>1, <1>3, <1>6 DEF NetInv, NetworkIsKnown
<1> QED
  BY <1>1, <1>3, <1>4, <1>5, <1>6, <1>7, NetStepKeeps

LEMMA NetUsedKeeps ==
    ASSUME NetInv, CallsTypeOK, NEW c \in Calls, NetUsed(c)
    PROVE  NetInv' /\ CallsTypeOK'
<1>1. /\ calls[c].op = "use" /\ UNCHANGED <<network, nets, netLock>> /\ NetTypeOK
      /\ To(c, "ok") \/ To(c, "failed")
  BY DEF NetUsed, At, netVars, NetInv
<1>2. /\ CallsTypeOK' /\ \A b \in Calls \ {c} : calls'[b] = calls[b]
      /\ calls'[c].op = "use"
  BY <1>1, ToFacts DEF Steps, Ended
<1>3. QueueMoves(netLock, netLock', c) /\ NetTypeOK'
  BY <1>1 DEF QueueMoves, NetTypeOK
<1>4. nets[c] = "none" /\ (network.running => network.of # 0)
  BY <1>1 DEF NetInv
<1>5. NetworkIsKnown'
  BY <1>1, <1>2, <1>4 DEF NetInv, NetworkIsKnown
<1> QED
  BY <1>1, <1>2, <1>3, <1>4, <1>5, NetStepKeeps

\* A network itself comes up for a start that waits, or ends.
LEMMA NetTaskKeeps ==
    ASSUME NetInv, CallsTypeOK, NEW c \in Calls, NetConfirm(c) \/ NetFails(c) \/ NetCloses(c)
    PROVE  NetInv' /\ CallsTypeOK'
<1>1. /\ UNCHANGED <<calls, network, netLock>> /\ NetTypeOK
      /\ nets[c] \in {"starting", "closing"}
      /\ \E state \in {"up", "closed"} :
            /\ nets' = [nets EXCEPT ![c] = state]
            /\ state = "up" => At(c, "start", "wait")
      /\ left' = left \/ (left > 0 /\ left' = left - 1)
  BY DEF NetConfirm, NetFails, NetCloses, NetInv
<1>2. CallsTypeOK'
  BY <1>1 DEF CallsTypeOK
<1>3. PICK state \in {"up", "closed"} :
            /\ nets' = [nets EXCEPT ![c] = state]
            /\ state = "up" => At(c, "start", "wait")
  BY <1>1
<1>4. /\ nets'[c] = state /\ \A b \in Calls \ {c} : nets'[b] = nets[b]
      /\ NetTypeOK'
  BY <1>1, <1>3 DEF NetTypeOK
<1>5. QueueMoves(netLock, netLock', c)
  BY <1>1 DEF QueueMoves
<1>6. network.running => network.of # 0 /\ network.of # c
  BY <1>1 DEF NetInv, NetworkIsKnown
<1>7. NetworkIsKnown'
  <2>1. network'.running => nets'[network'.of] = "up"
    BY <1>1, <1>4, <1>6, NetInvFacts DEF NetworkIsKnown
  <2>2. ASSUME NEW b \in Calls, nets'[b] = "up"
        PROVE  \/ network' = [of |-> b, running |-> TRUE]
               \/ calls'[b].step \in {"wait", "left"}
    BY <2>2, <1>1, <1>3, <1>4 DEF NetInv, NetworkIsKnown, At
  <2> QED
    BY <2>1, <2>2 DEF NetworkIsKnown
<1>8. /\ calls[c].op = "start" /\ calls[c].step \notin {"lock", "create"}
      /\ calls[c].step = "wait" => Holds(netLock, c) /\ ~network.running
  BY <1>1 DEF NetInv, HoldsNet, Holds
<1> QED
  BY <1>1, <1>2, <1>4, <1>5, <1>6, <1>7, <1>8, NetStepKeeps

LEMMA NetworkKeeps ==
    ASSUME NetInv, CallsTypeOK, NEW c \in Calls, Network(c)
    PROVE  NetInv' /\ CallsTypeOK'
BY NetAskKeeps, StartNetKeeps, NetCreatedKeeps, NetStartedKeeps, StopNetKeeps, UseNetKeeps,
   NetUsedKeeps, NetTaskKeeps, NetCreateFailsKeeps, NetLeavesKeeps
   DEF Network, NetStep, NetTask, NetFault

-------------------------------------------------------------------------------
(* The sign in *)

\* A step of a request keeps the invariant, if it leaves the other requests alone,
\* moves in the queue as one may, and what it changes of tasks, slot and accounts
\* is accounted for.
LEMMA SignStepKeeps ==
    ASSUME SignInv, SignTypeOK', NEW c \in Calls,
           \A b \in Calls \ {c} : calls'[b] = calls[b],
           QueueMoves(signLock, signLock', c),
           slot' = slot \/ Holds(signLock, c),
           At(c, "login", "await")' => Holds(signLock', c) /\ slot' = 0,
           \A b \in Calls : tasks'[b].step # "none" =>
              calls'[b].op = "login" /\ calls'[b].step \notin {"resolve", "lock", "await"},
           calls'[c].op = "login" => calls'[c].of \in Dids,
           \A b \in Calls : tasks'[b].step = "save" => tasks'[b].got = b,
           OneSignInStands', OwnAuthorization'
    PROVE  SignInv'
<1>1. signLock \in Seq(Calls)
  BY DEF SignInv, SignTypeOK
<1>2. \A b \in Calls \ {c} : Holds(signLock, b) => Holds(signLock', b)
  BY <1>1, QueueKeeps
<1>3. ASSUME NEW b \in Calls, At(b, "login", "await")'
      PROVE  Holds(signLock', b) /\ slot' = 0
  <2>1. CASE b = c
    BY <1>3, <2>1
  <2>2. CASE b # c
    <3>1. Holds(signLock, b) /\ slot = 0
      BY <1>3, <2>2 DEF SignInv, HoldsSign, Holds, At
    <3>2. slot' = slot
      BY <2>2, <3>1 DEF Holds
    <3> QED
      BY <1>2, <2>2, <3>1, <3>2
  <2> QED
    BY <2>1, <2>2
<1>4. \A b \in Calls : calls'[b].op = "login" => calls'[b].of \in Dids
  BY DEF SignInv
<1> QED
  BY <1>3, <1>4 DEF SignInv, HoldsSign, Holds

\* An authorization that is there stays: a login that is done is not changed.
LEMMA OwnStays ==
    ASSUME SignInv,
           \A d \in Dids : accounts'[d] = "in" => accounts[d] = "in",
           \A b \in Calls : tasks[b].step = "done" =>
              /\ tasks'[b].step = "done" /\ tasks'[b].got = tasks[b].got
              /\ calls'[b].op = calls[b].op /\ calls'[b].of = calls[b].of
    PROVE  OwnAuthorization'
<1>1. ASSUME NEW d \in Dids, accounts'[d] = "in"
      PROVE  \E b \in Calls : /\ calls'[b].op = "login" /\ calls'[b].of = d
                              /\ tasks'[b].step = "done" /\ tasks'[b].got = b
  <2>1. PICK b \in Calls : /\ calls[b].op = "login" /\ calls[b].of = d
                           /\ tasks[b].step = "done" /\ tasks[b].got = b
    BY <1>1 DEF SignInv, OwnAuthorization
  <2> QED
    BY <2>1
<1> QED
  BY <1>1 DEF OwnAuthorization

\* The same for a step that leaves tasks, port and accounts alone.
LEMMA SignCallKeeps ==
    ASSUME SignInv, NEW c \in Calls,
           UNCHANGED <<slot, tasks, port, accounts>>, browser' \subseteq Calls,
           \A b \in Calls \ {c} : calls'[b] = calls[b],
           QueueMoves(signLock, signLock', c),
           calls'[c].op = "login" => calls'[c].of \in Dids,
           At(c, "login", "await")' => Holds(signLock', c) /\ slot = 0,
           tasks[c].step # "none" =>
              /\ calls'[c].op = calls[c].op /\ calls'[c].of = calls[c].of
              /\ calls'[c].step \notin {"resolve", "lock", "await"}
    PROVE  SignInv'
<1>1. SignTypeOK'
  BY QueueKeeps DEF SignInv, SignTypeOK
<1>2. OneSignInStands'
  BY DEF SignInv, OneSignInStands, TaskEnded
<1>3. OwnAuthorization'
  BY OwnStays
<1>4. \A b \in Calls : tasks'[b].step # "none" =>
              calls'[b].op = "login" /\ calls'[b].step \notin {"resolve", "lock", "await"}
  BY DEF SignInv
<1> QED
  BY <1>1, <1>2, <1>3, <1>4, SignStepKeeps DEF At, SignInv

LEMMA SignAskKeeps ==
    ASSUME SignInv, CallsTypeOK, NEW c \in Calls, SignAsk(c)
    PROVE  SignInv' /\ CallsTypeOK'
<1>1. UNCHANGED <<slot, signLock, tasks, port, browser, accounts>>
  BY DEF SignAsk, signVars
<1>2. /\ CallsTypeOK' /\ \A b \in Calls \ {c} : calls'[b] = calls[b]
      /\ calls[c].op = "none"
      /\ calls'[c].op = "login" => calls'[c].of \in Dids /\ calls'[c].step = "resolve"
  <2>1. ASSUME NEW d \in Dids, Arrives(c, "login", "resolve", d)
        PROVE  /\ CallsTypeOK' /\ \A b \in Calls \ {c} : calls'[b] = calls[b]
               /\ calls[c].op = "none"
               /\ calls'[c].of \in Dids /\ calls'[c].step = "resolve"
    BY <2>1, ArrivesFacts DEF Steps
  <2>2. ASSUME Arrives(c, "logout", "find", 0)
        PROVE  /\ CallsTypeOK' /\ \A b \in Calls \ {c} : calls'[b] = calls[b]
               /\ calls[c].op = "none"
               /\ calls'[c].op = "logout"
    <3>1. "find" \in Steps /\ 0 \in 0..Requests \cup Dids
      BY RequestsAssumption DEF Steps
    <3> QED
      BY <2>2, <3>1, ArrivesFacts
  <2> QED
    BY <2>1, <2>2 DEF SignAsk
<1>3. tasks[c].step = "none"
  BY <1>2 DEF SignInv
<1>4. QueueMoves(signLock, signLock', c)
  BY <1>1 DEF QueueMoves
<1>5. browser' \subseteq Calls /\ ~At(c, "login", "await")'
  BY <1>1, <1>2 DEF SignInv, SignTypeOK, At
<1> QED
  BY <1>1, <1>2, <1>3, <1>4, <1>5, SignCallKeeps

LEMMA ResolveKeeps ==
    ASSUME SignInv, CallsTypeOK, NEW c \in Calls, Resolve(c) \/ ResolveFails(c)
    PROVE  SignInv' /\ CallsTypeOK'
<1>1. /\ calls[c].op = "login" /\ calls[c].step = "resolve"
      /\ \/ To(c, "lock") /\ signLock' = Append(signLock, c)
         \/ Fails(c, "failed") /\ signLock' = signLock
      /\ UNCHANGED <<slot, tasks, port, browser, accounts>>
  BY DEF Resolve, ResolveFails, At, signVars
<1>2. /\ CallsTypeOK' /\ \A b \in Calls \ {c} : calls'[b] = calls[b]
      /\ calls'[c].step \in {"lock", "failed"} /\ calls'[c].of = calls[c].of
  BY <1>1, ToFacts, FailsFacts DEF Steps, Ended
<1>3. calls[c].of \in Dids /\ tasks[c].step = "none"
  BY <1>1 DEF SignInv
<1>4. QueueMoves(signLock, signLock', c)
  BY <1>1 DEF QueueMoves
<1>5. browser' \subseteq Calls /\ ~At(c, "login", "await")'
  BY <1>1, <1>2 DEF SignInv, SignTypeOK, At
<1> QED
  BY <1>1, <1>2, <1>3, <1>4, <1>5, SignCallKeeps

LEMMA LogoutFindKeeps ==
    ASSUME SignInv, CallsTypeOK, NEW c \in Calls, LogoutFind(c)
    PROVE  SignInv' /\ CallsTypeOK'
<1>1. /\ calls[c].op = "logout" /\ UNCHANGED <<slot, signLock, tasks, port, browser, accounts>>
      /\ \/ To(c, "failed")
         \/ \E d \in Dids : /\ left' = left
                            /\ calls' = [calls EXCEPT ![c].step = "write", ![c].of = d]
  BY DEF LogoutFind, At, signVars
<1>2. /\ CallsTypeOK' /\ \A b \in Calls \ {c} : calls'[b] = calls[b]
      /\ calls'[c].op = "logout"
  <2>1. CASE To(c, "failed")
    BY <1>1, <2>1, ToFacts DEF Steps, Ended
  <2>2. ASSUME NEW d \in Dids, left' = left,
               calls' = [calls EXCEPT ![c].step = "write", ![c].of = d]
        PROVE  /\ CallsTypeOK' /\ \A b \in Calls \ {c} : calls'[b] = calls[b]
               /\ calls'[c].op = "logout"
    <3>1. /\ calls[c] \in [op : NetOps \cup {"none", "share", "unshare", "login", "logout", "tap"},
                           step : Steps, of : 0..Requests \cup Dids]
          /\ "write" \in Steps /\ d \in 0..Requests \cup Dids
      BY DEF CallsTypeOK, Steps
    <3>2. calls' = [calls EXCEPT ![c] = [calls[c] EXCEPT !.step = "write", !.of = d]]
      BY <2>2
    <3>3. [calls[c] EXCEPT !.step = "write", !.of = d].op = "logout"
      BY <1>1, <3>1
    <3> QED
      BY <2>2, <3>1, <3>2, <3>3 DEF CallsTypeOK
  <2> QED
    BY <1>1, <2>1, <2>2
<1>3. tasks[c].step = "none"
  BY <1>1 DEF SignInv
<1>4. QueueMoves(signLock, signLock', c)
  BY <1>1 DEF QueueMoves
<1>5. browser' \subseteq Calls /\ ~At(c, "login", "await")'
  BY <1>1, <1>2 DEF SignInv, SignTypeOK, At
<1> QED
  BY <1>1, <1>2, <1>3, <1>4, <1>5, SignCallKeeps

LEMMA LogoutWriteKeeps ==
    ASSUME SignInv, CallsTypeOK, NEW c \in Calls, LogoutWrite(c)
    PROVE  SignInv' /\ CallsTypeOK'
<1>1. /\ calls[c].op = "logout" /\ UNCHANGED <<slot, signLock, tasks, port, browser>>
      /\ To(c, "ok") /\ accounts' = [accounts EXCEPT ![calls[c].of] = "out"]
  BY DEF LogoutWrite, At
<1>2. /\ CallsTypeOK' /\ \A b \in Calls \ {c} : calls'[b] = calls[b]
      /\ calls'[c].op = "logout"
  BY <1>1, ToFacts DEF Steps, Ended
<1>3. tasks[c].step = "none"
  BY <1>1 DEF SignInv
<1>4. QueueMoves(signLock, signLock', c) /\ ~At(c, "login", "await")'
  BY <1>1, <1>2 DEF QueueMoves, At
<1>5. SignTypeOK' /\ \A d \in Dids : accounts'[d] = "in" => accounts[d] = "in"
  BY <1>1 DEF SignInv, SignTypeOK
<1>6. OneSignInStands'
  BY <1>1 DEF SignInv, OneSignInStands, TaskEnded
<1>7. OwnAuthorization'
  BY <1>1, <1>2, <1>3, <1>5, OwnStays
<1>8. \A b \in Calls : tasks'[b].step # "none" =>
              calls'[b].op = "login" /\ calls'[b].step \notin {"resolve", "lock", "await"}
  BY <1>1, <1>2, <1>3 DEF SignInv
<1>9. \A b \in Calls : tasks'[b].step = "save" => tasks'[b].got = b
  BY <1>1 DEF SignInv
<1> QED
  BY <1>1, <1>2, <1>4, <1>5, <1>6, <1>7, <1>8, <1>9, SignStepKeeps

\* A new sign in tells the one that stands to stop.
LEMMA TakeOverKeeps ==
    ASSUME SignInv, CallsTypeOK, NEW c \in Calls, TakeOver(c)
    PROVE  SignInv' /\ CallsTypeOK'
<1>1. /\ calls[c].op = "login" /\ calls[c].step = "lock" /\ Holds(signLock, c)
      /\ To(c, "await") /\ UNCHANGED <<signLock, port, browser, accounts>> /\ slot' = 0
      /\ tasks' = [t \in Calls |->
           IF t = c THEN [tasks[t] EXCEPT !.prev = slot]
           ELSE IF t = slot THEN [tasks[t] EXCEPT !.cancel = TRUE] ELSE tasks[t]]
  BY DEF TakeOver, At, HoldsSign, Holds
<1>2. /\ CallsTypeOK' /\ \A b \in Calls \ {c} : calls'[b] = calls[b]
      /\ calls'[c].step = "await" /\ calls'[c].op = "login" /\ calls'[c].of = calls[c].of
  BY <1>1, ToFacts DEF Steps, Ended
<1>3. tasks[c].step = "none" /\ calls[c].of \in Dids /\ SignTypeOK
  BY <1>1 DEF SignInv
<1>4. /\ SignTypeOK'
      /\ \A t \in Calls : tasks'[t].step = tasks[t].step /\ tasks'[t].got = tasks[t].got
      /\ \A t \in Calls \ {c} : tasks'[t].cancel = (tasks[t].cancel \/ t = slot)
  <2>1. \A t \in Calls : /\ tasks[t].cancel \in BOOLEAN
                         /\ slot \in 0..Requests
    BY <1>3 DEF SignTypeOK
  <2>2. SignTypeOK'
    <3> DEFINE new(t) == IF t = c THEN [tasks[t] EXCEPT !.prev = slot]
                         ELSE IF t = slot THEN [tasks[t] EXCEPT !.cancel = TRUE] ELSE tasks[t]
    <3>1. \A t \in Calls : new(t) \in [step : {"none", "born", "listening", "exchange", "save", "done"},
                                       cancel : BOOLEAN, prev : 0..Requests, got : 0..Requests]
      BY <1>3, <2>1 DEF SignTypeOK
    <3>2. tasks' = [t \in Calls |-> new(t)]
      BY <1>1
    <3> HIDE DEF new
    <3>3. tasks' \in [Calls -> [step : {"none", "born", "listening", "exchange", "save", "done"},
                                cancel : BOOLEAN, prev : 0..Requests, got : 0..Requests]]
      BY <3>1, <3>2
    <3>4. UNCHANGED <<signLock, port, browser, accounts>> /\ slot' \in 0..Requests
      BY <1>1
    <3> QED
      BY <1>3, <3>3, <3>4 DEF SignTypeOK
  <2>3. \A t \in Calls : tasks'[t].step = tasks[t].step /\ tasks'[t].got = tasks[t].got
    BY <1>1, <1>3 DEF SignTypeOK
  <2>4. \A t \in Calls \ {c} : tasks'[t].cancel = (tasks[t].cancel \/ t = slot)
    BY <1>1, <1>3, <2>1 DEF SignTypeOK
  <2> QED
    BY <2>2, <2>3, <2>4
<1>5. OneSignInStands'
  BY <1>1, <1>3, <1>4 DEF SignInv, OneSignInStands, TaskEnded
<1>6. OwnAuthorization'
  BY <1>1, <1>2, <1>3, <1>4, OwnStays
<1>7. \A b \in Calls : tasks'[b].step # "none" =>
              calls'[b].op = "login" /\ calls'[b].step \notin {"resolve", "lock", "await"}
  BY <1>2, <1>3, <1>4 DEF SignInv
<1>8. \A b \in Calls : tasks'[b].step = "save" => tasks'[b].got = b
  BY <1>4 DEF SignInv
<1>9. QueueMoves(signLock, signLock', c)
  BY <1>1 DEF QueueMoves
<1> QED
  BY <1>1, <1>2, <1>3, <1>4, <1>5, <1>6, <1>7, <1>8, <1>9, SignStepKeeps

LEMMA BeginKeeps ==
    ASSUME SignInv, CallsTypeOK, NEW c \in Calls, Begin(c)
    PROVE  SignInv' /\ CallsTypeOK'
<1>1. /\ calls[c].op = "login" /\ calls[c].step = "await" /\ To(c, "stream")
      /\ UNCHANGED <<port, browser, accounts>> /\ slot' = c
      /\ tasks' = [tasks EXCEPT ![c].step = "born"] /\ signLock' = Tail(signLock)
  BY DEF Begin, At
<1>2. /\ CallsTypeOK' /\ \A b \in Calls \ {c} : calls'[b] = calls[b]
      /\ calls'[c].step = "stream" /\ calls'[c].op = "login" /\ calls'[c].of = calls[c].of
  BY <1>1, ToFacts DEF Steps, Ended
<1>3. /\ tasks[c].step = "none" /\ calls[c].of \in Dids /\ SignTypeOK
      /\ Holds(signLock, c) /\ slot = 0
  BY <1>1 DEF SignInv, At, HoldsSign, Holds
<1>4. QueueMoves(signLock, signLock', c)
  BY <1>1, <1>3 DEF QueueMoves
<1>5. /\ \A t \in Calls \ {c} : tasks'[t] = tasks[t]
      /\ tasks'[c].step = "born"
  BY <1>1, <1>3 DEF SignTypeOK
<1>6. SignTypeOK'
  <2>1. signLock' \in Seq(Calls) /\ c \in 0..Requests
    BY <1>3, <1>4, QueueKeeps DEF SignTypeOK, Calls
  <2> QED
    BY <2>1, <1>1, <1>3 DEF SignTypeOK
<1>7. OneSignInStands'
  BY <1>1, <1>3, <1>5 DEF SignInv, OneSignInStands, TaskEnded, Calls
<1>8. OwnAuthorization'
  BY <1>1, <1>2, <1>3, <1>5, OwnStays
<1>9. \A b \in Calls : tasks'[b].step # "none" =>
              calls'[b].op = "login" /\ calls'[b].step \notin {"resolve", "lock", "await"}
  BY <1>2, <1>3, <1>5 DEF SignInv
<1>10. \A b \in Calls : tasks'[b].step = "save" => tasks'[b].got = b
  BY <1>5 DEF SignInv
<1> QED
  BY <1>1, <1>2, <1>3, <1>4, <1>6, <1>7, <1>8, <1>9, <1>10, SignStepKeeps DEF At

\* A step of a task keeps the invariant, if it changes this task only, lets its
\* request end at most, and what it stores is its own.
LEMMA SignTaskKeeps ==
    ASSUME SignInv, SignTypeOK', NEW c \in Calls, ~TaskEnded(c),
           \A b \in Calls \ {c} : calls'[b] = calls[b] /\ tasks'[b] = tasks[b],
           calls'[c].op = calls[c].op, calls'[c].of = calls[c].of,
           calls'[c].step \in {calls[c].step, "ok", "failed"},
           UNCHANGED <<slot, signLock>>,
           tasks'[c].step # "none",
           tasks'[c].step # "done" => tasks'[c].cancel = tasks[c].cancel,
           tasks'[c].step = "save" => tasks'[c].got = c,
           \A b \in Calls \ {c} : port' = b <=> port = b,
           tasks'[c].step = "listening" <=> port' = c,
           \/ accounts' = accounts
           \/ /\ accounts' = [accounts EXCEPT ![calls[c].of] = "in"]
              /\ tasks'[c].step = "done" /\ tasks'[c].got = c
    PROVE  SignInv'
<1>1. QueueMoves(signLock, signLock', c)
  BY DEF QueueMoves
<1>2. calls[c].op = "login" /\ calls[c].step \notin {"resolve", "lock", "await"}
  BY DEF SignInv, TaskEnded
<1>3. OneSignInStands'
  BY DEF SignInv, OneSignInStands, TaskEnded
<1>4. OwnAuthorization'
  <2>1. CASE accounts' = accounts
    BY <2>1, OwnStays DEF TaskEnded
  <2>2. CASE /\ accounts' = [accounts EXCEPT ![calls[c].of] = "in"]
             /\ tasks'[c].step = "done" /\ tasks'[c].got = c
    <3>1. ASSUME NEW d \in Dids, accounts'[d] = "in"
          PROVE  \E b \in Calls : /\ calls'[b].op = "login" /\ calls'[b].of = d
                                  /\ tasks'[b].step = "done" /\ tasks'[b].got = b
      <4>1. CASE d = calls[c].of
        BY <2>2, <4>1, <1>2
      <4>2. CASE d # calls[c].of
        <5>1. accounts[d] = "in"
          BY <2>2, <3>1, <4>2 DEF SignInv, SignTypeOK
        <5>2. PICK b \in Calls : /\ calls[b].op = "login" /\ calls[b].of = d
                                 /\ tasks[b].step = "done" /\ tasks[b].got = b
          BY <5>1 DEF SignInv, OwnAuthorization
        <5> QED
          BY <5>2 DEF TaskEnded
      <4> QED
        BY <4>1, <4>2
    <3> QED
      BY <3>1 DEF OwnAuthorization
  <2> QED
    BY <2>1, <2>2
<1>5. \A b \in Calls : tasks'[b].step # "none" =>
              calls'[b].op = "login" /\ calls'[b].step \notin {"resolve", "lock", "await"}
  BY <1>2 DEF SignInv
<1>6. \A b \in Calls : tasks'[b].step = "save" => tasks'[b].got = b
  BY DEF SignInv
<1>7. calls'[c].op = "login" /\ calls'[c].of \in Dids /\ calls'[c].step # "await"
  BY <1>2 DEF SignInv
<1> QED
  BY <1>1, <1>3, <1>4, <1>5, <1>6, <1>7, SignStepKeeps DEF At

TaskType == [step : {"none", "born", "listening", "exchange", "save", "done"},
             cancel : BOOLEAN, prev : 0..Requests, got : 0..Requests]

LEMMA FinishFacts ==
    ASSUME SignInv, CallsTypeOK, NEW c \in Calls, NEW task \in TaskType,
           NEW outcome \in {"ok", "failed"}, Finish(c, task, outcome)
    PROVE  /\ CallsTypeOK'
           /\ \A b \in Calls \ {c} : calls'[b] = calls[b] /\ tasks'[b] = tasks[b]
           /\ calls'[c].op = calls[c].op /\ calls'[c].of = calls[c].of
           /\ calls'[c].step \in {calls[c].step, "ok", "failed"}
           /\ tasks' \in [Calls -> TaskType]
           /\ tasks'[c].step = "done" /\ tasks'[c].got = task.got
           /\ port' \in 0..Requests /\ port' # c
           /\ \A b \in Calls \ {c} : port' = b <=> port = b
<1>1. /\ tasks' = [tasks EXCEPT ![c] = [task EXCEPT !.step = "done", !.prev = 0]]
      /\ port' = IF port = c THEN 0 ELSE port
      /\ IF calls[c].step = "stream" THEN To(c, outcome) ELSE UNCHANGED <<calls, left>>
  BY DEF Finish
<1>2. tasks \in [Calls -> TaskType] /\ port \in 0..Requests
  BY DEF SignInv, SignTypeOK, TaskType
<1>3. [task EXCEPT !.step = "done", !.prev = 0] \in TaskType
  <2>1. 0 \in 0..Requests
    OBVIOUS
  <2> QED
    BY <2>1 DEF TaskType
<1>4. /\ tasks' \in [Calls -> TaskType]
      /\ \A b \in Calls \ {c} : tasks'[b] = tasks[b]
      /\ tasks'[c].step = "done" /\ tasks'[c].got = task.got
  <2>1. tasks'[c] = [task EXCEPT !.step = "done", !.prev = 0]
    BY <1>1, <1>2
  <2> QED
    BY <1>1, <1>2, <1>3, <2>1 DEF TaskType
<1>5. /\ CallsTypeOK'
      /\ \A b \in Calls \ {c} : calls'[b] = calls[b]
      /\ calls'[c].op = calls[c].op /\ calls'[c].of = calls[c].of
      /\ calls'[c].step \in {calls[c].step, "ok", "failed"}
  <2>1. CASE To(c, outcome)
    BY <2>1, ToFacts DEF Steps, Ended
  <2>2. CASE UNCHANGED <<calls, left>>
    BY <2>2 DEF CallsTypeOK
  <2> QED
    BY <1>1, <2>1, <2>2
<1>6. port' \in 0..Requests /\ port' # c /\ \A b \in Calls \ {c} : port' = b <=> port = b
  BY <1>1, <1>2 DEF Calls
<1> QED
  BY <1>4, <1>5, <1>6

\* A task that finishes without storing anything.
LEMMA FinishKeeps ==
    ASSUME SignInv, CallsTypeOK, NEW c \in Calls, ~TaskEnded(c), NEW task \in TaskType,
           NEW outcome \in {"ok", "failed"}, Finish(c, task, outcome),
           UNCHANGED <<slot, signLock, accounts>>, browser' \subseteq Calls
    PROVE  SignInv' /\ CallsTypeOK'
<1>1. SignTypeOK'
  BY FinishFacts DEF SignInv, SignTypeOK, TaskType
<1> QED
  BY <1>1, FinishFacts, SignTaskKeeps

\* The fields of a task that a step sets.
LEMMA SetFacts ==
    ASSUME SignInv, NEW c \in Calls, NEW new \in TaskType, tasks' = [tasks EXCEPT ![c] = new]
    PROVE  /\ tasks' \in [Calls -> TaskType]
           /\ tasks'[c] = new
           /\ \A b \in Calls \ {c} : tasks'[b] = tasks[b]
BY DEF SignInv, SignTypeOK, TaskType

LEMMA ListenKeeps ==
    ASSUME SignInv, CallsTypeOK, NEW c \in Calls, Listen(c)
    PROVE  SignInv' /\ CallsTypeOK'
<1>1. /\ tasks[c].step = "born" /\ ~TaskEnded(c) /\ SignTypeOK
      /\ UNCHANGED <<slot, signLock, browser, accounts>>
      /\ tasks[c] \in TaskType
  BY DEF Listen, TaskEnded, SignInv, SignTypeOK, TaskType
<1>2. CASE Finish(c, tasks[c], "failed")
  BY <1>1, <1>2, FinishKeeps DEF SignTypeOK
<1>3. CASE /\ port = 0 /\ port' = c /\ UNCHANGED <<calls, left>>
           /\ tasks' = [tasks EXCEPT ![c].step = "listening"]
  <2>1. [tasks[c] EXCEPT !.step = "listening"] \in TaskType
    BY <1>1 DEF TaskType
  <2>2. /\ tasks' \in [Calls -> TaskType]
        /\ tasks'[c] = [tasks[c] EXCEPT !.step = "listening"]
        /\ \A b \in Calls \ {c} : tasks'[b] = tasks[b]
    BY <1>3, <2>1, SetFacts
  <2>3. tasks'[c].step = "listening" /\ tasks'[c].cancel = tasks[c].cancel
    BY <1>1, <2>2 DEF TaskType
  <2>4. SignTypeOK' /\ CallsTypeOK'
    BY <1>1, <1>3, <2>2 DEF SignTypeOK, CallsTypeOK, TaskType, Calls
  <2>5. \A b \in Calls \ {c} : port' = b <=> port = b
    BY <1>3 DEF Calls
  <2> QED
    BY <1>1, <1>3, <2>2, <2>3, <2>4, <2>5, SignTaskKeeps
<1> QED
  BY <1>2, <1>3 DEF Listen

LEMMA LoginTimeoutKeeps ==
    ASSUME SignInv, CallsTypeOK, NEW c \in Calls, LoginTimeout(c)
    PROVE  SignInv' /\ CallsTypeOK'
<1>1. /\ ~TaskEnded(c) /\ Finish(c, tasks[c], "failed")
      /\ UNCHANGED <<slot, signLock, browser, accounts>>
      /\ tasks[c] \in TaskType /\ browser' \subseteq Calls
  BY DEF LoginTimeout, TaskEnded, SignInv, SignTypeOK, TaskType
<1> QED
  BY <1>1, FinishKeeps

LEMMA CancelledKeeps ==
    ASSUME SignInv, CallsTypeOK, NEW c \in Calls, Cancelled(c)
    PROVE  SignInv' /\ CallsTypeOK'
<1>1. /\ ~TaskEnded(c) /\ Finish(c, [tasks[c] EXCEPT !.got = 0], "failed")
      /\ UNCHANGED <<slot, signLock, browser, accounts>>
      /\ tasks[c] \in TaskType /\ browser' \subseteq Calls
  BY DEF Cancelled, SignInv, SignTypeOK, TaskType
<1>2. [tasks[c] EXCEPT !.got = 0] \in TaskType
  <2>1. 0 \in 0..Requests
    OBVIOUS
  <2> QED
    BY <1>1, <2>1 DEF TaskType
<1> QED
  BY <1>1, <1>2, FinishKeeps

\* Only its own state makes a session.
LEMMA ExchangeKeeps ==
    ASSUME SignInv, CallsTypeOK, NEW c \in Calls, Exchange(c)
    PROVE  SignInv' /\ CallsTypeOK'
<1>1. /\ tasks[c].step = "exchange" /\ ~TaskEnded(c) /\ SignTypeOK
      /\ UNCHANGED <<slot, signLock, browser, accounts>>
      /\ tasks[c] \in TaskType
  BY DEF Exchange, TaskEnded, SignInv, SignTypeOK, TaskType
<1>2. CASE Finish(c, tasks[c], "failed")
  BY <1>1, <1>2, FinishKeeps DEF SignTypeOK
<1>3. CASE /\ tasks[c].got = c /\ UNCHANGED <<calls, left, port>>
           /\ tasks' = [tasks EXCEPT ![c].step = "save"]
  <2>1. [tasks[c] EXCEPT !.step = "save"] \in TaskType
    BY <1>1 DEF TaskType
  <2>2. /\ tasks' \in [Calls -> TaskType]
        /\ tasks'[c] = [tasks[c] EXCEPT !.step = "save"]
        /\ \A b \in Calls \ {c} : tasks'[b] = tasks[b]
    BY <1>3, <2>1, SetFacts
  <2>3. tasks'[c].step = "save" /\ tasks'[c].cancel = tasks[c].cancel /\ tasks'[c].got = c
    BY <1>1, <1>3, <2>2 DEF TaskType
  <2>4. SignTypeOK' /\ CallsTypeOK'
    BY <1>1, <1>3, <2>2 DEF SignTypeOK, CallsTypeOK, TaskType
  <2>5. port # c
    BY <1>1 DEF SignInv, OneSignInStands
  <2> QED
    BY <1>1, <1>3, <2>2, <2>3, <2>4, <2>5, SignTaskKeeps
<1> QED
  BY <1>2, <1>3 DEF Exchange

LEMMA SaveAccountKeeps ==
    ASSUME SignInv, CallsTypeOK, NEW c \in Calls, SaveAccount(c)
    PROVE  SignInv' /\ CallsTypeOK'
<1>1. /\ tasks[c].step = "save" /\ ~TaskEnded(c) /\ SignTypeOK
      /\ UNCHANGED <<slot, signLock, browser>> /\ Finish(c, tasks[c], "ok")
      /\ accounts' = [accounts EXCEPT ![calls[c].of] = "in"]
      /\ tasks[c] \in TaskType /\ tasks[c].got = c
  BY DEF SaveAccount, TaskEnded, SignInv, SignTypeOK, TaskType
<1>2. SignTypeOK'
  BY <1>1, FinishFacts DEF SignTypeOK, TaskType
<1> QED
  BY <1>1, <1>2, FinishFacts, SignTaskKeeps

LEMMA SignFailsKeeps ==
    ASSUME SignInv, CallsTypeOK, NEW c \in Calls, SignFails(c)
    PROVE  SignInv' /\ CallsTypeOK'
<1>1. /\ tasks[c].step \in {"exchange", "save"} /\ ~TaskEnded(c) /\ SignTypeOK
      /\ UNCHANGED <<slot, signLock, port, browser, accounts>>
      /\ tasks[c] \in TaskType
      /\ tasks' = [tasks EXCEPT ![c] = [tasks[c] EXCEPT !.step = "done", !.got = 0]]
      /\ left > 0 /\ left' = left - 1
      /\ calls' = [calls EXCEPT ![c].step = IF @ = "stream" THEN "failed" ELSE @]
  BY DEF SignFails, TaskEnded, SignInv, SignTypeOK, TaskType
<1>2. [tasks[c] EXCEPT !.step = "done", !.got = 0] \in TaskType
  <2>1. 0 \in 0..Requests
    OBVIOUS
  <2> QED
    BY <1>1, <2>1 DEF TaskType
<1>3. /\ tasks' \in [Calls -> TaskType]
      /\ tasks'[c] = [tasks[c] EXCEPT !.step = "done", !.got = 0]
      /\ \A b \in Calls \ {c} : tasks'[b] = tasks[b]
  BY <1>1, <1>2, SetFacts
<1>4. tasks'[c].step = "done"
  BY <1>1, <1>3 DEF TaskType
<1>5. /\ CallsTypeOK' /\ \A b \in Calls \ {c} : calls'[b] = calls[b]
      /\ calls'[c].op = calls[c].op /\ calls'[c].of = calls[c].of
      /\ calls'[c].step \in {calls[c].step, "failed"}
  BY <1>1 DEF CallsTypeOK, Steps, Ended
<1>6. SignTypeOK' /\ port # c
  BY <1>1, <1>3 DEF SignInv, SignTypeOK, TaskType, OneSignInStands
<1> QED
  BY <1>1, <1>3, <1>4, <1>5, <1>6, SignTaskKeeps

\* A callback goes to the task that listens, whoever asked for it.
LEMMA CallbackKeeps ==
    ASSUME SignInv, CallsTypeOK, NEW u \in Calls, Callback(u)
    PROVE  SignInv' /\ CallsTypeOK'
<1>1. /\ UNCHANGED <<slot, signLock, accounts>> /\ SignTypeOK
      /\ browser' \subseteq Calls
  BY DEF Callback, SignInv, SignTypeOK
<1>2. CASE UNCHANGED <<calls, left, tasks, port>>
  <2>1. QueueMoves(signLock, signLock', u) /\ CallsTypeOK'
    BY <1>1, <1>2 DEF QueueMoves, CallsTypeOK
  <2>2. At(u, "login", "await")' => Holds(signLock', u) /\ slot = 0
    BY <1>1, <1>2 DEF SignInv, HoldsSign, Holds, At
  <2>3. /\ calls[u].op = "login" => calls[u].of \in Dids
        /\ tasks[u].step # "none" => calls[u].step \notin {"resolve", "lock", "await"}
    BY DEF SignInv
  <2> QED
    BY <1>1, <1>2, <2>1, <2>2, <2>3, SignCallKeeps
<1>3. CASE port # 0
  <2>1. PICK c \in Calls : c = port
    BY <1>1, <1>3 DEF SignTypeOK, Calls
  <2>2. tasks[c].step = "listening" /\ ~TaskEnded(c) /\ tasks[c] \in TaskType
    BY <1>1, <2>1 DEF SignInv, OneSignInStands, TaskEnded, SignTypeOK, TaskType
  <2>3. CASE Finish(c, tasks[c], "failed")
    BY <1>1, <2>2, <2>3, FinishKeeps
  <2>4. CASE /\ tasks' = [tasks EXCEPT ![c] = [tasks[c] EXCEPT !.step = "exchange", !.got = u]]
             /\ port' = 0 /\ UNCHANGED <<calls, left>>
    <3>1. [tasks[c] EXCEPT !.step = "exchange", !.got = u] \in TaskType
      <4>1. u \in 0..Requests
        BY DEF Calls
      <4> QED
        BY <2>2, <4>1 DEF TaskType
    <3>2. /\ tasks' \in [Calls -> TaskType]
          /\ tasks'[c] = [tasks[c] EXCEPT !.step = "exchange", !.got = u]
          /\ \A b \in Calls \ {c} : tasks'[b] = tasks[b]
      BY <2>4, <3>1, SetFacts
    <3>3. tasks'[c].step = "exchange" /\ tasks'[c].cancel = tasks[c].cancel
      BY <2>2, <3>2 DEF TaskType
    <3>4. SignTypeOK' /\ CallsTypeOK'
      BY <1>1, <2>4, <3>2 DEF SignTypeOK, CallsTypeOK, TaskType
    <3>5. port' # c /\ \A b \in Calls \ {c} : port' = b <=> port = b
      BY <2>1, <2>4 DEF Calls
    <3> QED
      BY <1>1, <2>2, <2>4, <3>2, <3>3, <3>4, <3>5, SignTaskKeeps
  <2> QED
    BY <1>3, <2>1, <2>3, <2>4 DEF Callback
<1> QED
  BY <1>2, <1>3 DEF Callback

LEMMA AuthorizeKeeps ==
    ASSUME SignInv, CallsTypeOK, NEW c \in Calls, Authorize(c)
    PROVE  SignInv' /\ CallsTypeOK'
<1>1. /\ UNCHANGED <<calls, left, slot, signLock, tasks, port, accounts>>
      /\ browser' \subseteq Calls
  BY DEF Authorize, SignInv, SignTypeOK
<1>2. QueueMoves(signLock, signLock', c) /\ CallsTypeOK'
  BY <1>1 DEF QueueMoves, CallsTypeOK
<1>3. At(c, "login", "await")' => Holds(signLock', c) /\ slot = 0
  BY <1>1 DEF SignInv, HoldsSign, Holds, At
<1>4. /\ calls[c].op = "login" => calls[c].of \in Dids
      /\ tasks[c].step # "none" => calls[c].step \notin {"resolve", "lock", "await"}
  BY DEF SignInv
<1> QED
  BY <1>1, <1>2, <1>3, <1>4, SignCallKeeps

\* The drop guard of a stream stops the task; before it there is none.
LEMMA LoginLeavesKeeps ==
    ASSUME SignInv, CallsTypeOK, NEW c \in Calls, LoginLeaves(c)
    PROVE  SignInv' /\ CallsTypeOK'
<1> DEFINE streams == calls[c].step = "stream"
           new == [tasks[c] EXCEPT !.cancel = streams]
<1>1. /\ calls[c].op = "login" /\ calls[c].step \in {"resolve", "lock", "await", "stream"}
      /\ UNCHANGED <<slot, port, browser, accounts>> /\ SignTypeOK
      /\ Fails(c, "left") /\ signLock' = Without(signLock, c)
      /\ tasks' = [tasks EXCEPT ![c] = new]
      /\ tasks[c] \in TaskType
  BY DEF LoginLeaves, SignInv, SignTypeOK, TaskType
<1>2. /\ CallsTypeOK' /\ \A b \in Calls \ {c} : calls'[b] = calls[b]
      /\ calls'[c].step = "left" /\ calls'[c].op = calls[c].op /\ calls'[c].of = calls[c].of
  BY <1>1, FailsFacts DEF Steps, Ended
<1>3. new \in TaskType /\ streams \in BOOLEAN
  BY <1>1 DEF TaskType
<1>4. /\ tasks' \in [Calls -> TaskType] /\ tasks'[c] = new
      /\ \A b \in Calls \ {c} : tasks'[b] = tasks[b]
  BY <1>1, <1>3, SetFacts
<1>5. tasks'[c].step = tasks[c].step /\ tasks'[c].got = tasks[c].got /\ tasks'[c].cancel = streams
  BY <1>1, <1>3, <1>4 DEF TaskType
<1>6. tasks[c].step # "none" => streams
  BY <1>1 DEF SignInv
<1> HIDE DEF streams, new
<1>7. QueueMoves(signLock, signLock', c)
  BY <1>1 DEF QueueMoves
<1>8. SignTypeOK'
  BY <1>1, <1>4, <1>7, QueueKeeps DEF SignTypeOK, TaskType
<1>9. OneSignInStands'
  BY <1>1, <1>4, <1>5, <1>6 DEF SignInv, OneSignInStands, TaskEnded
<1>10. OwnAuthorization'
  BY <1>1, <1>2, <1>4, <1>5, OwnStays
<1>11. \A b \in Calls : tasks'[b].step # "none" =>
              calls'[b].op = "login" /\ calls'[b].step \notin {"resolve", "lock", "await"}
  BY <1>1, <1>2, <1>4, <1>5 DEF SignInv
<1>12. \A b \in Calls : tasks'[b].step = "save" => tasks'[b].got = b
  BY <1>4, <1>5 DEF SignInv
<1>13. calls[c].of \in Dids /\ ~At(c, "login", "await")'
  BY <1>1, <1>2 DEF SignInv, At
<1> QED
  BY <1>1, <1>2, <1>7, <1>8, <1>9, <1>10, <1>11, <1>12, <1>13, SignStepKeeps

LEMMA SignKeeps ==
    ASSUME SignInv, CallsTypeOK, NEW c \in Calls, Sign(c)
    PROVE  SignInv' /\ CallsTypeOK'
BY SignAskKeeps, ResolveKeeps, TakeOverKeeps, BeginKeeps, LogoutFindKeeps, LogoutWriteKeeps,
   ListenKeeps, LoginTimeoutKeeps, ExchangeKeeps, SaveAccountKeeps, CancelledKeeps,
   LoginLeavesKeeps, SignFailsKeeps, AuthorizeKeeps, CallbackKeeps
   DEF Sign, SignStep, SignTask, SignFault, UserStep
-------------------------------------------------------------------------------
(* The share, its panel, and the switch of the inference server: types *)

LEMMA ShareAskTypes ==
    ASSUME ShareTypeOK, CallsTypeOK, NEW c \in Calls, ShareAsk(c) \/ PanelAsk(c)
    PROVE  ShareTypeOK' /\ CallsTypeOK'
<1>1. 0 \in 0..Requests \cup Dids /\ c \in 0..Requests
  BY DEF Calls
<1>2. CallsTypeOK'
  BY <1>1, ArrivesFacts DEF ShareAsk, PanelAsk, Steps
<1>3. CASE ShareAsk(c)
  BY <1>2, <1>3 DEF ShareAsk, ShareTypeOK, shareVars
<1>4. CASE PanelAsk(c)
  <2>1. /\ UNCHANGED <<remote, unsharing, loops>>
        /\ panel' = [panel EXCEPT !.busy = c]
    BY <1>4 DEF PanelAsk
  <2> QED
    BY <1>1, <1>2, <2>1 DEF ShareTypeOK
<1> QED
  BY <1>3, <1>4

LEMMA ShareStepTypes ==
    ASSUME ShareTypeOK, CallsTypeOK, NEW c \in Calls, ShareStep(c)
    PROVE  ShareTypeOK' /\ CallsTypeOK'
<1>1. 0 \in 0..Requests /\ c \in 0..Requests
  BY DEF Calls
<1>2. CASE ShareCheck(c)
  BY <1>2, ToFacts DEF ShareCheck, ShareTypeOK, shareVars, Steps, Ended
<1>3. CASE ShareCreated(c)
  BY <1>3, ToFacts DEF ShareCreated, ShareTypeOK, Steps
<1>4. CASE ShareTicket(c)
  BY <1>1, <1>4, ToFacts DEF ShareTicket, ShareTypeOK, Steps
<1>5. CASE ShareRunning(c)
  BY <1>5, ToFacts DEF ShareRunning, ShareTypeOK, Steps
<1>6. CASE ShareStore(c)
  BY <1>1, <1>6, ToFacts DEF ShareStore, ShareTypeOK, Steps, Ended
<1>7. CASE Unshare(c)
  <2>1. CallsTypeOK'
    BY <1>7, ToFacts DEF Unshare, Steps
  <2> QED
    BY <1>1, <1>7, <2>1 DEF Unshare, ShareTypeOK
<1>8. CASE UnshareRunning(c)
  BY <1>8, ToFacts DEF UnshareRunning, ShareTypeOK, Steps
<1>9. CASE UnshareTicket(c)
  BY <1>1, <1>9, ToFacts DEF UnshareTicket, ShareTypeOK, Steps, Ended
<1> QED
  BY <1>2, <1>3, <1>4, <1>5, <1>6, <1>7, <1>8, <1>9 DEF ShareStep

LEMMA ShareTaskTypes ==
    ASSUME ShareTypeOK, CallsTypeOK, NEW c \in Calls, ShareTask(c) \/ ShareFault(c)
    PROVE  ShareTypeOK' /\ CallsTypeOK'
<1>1. CASE LoopStops(c)
  BY <1>1 DEF LoopStops, ShareTypeOK, CallsTypeOK
<1>2. CASE ShareFails(c)
  BY <1>2, FailsFacts DEF ShareFails, ShareTypeOK, shareVars, Steps, Ended
<1>3. CASE ShareLeaves(c)
  BY <1>3, FailsFacts DEF ShareLeaves, ShareTypeOK, shareVars, Steps, Ended
<1>4. CASE LoopFails(c)
  BY <1>4 DEF LoopFails, ShareTypeOK, CallsTypeOK
<1> QED
  BY <1>1, <1>2, <1>3, <1>4 DEF ShareTask, ShareFault

LEMMA StatusFacts ==
    ASSUME ShareTypeOK
    PROVE  RemoteStatus \in Shown /\ Unknown \in Shown /\ Off \in Shown
           /\ \A c \in 0..Requests : Shows("sharing", c) \in Shown
<1>1. \A what \in {"unknown", "off", "sharing"}, ticket \in 0..Requests :
        Shows(what, ticket) \in Shown
  BY DEF Shows, Shown
<1>2. 0 \in 0..Requests /\ remote.ticket \in 0..Requests
  BY DEF ShareTypeOK
<1> QED
  BY <1>1, <1>2 DEF RemoteStatus, Unknown, Off

LEMMA PanelTypes ==
    ASSUME ShareTypeOK, CallsTypeOK, PanelStep
    PROVE  ShareTypeOK' /\ CallsTypeOK'
<1>1. /\ UNCHANGED <<calls, left, remote, unsharing, loops>>
      /\ panel.busy \in 0..Requests /\ 0 \in 0..Requests
      /\ panel.shows \in Shown /\ panel.read \in Shown
  BY DEF PanelStep, PanelAnswered, PollAsks, PollAnswered, PollShows, ShareTypeOK
<1>2. CallsTypeOK'
  BY <1>1 DEF CallsTypeOK
<1>3. CASE PanelAnswered
  <2>1. PICK shows \in Shown : panel' = [panel EXCEPT !.busy = 0, !.shows = shows]
    BY <1>1, <1>3, StatusFacts DEF PanelAnswered
  <2> QED
    BY <1>1, <1>2, <2>1 DEF ShareTypeOK
<1>4. CASE PollAsks
  BY <1>1, <1>2, <1>4 DEF PollAsks, ShareTypeOK
<1>5. CASE PollAnswered
  <2>1. PICK read \in Shown : panel' = [panel EXCEPT !.poll = "read", !.read = read]
    BY <1>5, StatusFacts DEF PollAnswered
  <2> QED
    BY <1>1, <1>2, <2>1 DEF ShareTypeOK
<1>6. CASE PollShows
  <2>1. PICK read \in Shown :
          panel' = [panel EXCEPT !.poll = "idle", !.shows = panel.read, !.read = read]
    BY <1>6, StatusFacts DEF PollShows
  <2> QED
    BY <1>1, <1>2, <2>1 DEF ShareTypeOK
<1> QED
  BY <1>3, <1>4, <1>5, <1>6 DEF PanelStep

LEMMA ShareTypes ==
    ASSUME ShareTypeOK, CallsTypeOK, NEW c \in Calls, Share(c)
    PROVE  ShareTypeOK' /\ CallsTypeOK'
BY ShareAskTypes, ShareStepTypes, ShareTaskTypes DEF Share

\* A switch whose fields are set as they may be is a switch; likewise a poll.
LEMMA BeganFacts ==
    ASSUME NEW s \in SwitchType, NEW op
    PROVE  Began(s, op) \in SwitchType
BY DEF Began, SwitchType

LEMMA SendFacts ==
    ASSUME NEW op \in PowerOps, SendTurn(op)
    PROVE  turn' \in TurnType
BY DEF SendTurn, TurnType

LEMMA OverlapsFacts ==
    ASSUME poll \in PollType, NEW op \in PowerOps, Overlaps(op)
    PROVE  poll' \in PollType
BY DEF Overlaps, PollType

LEMMA AcrossFacts ==
    ASSUME asked \in AskedType, NEW what \in {"ping", "given up", "died", "timeout"}, Across(what)
    PROVE  asked' \in AskedType
BY DEF Across, AskedType

LEMMA TapTypes ==
    ASSUME PowerTypeOK, CallsTypeOK, NEW c \in Calls, Tap(c)
    PROVE  PowerTypeOK' /\ CallsTypeOK'
<1>1. /\ UNCHANGED server /\ 0 \in 0..Requests \cup Dids
      /\ switch \in SwitchType /\ poll \in PollType /\ turn \in TurnType /\ asked \in AskedType
  BY DEF Tap, PowerTypeOK
<1>2. PICK op \in PowerOps :
        LET wants == [switch EXCEPT !.desired = op, !.age = "new"] IN
        /\ asked' = [asked EXCEPT !.op = op, !.across = @ \cap {"timeout"}]
        /\ IF turn # NoTurn
             THEN Arrives(c, "tap", "failed", 0) /\ switch' = wants /\ UNCHANGED <<poll, turn>>
             ELSE /\ Arrives(c, "tap", "sent", 0)
                  /\ SendTurn(op) /\ Overlaps(op) /\ switch' = Began(wants, op)
  BY DEF Tap
<1>3. CallsTypeOK'
  BY <1>1, <1>2, ArrivesFacts DEF Steps, Ended
<1>4. [switch EXCEPT !.desired = op, !.age = "new"] \in SwitchType
  BY <1>1 DEF SwitchType
<1>5. switch' \in SwitchType
  BY <1>2, <1>4, BeganFacts
<1>6. turn' \in TurnType
  BY <1>1, <1>2, SendFacts
<1>7. asked' \in AskedType
  BY <1>1, <1>2 DEF AskedType
<1>8. poll' \in PollType
  BY <1>1, <1>2, OverlapsFacts
<1> QED
  BY <1>1, <1>3, <1>5, <1>6, <1>7, <1>8 DEF PowerTypeOK

LEMMA TurnTypes ==
    ASSUME PowerTypeOK, CallsTypeOK, Serve \/ Served \/ Turned \/ TurnFails
    PROVE  PowerTypeOK' /\ CallsTypeOK'
<1>1. switch \in SwitchType /\ poll \in PollType /\ turn \in TurnType /\ asked \in AskedType
  BY DEF PowerTypeOK
<1>2. CASE Serve
  <2>1. turn' \in TurnType
    BY <1>1, <1>2 DEF Serve, TurnType
  <2> QED
    BY <1>2, <2>1 DEF Serve, PowerTypeOK, CallsTypeOK
<1>3. CASE Served
  <2>1. turn' \in TurnType
    BY <1>1, <1>3 DEF Served, TurnType
  <2> QED
    BY <1>3, <2>1 DEF Served, PowerTypeOK, CallsTypeOK
<1>4. CASE Turned
  <2>1. CallsTypeOK'
    BY <1>4 DEF Turned, CallsTypeOK, Steps, Ended
  <2>2. switch' \in SwitchType
    BY <1>1, <1>4 DEF Turned, SwitchType
  <2>3. poll' \in PollType
    BY <1>1, <1>4 DEF Turned, PollType
  <2>4. turn' \in TurnType
    BY <1>4 DEF Turned, NoTurn, TurnType
  <2> QED
    BY <1>4, <2>1, <2>2, <2>3, <2>4 DEF Turned, PowerTypeOK
<1>5. CASE TurnFails
  <2>1. asked' \in AskedType
    BY <1>1, <1>5, AcrossFacts DEF TurnFails
  <2>2. turn' \in TurnType
    BY <1>1, <1>5 DEF TurnFails, TurnType
  <2> QED
    BY <1>5, <2>1, <2>2 DEF TurnFails, PowerTypeOK, CallsTypeOK
<1> QED
  BY <1>2, <1>3, <1>4, <1>5

LEMMA PollTypes ==
    ASSUME PowerTypeOK, CallsTypeOK, PollPings \/ PollJudges \/ PollSets \/ PollUnknown
    PROVE  PowerTypeOK' /\ CallsTypeOK'
<1>1. switch \in SwitchType /\ poll \in PollType /\ turn \in TurnType /\ asked \in AskedType
  BY DEF PowerTypeOK
<1>2. CASE PollPings
  <2>1. poll' \in PollType
    BY <1>1, <1>2 DEF PollPings, PollType
  <2> QED
    BY <1>2, <2>1 DEF PollPings, PowerTypeOK, CallsTypeOK
<1>3. CASE PollJudges
  <2>1. poll' \in PollType
    BY <1>1, <1>3 DEF PollJudges, PollType
  <2>2. switch' \in SwitchType
    BY <1>1, <1>3 DEF PollJudges, SwitchType
  <2> QED
    BY <1>3, <2>1, <2>2 DEF PollJudges, PowerTypeOK, CallsTypeOK
<1>4. CASE PollSets
  <2> DEFINE shown == [switch EXCEPT !.power = poll.power]
  <2>1. shown \in SwitchType /\ [shown EXCEPT !.desired = "none"] \in SwitchType
    BY <1>1 DEF SwitchType, PollType
  <2>2. switch' \in SwitchType
    BY <1>4, <2>1, BeganFacts DEF PollSets
  <2>3. poll' \in PollType
    <3>1. Idle => poll' \in PollType
      BY <1>1 DEF Idle, PollType
    <3>2. Idle \/ poll' = [step |-> "turning", up |-> FALSE, power |-> "unknown", during |-> {}]
      BY <1>4 DEF PollSets
    <3>3. [step |-> "turning", up |-> FALSE, power |-> "unknown", during |-> {}] \in PollType
      BY DEF PollType
    <3> QED
      BY <3>1, <3>2, <3>3
  <2>4. turn' \in TurnType
    <3>1. turn' = turn \/ (switch.desired # "none" /\ SendTurn(switch.desired))
      BY <1>4 DEF PollSets
    <3>2. switch.desired # "none" => switch.desired \in PowerOps
      BY <1>1 DEF SwitchType
    <3> QED
      BY <1>1, <3>1, <3>2, SendFacts
  <2>5. UNCHANGED <<calls, left, server>>
    BY <1>4 DEF PollSets
  <2>6. asked' \in AskedType
    <3>1. asked' = asked \/ Across("given up") \/ Across("ping")
      BY <1>4 DEF PollSets
    <3> QED
      BY <1>1, <3>1, AcrossFacts
  <2> QED
    BY <2>2, <2>3, <2>4, <2>5, <2>6 DEF PowerTypeOK, CallsTypeOK
<1>5. CASE PollUnknown
  <2>1. asked' \in AskedType
    BY <1>1, <1>5, AcrossFacts DEF PollUnknown
  <2>2. switch' \in SwitchType
    BY <1>5 DEF PollUnknown, SwitchType
  <2>3. CallsTypeOK'
    <3>1. calls' = calls /\ left > 0 /\ left' = left - 1
      BY <1>5 DEF PollUnknown
    <3> QED
      BY <3>1 DEF CallsTypeOK
  <2> QED
    BY <1>5, <2>1, <2>2, <2>3 DEF PollUnknown, PowerTypeOK
<1> QED
  BY <1>2, <1>3, <1>4, <1>5

LEMMA PowerTypes ==
    ASSUME PowerTypeOK, CallsTypeOK, PowerStep \/ PowerFault
    PROVE  PowerTypeOK' /\ CallsTypeOK'
<1>1. switch \in SwitchType /\ poll \in PollType /\ turn \in TurnType /\ asked \in AskedType
  BY DEF PowerTypeOK
<1>2. CASE ReadyTimeout \/ ReconcileTimeout
  <2>1. switch' \in SwitchType
    BY <1>1, <1>2 DEF ReadyTimeout, ReconcileTimeout, SwitchType
  <2> QED
    BY <1>2, <2>1 DEF ReadyTimeout, ReconcileTimeout, PowerTypeOK, CallsTypeOK
<1>3. CASE ServerGoesOn
  BY <1>3 DEF ServerGoesOn, PowerTypeOK, CallsTypeOK
<1>4. CASE ServerDies
  <2>1. asked' \in AskedType
    BY <1>1, <1>4, AcrossFacts DEF ServerDies
  <2>2. poll' \in PollType
    BY <1>1, <1>4, OverlapsFacts DEF ServerDies, PowerOps
  <2> QED
    BY <1>4, <2>1, <2>2 DEF ServerDies, PowerTypeOK, CallsTypeOK
<1> QED
  BY <1>2, <1>3, <1>4, TurnTypes, PollTypes DEF PowerStep, PowerFault
-------------------------------------------------------------------------------
(* The proxy of a share's peers: what is on its way was sent *)

Ends == {"open", "fin", "cut"}
CopyStates == {"none", "copying", "done", "failed", "dropped"}
ProxyStates == {"none", "connecting", "on", "ended"}
PipeType == [n : Nat, end : Ends, read : BOOLEAN]

CP == <<"client", "peer">>
PH == <<"peer", "host">>
HS == <<"host", "server">>
SH == <<"server", "host">>
HP == <<"host", "peer">>
PC == <<"peer", "client">>

AsksWithin(p, c, b) == p[CP].n + p[PH].n + p[HS].n + b.got <= c.sent
RepliesWithin(p, c, b) == p[SH].n + p[HP].n + p[PC].n + c.got <= b.sent

LEMMA CopiesAre ==
    /\ Copies = {<<"client", "peer", "host">>, <<"peer", "host", "server">>,
                 <<"host", "peer", "client">>, <<"server", "host", "peer">>}
    /\ \A k \in Copies : From(k) \in Pipes /\ Into(k) \in Pipes
<1>1. Asks("peer") = <<"client", "peer", "host">> /\ Asks("host") = <<"peer", "host", "server">>
      /\ Replies("peer") = <<"host", "peer", "client">>
      /\ Replies("host") = <<"server", "host", "peer">>
  BY DEF Asks, Replies
<1>2. {Asks(x) : x \in Proxies} = {Asks("peer"), Asks("host")}
      /\ {Replies(x) : x \in Proxies} = {Replies("peer"), Replies("host")}
  BY DEF Proxies
<1> QED
  BY <1>1, <1>2 DEF Copies, Pipes

LEMMA PipesAre ==
    Pipes = {CP, PH, HS, SH, HP, PC}
<1>1. \A k \in Copies : From(k) \in {CP, PH, HS, SH, HP, PC} /\ Into(k) \in {CP, PH, HS, SH, HP, PC}
  BY CopiesAre DEF From, Into, CP, PH, HS, SH, HP, PC
<1>2. /\ From(<<"client", "peer", "host">>) = CP /\ From(<<"peer", "host", "server">>) = PH
      /\ Into(<<"peer", "host", "server">>) = HS /\ From(<<"server", "host", "peer">>) = SH
      /\ From(<<"host", "peer", "client">>) = HP /\ Into(<<"host", "peer", "client">>) = PC
  BY DEF From, Into, CP, PH, HS, SH, HP, PC
<1> QED
  BY <1>1, <1>2, CopiesAre DEF Pipes

LEMMA PipesDiffer ==
    /\ CP # PH /\ CP # HS /\ CP # SH /\ CP # HP /\ CP # PC
    /\ PH # HS /\ PH # SH /\ PH # HP /\ PH # PC
    /\ HS # SH /\ HS # HP /\ HS # PC
    /\ SH # HP /\ SH # PC /\ HP # PC
BY DEF CP, PH, HS, SH, HP, PC

LEMMA ProxyInvFacts ==
    ASSUME ProxyInv
    PROVE  /\ pipes \in [Pipes -> PipeType]
           /\ copies \in [Copies -> CopyStates]
           /\ proxies \in [Proxies -> ProxyStates]
           /\ client \in [at : {"none", "on", "shut", "gone"}, sent : 0..Parts, got : 0..Parts]
           /\ backend \in [at : {"none", "on", "closed"}, sent : 0..Parts, got : 0..Parts]
           /\ AsksWithin(pipes, client, backend)
           /\ RepliesWithin(pipes, client, backend)
BY DEF ProxyInv, ProxyTypeOK, PipeType, Ends, CopyStates, ProxyStates, AsksWithin, RepliesWithin,
       CP, PH, HS, SH, HP, PC

\* Nothing that was sent is ever counted twice, so no pipe holds more than Parts.
LEMMA WithinKeeps ==
    ASSUME ProxyInv,
           pipes' \in [Pipes -> PipeType],
           copies' \in [Copies -> CopyStates],
           proxies' \in [Proxies -> ProxyStates],
           client' \in [at : {"none", "on", "shut", "gone"}, sent : 0..Parts, got : Nat],
           backend' \in [at : {"none", "on", "closed"}, sent : 0..Parts, got : Nat],
           AsksWithin(pipes, client, backend)', RepliesWithin(pipes, client, backend)'
    PROVE  ProxyInv'
<1>1. /\ pipes'[CP].n \in Nat /\ pipes'[PH].n \in Nat /\ pipes'[HS].n \in Nat
      /\ pipes'[SH].n \in Nat /\ pipes'[HP].n \in Nat /\ pipes'[PC].n \in Nat
  BY PipesAre DEF PipeType
<1>2. /\ client'.sent \in 0..2 /\ client'.got \in Nat /\ backend'.sent \in 0..2
      /\ backend'.got \in Nat
  BY DEF Parts
<1>3. /\ pipes'[CP].n \in 0..2 /\ pipes'[PH].n \in 0..2 /\ pipes'[HS].n \in 0..2
      /\ backend'.got \in 0..2
  BY <1>1, <1>2 DEF AsksWithin
<1>4. /\ pipes'[SH].n \in 0..2 /\ pipes'[HP].n \in 0..2 /\ pipes'[PC].n \in 0..2
      /\ client'.got \in 0..2
  <2>1. pipes'[SH].n + pipes'[HP].n + pipes'[PC].n + client'.got <= backend'.sent
    BY DEF RepliesWithin
  <2> QED
    BY <1>1, <1>2, <2>1
<1>5. \A p \in Pipes : pipes'[p] \in [n : 0..Parts, end : {"open", "fin", "cut"}, read : BOOLEAN]
  <2>1. \A p \in Pipes : pipes'[p] \in PipeType /\ pipes'[p].n \in 0..2
    BY <1>3, <1>4, PipesAre
  <2> QED
    BY <2>1 DEF PipeType, Ends, Parts
<1>6. ProxyTypeOK'
  BY <1>3, <1>4, <1>5 DEF ProxyTypeOK, CopyStates, ProxyStates, Parts
<1> QED
  BY <1>6 DEF ProxyInv, AsksWithin, RepliesWithin, CP, PH, HS, SH, HP, PC

\* A step that adds nothing to a pipe.
LEMMA NoMoreKeeps ==
    ASSUME ProxyInv, UNCHANGED <<client, backend>>,
           pipes' \in [Pipes -> PipeType],
           \A p \in Pipes : pipes'[p].n <= pipes[p].n,
           copies' \in [Copies -> CopyStates],
           proxies' \in [Proxies -> ProxyStates]
    PROVE  ProxyInv'
<1>1. \A p \in Pipes : pipes[p].n \in Nat /\ pipes'[p].n \in Nat
  BY ProxyInvFacts DEF PipeType
<1>2. client.sent \in Nat /\ client.got \in Nat /\ backend.sent \in Nat /\ backend.got \in Nat
  BY ProxyInvFacts DEF Parts
<1>3. AsksWithin(pipes, client, backend)' /\ RepliesWithin(pipes, client, backend)'
  BY <1>1, <1>2, PipesAre, ProxyInvFacts DEF AsksWithin, RepliesWithin
<1>4. /\ client' \in [at : {"none", "on", "shut", "gone"}, sent : 0..Parts, got : Nat]
      /\ backend' \in [at : {"none", "on", "closed"}, sent : 0..Parts, got : Nat]
  BY ProxyInvFacts DEF Parts
<1> QED
  BY <1>3, <1>4, WithinKeeps

LEMMA DroppedFacts ==
    ASSUME pipes \in [Pipes -> PipeType], NEW x
    PROVE  /\ Dropped(x) \in [Pipes -> PipeType]
           /\ \A p \in Pipes : Dropped(x)[p].n = pipes[p].n
BY DEF Dropped, PipeType, Ends

LEMMA CutFacts ==
    ASSUME NEW of \in [Pipes -> PipeType]
    PROVE  /\ Cut(of) \in [Pipes -> PipeType]
           /\ \A p \in Pipes : Cut(of)[p].n <= of[p].n
<1>1. [n |-> 0, end |-> "cut", read |-> FALSE] \in PipeType
  BY DEF PipeType, Ends
<1>2. \A p \in Pipes : Cut(of)[p] \in PipeType /\ Cut(of)[p].n <= of[p].n
  BY <1>1 DEF Cut, PipeType
<1> QED
  BY <1>2 DEF Cut

\* Parts put into a pipe or taken out of it.
LEMMA AmountFacts ==
    ASSUME ProxyInv, NEW p \in Pipes, NEW n \in Nat, pipes' = [pipes EXCEPT ![p].n = n]
    PROVE  /\ pipes' \in [Pipes -> PipeType]
           /\ pipes'[p].n = n
           /\ \A q \in Pipes \ {p} : pipes'[q].n = pipes[q].n
BY ProxyInvFacts DEF PipeType
\* A step of the client or the server that changes one pipe, if any.
LEMMA EndsKeep ==
    ASSUME ProxyInv, ClientConnects \/ ClientSends \/ ClientShuts \/ ClientReads
                     \/ ServerReads \/ ServerReplies
    PROVE  ProxyInv'
<1> DEFINE n(p) == pipes[p].n
<1>1. /\ n(CP) \in Nat /\ n(PH) \in Nat /\ n(HS) \in Nat
      /\ n(SH) \in Nat /\ n(HP) \in Nat /\ n(PC) \in Nat
      /\ CP \in Pipes /\ PC \in Pipes /\ HS \in Pipes /\ SH \in Pipes
  BY ProxyInvFacts, PipesAre DEF PipeType
<1>2. /\ client.sent \in 0..2 /\ client.got \in 0..2
      /\ backend.sent \in 0..2 /\ backend.got \in 0..2
  BY ProxyInvFacts DEF Parts
<1>3. /\ n(CP) + n(PH) + n(HS) + backend.got <= client.sent
      /\ n(SH) + n(HP) + n(PC) + client.got <= backend.sent
  BY ProxyInvFacts DEF AsksWithin, RepliesWithin
<1>4. /\ client \in [at : {"none", "on", "shut", "gone"}, sent : 0..Parts, got : Nat]
      /\ backend \in [at : {"none", "on", "closed"}, sent : 0..Parts, got : Nat]
  BY ProxyInvFacts DEF Parts
<1>5. CASE ClientConnects
  <2>1. client' = [client EXCEPT !.at = "on"] /\ UNCHANGED <<pipes, copies, backend>>
        /\ proxies' = [proxies EXCEPT !["peer"] = "connecting"]
    BY <1>5 DEF ClientConnects
  <2>2. proxies' \in [Proxies -> ProxyStates]
    BY <2>1, ProxyInvFacts DEF ProxyStates
  <2>3. /\ client' \in [at : {"none", "on", "shut", "gone"}, sent : 0..Parts, got : Nat]
        /\ client'.sent = client.sent /\ client'.got = client.got
    BY <1>4, <2>1
  <2>4. AsksWithin(pipes, client, backend)' /\ RepliesWithin(pipes, client, backend)'
    BY <2>1, <2>3, ProxyInvFacts DEF AsksWithin, RepliesWithin
  <2> QED
    BY <1>4, <2>1, <2>2, <2>3, <2>4, ProxyInvFacts, WithinKeeps
<1>6. CASE ClientSends
  <2>1. /\ client' = [client EXCEPT !.sent = client.sent + 1] /\ client.sent < 2
        /\ pipes' = [pipes EXCEPT ![CP].n = n(CP) + 1]
        /\ UNCHANGED <<copies, proxies, backend>>
    BY <1>6 DEF ClientSends, Put, SameProxies, CP, Parts
  <2>2. n(CP) + 1 \in Nat
    BY <1>1
  <2>3. /\ pipes' \in [Pipes -> PipeType] /\ pipes'[CP].n = n(CP) + 1
        /\ \A q \in Pipes \ {CP} : pipes'[q].n = n(q)
    BY <1>1, <2>1, <2>2, AmountFacts
  <2>4. /\ client' \in [at : {"none", "on", "shut", "gone"}, sent : 0..Parts, got : Nat]
        /\ client'.sent = client.sent + 1 /\ client'.got = client.got
    BY <1>2, <1>4, <2>1 DEF Parts
  <2>5. /\ pipes'[PH].n = n(PH) /\ pipes'[HS].n = n(HS)
        /\ pipes'[SH].n = n(SH) /\ pipes'[HP].n = n(HP) /\ pipes'[PC].n = n(PC)
    BY <2>3, PipesAre, PipesDiffer
  <2>6. AsksWithin(pipes, client, backend)' /\ RepliesWithin(pipes, client, backend)'
    BY <1>1, <1>2, <1>3, <2>1, <2>3, <2>4, <2>5 DEF AsksWithin, RepliesWithin
  <2> QED
    BY <1>4, <2>1, <2>3, <2>4, <2>6, ProxyInvFacts, WithinKeeps
<1>7. CASE ClientShuts
  <2>1. /\ client' = [client EXCEPT !.at = "shut"] /\ UNCHANGED <<copies, proxies, backend>>
        /\ pipes' = [pipes EXCEPT ![CP].end = "fin"]
    BY <1>7 DEF ClientShuts, SameProxies, CP
  <2>2. /\ pipes' \in [Pipes -> PipeType] /\ \A q \in Pipes : pipes'[q].n = n(q)
    BY <1>1, <2>1, ProxyInvFacts DEF PipeType, Ends
  <2>3. /\ client' \in [at : {"none", "on", "shut", "gone"}, sent : 0..Parts, got : Nat]
        /\ client'.sent = client.sent /\ client'.got = client.got
    BY <1>4, <2>1
  <2>4. AsksWithin(pipes, client, backend)' /\ RepliesWithin(pipes, client, backend)'
    BY <1>3, <2>1, <2>2, <2>3, PipesAre DEF AsksWithin, RepliesWithin
  <2> QED
    BY <1>4, <2>1, <2>2, <2>3, <2>4, ProxyInvFacts, WithinKeeps
<1>8. CASE ClientReads
  <2>1. /\ client' = [client EXCEPT !.got = client.got + 1] /\ n(PC) > 0
        /\ pipes' = [pipes EXCEPT ![PC].n = n(PC) - 1]
        /\ UNCHANGED <<copies, proxies, backend>>
    BY <1>8 DEF ClientReads, SameProxies, PC
  <2>2. n(PC) - 1 \in Nat
    BY <1>1, <2>1
  <2>3. /\ pipes' \in [Pipes -> PipeType] /\ pipes'[PC].n = n(PC) - 1
        /\ \A q \in Pipes \ {PC} : pipes'[q].n = n(q)
    BY <1>1, <2>1, <2>2, AmountFacts
  <2>4. /\ client' \in [at : {"none", "on", "shut", "gone"}, sent : 0..Parts, got : Nat]
        /\ client'.sent = client.sent /\ client'.got = client.got + 1
    BY <1>2, <1>4, <2>1
  <2>5. /\ pipes'[CP].n = n(CP) /\ pipes'[PH].n = n(PH) /\ pipes'[HS].n = n(HS)
        /\ pipes'[SH].n = n(SH) /\ pipes'[HP].n = n(HP)
    BY <2>3, PipesAre, PipesDiffer
  <2>6. AsksWithin(pipes, client, backend)' /\ RepliesWithin(pipes, client, backend)'
    BY <1>1, <1>2, <1>3, <2>1, <2>3, <2>4, <2>5 DEF AsksWithin, RepliesWithin
  <2> QED
    BY <1>4, <2>1, <2>3, <2>4, <2>6, ProxyInvFacts, WithinKeeps
<1>9. CASE ServerReads
  <2>1. /\ backend' = [backend EXCEPT !.got = backend.got + 1] /\ n(HS) > 0
        /\ pipes' = [pipes EXCEPT ![HS].n = n(HS) - 1]
        /\ UNCHANGED <<copies, proxies, client>>
    BY <1>9 DEF ServerReads, SameProxies, HS
  <2>2. n(HS) - 1 \in Nat
    BY <1>1, <2>1
  <2>3. /\ pipes' \in [Pipes -> PipeType] /\ pipes'[HS].n = n(HS) - 1
        /\ \A q \in Pipes \ {HS} : pipes'[q].n = n(q)
    BY <1>1, <2>1, <2>2, AmountFacts
  <2>4. /\ backend' \in [at : {"none", "on", "closed"}, sent : 0..Parts, got : Nat]
        /\ backend'.sent = backend.sent /\ backend'.got = backend.got + 1
    BY <1>2, <1>4, <2>1
  <2>5. /\ pipes'[CP].n = n(CP) /\ pipes'[PH].n = n(PH)
        /\ pipes'[SH].n = n(SH) /\ pipes'[HP].n = n(HP) /\ pipes'[PC].n = n(PC)
    BY <2>3, PipesAre, PipesDiffer
  <2>6. AsksWithin(pipes, client, backend)' /\ RepliesWithin(pipes, client, backend)'
    BY <1>1, <1>2, <1>3, <2>1, <2>3, <2>4, <2>5 DEF AsksWithin, RepliesWithin
  <2> QED
    BY <1>4, <2>1, <2>3, <2>4, <2>6, ProxyInvFacts, WithinKeeps
<1>10. CASE ServerReplies
  <2>1. /\ backend' = [backend EXCEPT !.sent = backend.sent + 1] /\ backend.sent < 2
        /\ pipes' = [pipes EXCEPT ![SH].n = n(SH) + 1]
        /\ UNCHANGED <<copies, proxies, client>>
    BY <1>10 DEF ServerReplies, Put, SameProxies, SH, Parts
  <2>2. n(SH) + 1 \in Nat
    BY <1>1
  <2>3. /\ pipes' \in [Pipes -> PipeType] /\ pipes'[SH].n = n(SH) + 1
        /\ \A q \in Pipes \ {SH} : pipes'[q].n = n(q)
    BY <1>1, <2>1, <2>2, AmountFacts
  <2>4. /\ backend' \in [at : {"none", "on", "closed"}, sent : 0..Parts, got : Nat]
        /\ backend'.sent = backend.sent + 1 /\ backend'.got = backend.got
    BY <1>2, <1>4, <2>1 DEF Parts
  <2>5. /\ pipes'[CP].n = n(CP) /\ pipes'[PH].n = n(PH) /\ pipes'[HS].n = n(HS)
        /\ pipes'[HP].n = n(HP) /\ pipes'[PC].n = n(PC)
    BY <2>3, PipesAre, PipesDiffer
  <2>6. AsksWithin(pipes, client, backend)' /\ RepliesWithin(pipes, client, backend)'
    BY <1>1, <1>2, <1>3, <2>1, <2>3, <2>4, <2>5 DEF AsksWithin, RepliesWithin
  <2> QED
    BY <1>4, <2>1, <2>3, <2>4, <2>6, ProxyInvFacts, WithinKeeps
<1> QED
  BY <1>5, <1>6, <1>7, <1>8, <1>9, <1>10
LEMMA StartsFacts ==
    ASSUME ProxyInv, NEW x \in Proxies, Starts(x) \/ Stops(x)
    PROVE  copies' \in [Copies -> CopyStates] /\ proxies' \in [Proxies -> ProxyStates]
<1>1. copies \in [Copies -> CopyStates] /\ proxies \in [Proxies -> ProxyStates]
  BY ProxyInvFacts
<1>2. CASE Starts(x)
  BY <1>1, <1>2 DEF Starts, CopyStates, ProxyStates
<1>3. CASE Stops(x)
  BY <1>1, <1>3 DEF Stops, CopyStates, ProxyStates
<1> QED
  BY <1>2, <1>3

\* A client or a server that goes takes with it what it has of the pipes.
LEMMA EndsGoKeep ==
    ASSUME ProxyInv, ClientLeaves \/ ServerCloses
    PROVE  ProxyInv'
<1>1. PICK x : pipes' = Dropped(x)
  BY DEF ClientLeaves, ServerCloses
<1>2. /\ UNCHANGED <<copies, proxies>>
      /\ \/ client' = [client EXCEPT !.at = "gone"] /\ UNCHANGED backend
         \/ backend' = [backend EXCEPT !.at = "closed"] /\ UNCHANGED client
  BY DEF ClientLeaves, ServerCloses, SameProxies
<1>3. pipes' \in [Pipes -> PipeType] /\ \A p \in Pipes : pipes'[p].n = pipes[p].n
  BY <1>1, ProxyInvFacts, DroppedFacts
<1>4. /\ client' \in [at : {"none", "on", "shut", "gone"}, sent : 0..Parts, got : 0..Parts]
      /\ backend' \in [at : {"none", "on", "closed"}, sent : 0..Parts, got : 0..Parts]
      /\ client'.sent = client.sent /\ client'.got = client.got
      /\ backend'.sent = backend.sent /\ backend'.got = backend.got
  BY <1>2, ProxyInvFacts
<1>5. AsksWithin(pipes, client, backend)' /\ RepliesWithin(pipes, client, backend)'
  BY <1>3, <1>4, PipesAre, ProxyInvFacts DEF AsksWithin, RepliesWithin
<1>6. /\ client' \in [at : {"none", "on", "shut", "gone"}, sent : 0..Parts, got : Nat]
      /\ backend' \in [at : {"none", "on", "closed"}, sent : 0..Parts, got : Nat]
  BY <1>4 DEF Parts
<1> QED
  BY <1>2, <1>3, <1>5, <1>6, ProxyInvFacts, WithinKeeps

LEMMA TasksStartKeep ==
    ASSUME ProxyInv, PeerConnects \/ HostAccepts \/ HostConnects
    PROVE  ProxyInv'
<1>1. "peer" \in Proxies /\ "host" \in Proxies
  BY DEF Proxies
<1>2. UNCHANGED <<pipes, client>> /\ (backend' = backend \/ backend' = [backend EXCEPT !.at = "on"])
  BY DEF PeerConnects, HostAccepts, HostConnects
<1>3. copies' \in [Copies -> CopyStates] /\ proxies' \in [Proxies -> ProxyStates]
  <2>1. CASE Starts("peer") \/ Starts("host")
    BY <1>1, <2>1, StartsFacts
  <2>2. CASE HostAccepts
    BY <1>1, <2>2, ProxyInvFacts DEF HostAccepts, ProxyStates
  <2> QED
    BY <2>1, <2>2 DEF PeerConnects, HostConnects
<1>4. /\ backend' \in [at : {"none", "on", "closed"}, sent : 0..Parts, got : 0..Parts]
      /\ backend'.sent = backend.sent /\ backend'.got = backend.got
  BY <1>2, ProxyInvFacts
<1>5. AsksWithin(pipes, client, backend)' /\ RepliesWithin(pipes, client, backend)'
  BY <1>2, <1>4, ProxyInvFacts DEF AsksWithin, RepliesWithin
<1>6. /\ client' \in [at : {"none", "on", "shut", "gone"}, sent : 0..Parts, got : Nat]
      /\ backend' \in [at : {"none", "on", "closed"}, sent : 0..Parts, got : Nat]
  BY <1>2, <1>4, ProxyInvFacts DEF Parts
<1> QED
  BY <1>2, <1>3, <1>5, <1>6, ProxyInvFacts, WithinKeeps

\* A part that is copied leaves one pipe of its direction and enters another.
LEMMA CopiedKeeps ==
    ASSUME ProxyInv, NEW k \in Copies, Copied(k)
    PROVE  ProxyInv'
<1> DEFINE n(p) == pipes[p].n
           f == From(k)
           t == Into(k)
<1>1. /\ n(f) > 0 /\ UNCHANGED <<copies, proxies, client, backend>>
      /\ pipes' = [pipes EXCEPT ![f].n = @ - 1, ![t].n = @ + 1]
  BY DEF Copied, SameProxies
<1>2. /\ n(CP) \in Nat /\ n(PH) \in Nat /\ n(HS) \in Nat
      /\ n(SH) \in Nat /\ n(HP) \in Nat /\ n(PC) \in Nat
  BY ProxyInvFacts, PipesAre DEF PipeType
<1>3. \/ f = CP /\ t = PH
      \/ f = PH /\ t = HS
      \/ f = SH /\ t = HP
      \/ f = HP /\ t = PC
  <2>1. CASE k = <<"client", "peer", "host">>
    BY <2>1 DEF From, Into, CP, PH
  <2>2. CASE k = <<"peer", "host", "server">>
    BY <2>2 DEF From, Into, PH, HS
  <2>3. CASE k = <<"host", "peer", "client">>
    BY <2>3 DEF From, Into, HP, PC
  <2>4. CASE k = <<"server", "host", "peer">>
    BY <2>4 DEF From, Into, SH, HP
  <2> QED
    BY <2>1, <2>2, <2>3, <2>4, CopiesAre
<1>4. f \in Pipes /\ t \in Pipes /\ f # t
  BY <1>3, PipesAre, PipesDiffer
<1> HIDE DEF f, t
<1>5. /\ pipes' \in [Pipes -> PipeType]
      /\ pipes'[f].n = n(f) - 1 /\ pipes'[t].n = n(t) + 1
      /\ \A q \in Pipes \ {f, t} : pipes'[q].n = n(q)
  <2>1. pipes \in [Pipes -> PipeType] /\ n(f) - 1 \in Nat /\ n(t) + 1 \in Nat
    BY <1>1, <1>4, ProxyInvFacts DEF PipeType
  <2> QED
    BY <1>1, <1>4, <2>1 DEF PipeType
<1>6. /\ client.sent \in Nat /\ client.got \in Nat
      /\ backend.sent \in Nat /\ backend.got \in Nat
      /\ n(CP) + n(PH) + n(HS) + backend.got <= client.sent
      /\ n(SH) + n(HP) + n(PC) + client.got <= backend.sent
  BY ProxyInvFacts DEF AsksWithin, RepliesWithin, Parts
<1>7. /\ pipes'[CP].n + pipes'[PH].n + pipes'[HS].n = n(CP) + n(PH) + n(HS)
      /\ pipes'[SH].n + pipes'[HP].n + pipes'[PC].n = n(SH) + n(HP) + n(PC)
  <2>1. CASE f = CP /\ t = PH
    BY <1>2, <1>5, <2>1, PipesAre, PipesDiffer
  <2>2. CASE f = PH /\ t = HS
    BY <1>2, <1>5, <2>2, PipesAre, PipesDiffer
  <2>3. CASE f = SH /\ t = HP
    BY <1>2, <1>5, <2>3, PipesAre, PipesDiffer
  <2>4. CASE f = HP /\ t = PC
    BY <1>2, <1>5, <2>4, PipesAre, PipesDiffer
  <2> QED
    BY <1>3, <2>1, <2>2, <2>3, <2>4
<1>8. AsksWithin(pipes, client, backend)' /\ RepliesWithin(pipes, client, backend)'
  BY <1>1, <1>6, <1>7 DEF AsksWithin, RepliesWithin
<1>9. /\ client' \in [at : {"none", "on", "shut", "gone"}, sent : 0..Parts, got : Nat]
      /\ backend' \in [at : {"none", "on", "closed"}, sent : 0..Parts, got : Nat]
  BY <1>1, ProxyInvFacts DEF Parts
<1> QED
  BY <1>1, <1>5, <1>8, <1>9, ProxyInvFacts, WithinKeeps

LEMMA CopyEndsKeeps ==
    ASSUME ProxyInv, NEW k \in Copies, CopyEnds(k) \/ CopyFails(k)
    PROVE  ProxyInv'
<1>1. /\ UNCHANGED <<proxies, client, backend>>
      /\ copies' = [copies EXCEPT ![k] = "done"] \/ copies' = [copies EXCEPT ![k] = "failed"]
      /\ \/ pipes' = pipes
         \/ pipes' = [pipes EXCEPT ![Into(k)].end = IF @ = "open" THEN "fin" ELSE @]
  BY DEF CopyEnds, CopyFails
<1>2. copies' \in [Copies -> CopyStates]
  BY <1>1, ProxyInvFacts DEF CopyStates
<1>3. pipes' \in [Pipes -> PipeType] /\ \A p \in Pipes : pipes'[p].n = pipes[p].n
  <2>1. pipes \in [Pipes -> PipeType] /\ Into(k) \in Pipes
    BY CopiesAre, ProxyInvFacts
  <2>2. CASE pipes' = pipes
    BY <2>1, <2>2
  <2>3. CASE pipes' = [pipes EXCEPT ![Into(k)].end = IF @ = "open" THEN "fin" ELSE @]
    <3>1. PICK e \in Ends : pipes' = [pipes EXCEPT ![Into(k)].end = e]
      BY <2>1, <2>3 DEF PipeType, Ends
    <3> QED
      BY <2>1, <3>1 DEF PipeType
  <2> QED
    BY <1>1, <2>2, <2>3
<1>4. \A p \in Pipes : pipes'[p].n <= pipes[p].n
  BY <1>3, ProxyInvFacts DEF PipeType
<1> QED
  BY <1>1, <1>2, <1>3, <1>4, ProxyInvFacts, NoMoreKeeps

LEMMA TasksEndKeep ==
    ASSUME ProxyInv, NEW x \in Proxies, ConnectFails(x) \/ ProxyEnds(x) \/ StreamLost
    PROVE  ProxyInv'
<1>1. /\ UNCHANGED <<client, backend>>
      /\ pipes' = Cut(Dropped(x)) \/ pipes' = Dropped(x) \/ pipes' = Cut(pipes)
      /\ Stops(x) \/ UNCHANGED <<copies, proxies>>
  BY DEF ConnectFails, ProxyEnds, StreamLost, SameProxies
<1>2. copies' \in [Copies -> CopyStates] /\ proxies' \in [Proxies -> ProxyStates]
  BY <1>1, StartsFacts, ProxyInvFacts
<1>3. /\ pipes \in [Pipes -> PipeType] /\ Dropped(x) \in [Pipes -> PipeType]
      /\ \A p \in Pipes : pipes[p].n \in Nat /\ Dropped(x)[p].n = pipes[p].n
  BY ProxyInvFacts, DroppedFacts DEF PipeType
<1>4. /\ pipes' \in [Pipes -> PipeType]
      /\ \A p \in Pipes : pipes'[p].n <= pipes[p].n
  BY <1>1, <1>3, CutFacts
<1> QED
  BY <1>1, <1>2, <1>4, NoMoreKeeps

LEMMA ProxyKeeps ==
    ASSUME ProxyInv, CallsTypeOK, ProxyUse \/ ProxyStep \/ ProxyFault
    PROVE  ProxyInv' /\ CallsTypeOK'
<1>1. CASE ProxyUse
  <2>1. UNCHANGED <<calls, left>>
    BY <1>1 DEF ProxyUse, ClientConnects, ClientSends, ClientShuts, ServerReads, ServerReplies,
                ServerCloses, SameCalls
  <2> QED
    BY <1>1, <2>1, EndsKeep, EndsGoKeep DEF ProxyUse, CallsTypeOK
<1>2. CASE ProxyStep
  <2>1. UNCHANGED <<calls, left>>
    BY <1>2 DEF ProxyStep, ClientReads, PeerConnects, HostAccepts, HostConnects, Copied, CopyEnds,
                CopyFails, ProxyEnds, SameCalls
  <2> QED
    BY <1>2, <2>1, EndsKeep, TasksStartKeep, CopiedKeeps, CopyEndsKeeps, TasksEndKeep
       DEF ProxyStep, CallsTypeOK
<1>3. CASE ProxyFault
  <2>1. LinkFault
    BY <1>3 DEF ProxyFault, ClientLeaves, StreamLost, ConnectFails
  <2>2. CallsTypeOK'
    BY <2>1 DEF LinkFault, Fault, CallsTypeOK
  <2>3. "peer" \in Proxies
    BY DEF Proxies
  <2> QED
    BY <1>3, <2>2, <2>3, EndsGoKeep, TasksEndKeep DEF ProxyFault
<1> QED
  BY <1>1, <1>2, <1>3
-------------------------------------------------------------------------------
(* The services together *)

LEMMA InitOfEach ==
    ASSUME CallsTypeOK, InitCalls
    PROVE  (NetInit => NetInv) /\ (SignInit => SignInv)
<1>1. 0 \in 0..Requests /\ <<>> \in Seq(Calls) /\ \A c \in Calls : c # 0
  BY DEF Calls
<1>2. \A c \in Calls : calls[c].op = "none" /\ calls[c].step = "none"
  BY DEF InitCalls, NoCall
<1>3. NetInit => NetInv
  BY <1>1, <1>2 DEF NetInit, NetInv, NetTypeOK, NetworkIsKnown
<1>4. ASSUME SignInit
      PROVE  SignInv
  <2>1. /\ slot = 0 /\ signLock = <<>> /\ port = 0 /\ browser = {}
        /\ accounts = [d \in Dids |-> "none"]
        /\ tasks = [c \in Calls |-> NoTask]
    BY <1>4 DEF SignInit
  <2>2. NoTask \in [step : {"none", "born", "listening", "exchange", "save", "done"},
                    cancel : BOOLEAN, prev : 0..Requests, got : 0..Requests]
    BY <1>1 DEF NoTask
  <2>3. SignTypeOK
    BY <1>1, <2>1, <2>2 DEF SignTypeOK
  <2>4. \A c \in Calls : tasks[c].step = "none"
    BY <2>1 DEF NoTask
  <2> QED
    BY <1>1, <1>2, <2>1, <2>3, <2>4
       DEF SignInv, OneSignInStands, OwnAuthorization, TaskEnded, At
<1> QED
  BY <1>3, <1>4

LEMMA InitTypes ==
    ASSUME ShareInit, ProxyInit, PowerInit
    PROVE  ShareTypeOK /\ ProxyInv /\ PowerTypeOK
<1>1. 0 \in 0..Requests
  OBVIOUS
<1>2. ShareTypeOK
  <2>1. Unknown \in Shown
    BY <1>1 DEF Unknown, Shows, Shown
  <2> QED
    BY <1>1, <2>1 DEF ShareInit, ShareTypeOK
<1>3. PowerTypeOK
  BY DEF PowerInit, PowerTypeOK, NoTurn, SwitchType, PollType, TurnType, AskedType
<1>4. ProxyInv
  <2>1. /\ pipes = [p \in Pipes |-> [n |-> 0, end |-> "open", read |-> TRUE]]
        /\ client = [at |-> "none", sent |-> 0, got |-> 0]
        /\ backend = [at |-> "none", sent |-> 0, got |-> 0]
        /\ copies = [k \in Copies |-> "none"] /\ proxies = [x \in Proxies |-> "none"]
    BY DEF ProxyInit
  <2>2. 0 \in 0..Parts
    BY DEF Parts
  <2>3. [n |-> 0, end |-> "open", read |-> TRUE]
          \in [n : 0..Parts, end : {"open", "fin", "cut"}, read : BOOLEAN]
    BY <2>2
  <2>4. ProxyTypeOK
    BY <2>1, <2>2, <2>3 DEF ProxyTypeOK
  <2>5. AsksWithin(pipes, client, backend) /\ RepliesWithin(pipes, client, backend)
    <3>1. \A p \in Pipes : pipes[p].n = 0
      BY <2>1
    <3>2. client.sent = 0 /\ client.got = 0 /\ backend.sent = 0 /\ backend.got = 0
      BY <2>1
    <3> QED
      BY <3>1, <3>2, PipesAre DEF AsksWithin, RepliesWithin
  <2> QED
    BY <2>4, <2>5 DEF ProxyInv, AsksWithin, RepliesWithin, CP, PH, HS, SH, HP, PC
<1> QED
  BY <1>2, <1>3, <1>4

LEMMA InitServices ==
    ASSUME Init
    PROVE  ServicesInv
<1>1. CallsTypeOK
  <2>1. calls = [c \in Calls |-> NoCall] /\ left = Faults
    BY DEF Init, InitCalls
  <2>2. 0 \in 0..Requests \cup Dids /\ Faults \in 0..Faults
    OBVIOUS
  <2>3. NoCall \in [op : NetOps \cup {"none", "share", "unshare", "login", "logout", "tap"},
                    step : Steps, of : 0..Requests \cup Dids]
    BY <2>2 DEF NoCall, Steps, Ended
  <2> QED
    BY <2>1, <2>2, <2>3 DEF CallsTypeOK
<1> QED
  BY <1>1, InitOfEach, InitTypes DEF Init, ServicesInv

\* What a service that is at rest has is what it begins with, and its requests
\* are another's: only the one that a behaviour is about moves.
LEMMA ServicesFacts ==
    ASSUME ServicesInv
    PROVE  /\ CallsTypeOK /\ ShareTypeOK /\ ProxyInv /\ PowerTypeOK
           /\ service \in {"network", "share", "proxy", "sign in", "inference"}
           /\ service = "network" => NetInv
           /\ service # "network" => NetInit
           /\ service = "sign in" => SignInv
           /\ service # "sign in" => SignInit
BY DEF ServicesInv

\* What is another's is left alone.
LEMMA NetworkStays ==
    ASSUME ServicesInv, UNCHANGED <<netVars, service>>, service # "network"
    PROVE  NetInit'
BY ServicesFacts DEF netVars, NetInit

LEMMA SignInStays ==
    ASSUME ServicesInv, UNCHANGED <<signVars, service>>, service # "sign in"
    PROVE  SignInit'
BY ServicesFacts DEF signVars, SignInit

LEMMA ShareStays ==
    ASSUME ServicesInv, UNCHANGED shareVars
    PROVE  ShareTypeOK'
BY ServicesFacts DEF shareVars, ShareTypeOK

LEMMA ProxyStays ==
    ASSUME ServicesInv, UNCHANGED proxyVars
    PROVE  ProxyInv'
BY ServicesFacts DEF proxyVars, ProxyInv, ProxyTypeOK

LEMMA PowerStays ==
    ASSUME ServicesInv, UNCHANGED powerVars
    PROVE  PowerTypeOK'
<1>1. server' = server /\ switch' = switch /\ poll' = poll /\ turn' = turn /\ asked' = asked
  BY DEF powerVars
<1>2. PowerTypeOK
  BY ServicesFacts
<1> QED
  BY <1>1, <1>2 DEF PowerTypeOK

LEMMA NextServices ==
    ASSUME ServicesInv, [Next]_vars
    PROVE  ServicesInv'
<1>1. ASSUME NEW c \in Calls, OfNetwork(Network(c))
      PROVE  ServicesInv'
  <2>1. /\ service = "network" /\ service' = service
        /\ Network(c) /\ UNCHANGED <<shareVars, proxyVars, signVars, powerVars>>
    BY <1>1 DEF OfNetwork
  <2>2. NetInv' /\ CallsTypeOK'
    BY <2>1, ServicesFacts, NetworkKeeps
  <2>3. ShareTypeOK' /\ ProxyInv' /\ PowerTypeOK' /\ SignInit'
    BY <2>1, ShareStays, ProxyStays, PowerStays, SignInStays
  <2> QED
    BY <2>1, <2>2, <2>3 DEF ServicesInv
<1>2. ASSUME NEW c \in Calls, OfShare(Share(c))
      PROVE  ServicesInv'
  <2>1. /\ service = "share" /\ service' = service
        /\ Share(c) /\ UNCHANGED <<netVars, proxyVars, signVars, powerVars>>
    BY <1>2 DEF OfShare
  <2>2. ShareTypeOK' /\ CallsTypeOK'
    BY <2>1, ServicesFacts, ShareTypes
  <2>3. ProxyInv' /\ PowerTypeOK' /\ NetInit' /\ SignInit'
    BY <2>1, NetworkStays, ProxyStays, PowerStays, SignInStays
  <2> QED
    BY <2>1, <2>2, <2>3 DEF ServicesInv
<1>3. ASSUME NEW c \in Calls, OfSignIn(Sign(c))
      PROVE  ServicesInv'
  <2>1. /\ service = "sign in" /\ service' = service
        /\ Sign(c) /\ UNCHANGED <<netVars, shareVars, proxyVars, powerVars>>
    BY <1>3 DEF OfSignIn
  <2>2. SignInv' /\ CallsTypeOK'
    BY <2>1, ServicesFacts, SignKeeps
  <2>3. ShareTypeOK' /\ ProxyInv' /\ PowerTypeOK' /\ NetInit'
    BY <2>1, NetworkStays, ShareStays, ProxyStays, PowerStays
  <2> QED
    BY <2>1, <2>2, <2>3 DEF ServicesInv
<1>4. ASSUME NEW c \in Calls, OfInference(Tap(c))
      PROVE  ServicesInv'
  <2>1. /\ service = "inference" /\ service' = service
        /\ Tap(c)
        /\ UNCHANGED <<netVars, shareVars, proxyVars, signVars>>
    BY <1>4 DEF OfInference
  <2>2. PowerTypeOK' /\ CallsTypeOK'
    BY <2>1, ServicesFacts, TapTypes
  <2>3. ShareTypeOK' /\ ProxyInv' /\ NetInit' /\ SignInit'
    BY <2>1, NetworkStays, ShareStays, ProxyStays, SignInStays
  <2> QED
    BY <2>1, <2>2, <2>3 DEF ServicesInv
<1>5. CASE OfShare(PanelStep)
  <2>1. /\ service = "share" /\ service' = service
        /\ PanelStep /\ UNCHANGED <<netVars, proxyVars, signVars, powerVars>>
    BY <1>5 DEF OfShare
  <2>2. ShareTypeOK' /\ CallsTypeOK'
    BY <2>1, ServicesFacts, PanelTypes
  <2>3. ProxyInv' /\ PowerTypeOK' /\ NetInit' /\ SignInit'
    BY <2>1, NetworkStays, ProxyStays, PowerStays, SignInStays
  <2> QED
    BY <2>1, <2>2, <2>3 DEF ServicesInv
<1>6. CASE OfProxy(ProxyUse) \/ OfProxy(ProxyStep) \/ OfProxy(ProxyFault)
  <2>1. /\ service = "proxy" /\ service' = service
        /\ ProxyUse \/ ProxyStep \/ ProxyFault
        /\ UNCHANGED <<netVars, shareVars, signVars, powerVars>>
    BY <1>6 DEF OfProxy
  <2>2. ProxyInv' /\ CallsTypeOK'
    BY <2>1, ServicesFacts, ProxyKeeps
  <2>3. ShareTypeOK' /\ PowerTypeOK' /\ NetInit' /\ SignInit'
    BY <2>1, NetworkStays, ShareStays, PowerStays, SignInStays
  <2> QED
    BY <2>1, <2>2, <2>3 DEF ServicesInv
<1>7. CASE OfInference(PowerStep) \/ OfInference(PowerFault)
  <2>1. /\ service = "inference" /\ service' = service
        /\ PowerStep \/ PowerFault
        /\ UNCHANGED <<netVars, shareVars, proxyVars, signVars>>
    BY <1>7 DEF OfInference
  <2>2. PowerTypeOK' /\ CallsTypeOK'
    BY <2>1, ServicesFacts, PowerTypes
  <2>3. ShareTypeOK' /\ ProxyInv' /\ NetInit' /\ SignInit'
    BY <2>1, NetworkStays, ShareStays, ProxyStays, SignInStays
  <2> QED
    BY <2>1, <2>2, <2>3 DEF ServicesInv
<1>8. CASE UNCHANGED vars
  <2>1. UNCHANGED <<calls, left, netVars, shareVars, proxyVars, signVars, powerVars, service>>
    BY <1>8 DEF vars
  <2>2. CallsTypeOK' /\ ShareTypeOK' /\ ProxyInv' /\ PowerTypeOK'
    BY <2>1, ServicesFacts, ShareStays, ProxyStays, PowerStays DEF CallsTypeOK
  <2>3. CASE service = "network"
    <3>1. NetInv'
      BY <2>1, <2>3, ServicesFacts DEF netVars, NetInv, NetTypeOK, NetworkIsKnown, HoldsNet
    <3>2. SignInit'
      BY <2>1, <2>3, SignInStays
    <3> QED
      BY <2>1, <2>2, <2>3, <3>1, <3>2 DEF ServicesInv
  <2>4. CASE service = "sign in"
    <3>1. SignInv'
      <4>1. /\ calls' = calls /\ slot' = slot /\ signLock' = signLock /\ tasks' = tasks
            /\ port' = port /\ browser' = browser /\ accounts' = accounts
        BY <2>1 DEF signVars
      <4>2. SignInv
        BY <2>4, ServicesFacts
      <4>3. SignTypeOK' /\ OneSignInStands' /\ OwnAuthorization'
        BY <4>1, <4>2 DEF SignInv, SignTypeOK, OneSignInStands, OwnAuthorization, TaskEnded
      <4> QED
        BY <4>1, <4>2, <4>3 DEF SignInv, HoldsSign, At
    <3>2. NetInit'
      BY <2>1, <2>4, NetworkStays
    <3> QED
      BY <2>1, <2>2, <2>4, <3>1, <3>2 DEF ServicesInv
  <2>5. CASE service \in {"share", "proxy", "inference"}
    <3>1. NetInit' /\ SignInit'
      BY <2>1, <2>5, NetworkStays, SignInStays
    <3> QED
      BY <2>1, <2>2, <2>5, <3>1 DEF ServicesInv
  <2> QED
    BY <2>3, <2>4, <2>5, ServicesFacts
<1> QED
  BY <1>1, <1>2, <1>3, <1>4, <1>5, <1>6, <1>7, <1>8 DEF Next

\* Requests, services and what each keeps are as their types say; the network and
\* the sign in keep to what they promise, whichever the behaviour is about.
LEMMA ServicesKeep ==
    ASSUME ServicesInv
    PROVE  Inv /\ OwnAuthorization
<1>1. NetInv \/ NetInit
  BY ServicesFacts
<1>2. NetTypeOK /\ NetworkIsKnown
  <2>1. CASE NetInv
    BY <2>1 DEF NetInv
  <2>2. CASE NetInit
    <3>1. <<>> \in Seq(Calls) /\ 0 \in 0..Requests
      OBVIOUS
    <3> QED
      BY <2>2, <3>1 DEF NetInit, NetTypeOK, NetworkIsKnown
  <2> QED
    BY <1>1, <2>1, <2>2
<1>3. SignTypeOK /\ OneSignInStands /\ OwnAuthorization
  <2>1. CASE SignInv
    BY <2>1 DEF SignInv
  <2>2. CASE SignInit
    <3>1. 0 \in 0..Requests /\ <<>> \in Seq(Calls) /\ \A c \in Calls : c # 0
      BY DEF Calls
    <3>2. /\ slot = 0 /\ signLock = <<>> /\ port = 0 /\ browser = {}
          /\ accounts = [d \in Dids |-> "none"] /\ tasks = [c \in Calls |-> NoTask]
      BY <2>2 DEF SignInit
    <3>3. NoTask \in [step : {"none", "born", "listening", "exchange", "save", "done"},
                      cancel : BOOLEAN, prev : 0..Requests, got : 0..Requests]
      BY <3>1 DEF NoTask
    <3>4. SignTypeOK
      BY <3>1, <3>2, <3>3 DEF SignTypeOK
    <3>5. \A c \in Calls : tasks[c].step = "none"
      BY <3>2 DEF NoTask
    <3> QED
      BY <3>1, <3>2, <3>4, <3>5 DEF OneSignInStands, OwnAuthorization, TaskEnded
  <2> QED
    BY <2>1, <2>2, ServicesFacts
<1>4. TypeOK
  BY <1>2, <1>3, ServicesFacts DEF TypeOK, ProxyInv
<1> QED
  BY <1>2, <1>3, <1>4 DEF Inv

\* The inductive invariant of the services behind the router.
THEOREM ServicesInvariant ==
    Spec => []ServicesInv
<1>1. Init => ServicesInv
  BY InitServices
<1>2. ServicesInv /\ [Next]_vars => ServicesInv'
  BY NextServices
<1> QED
  BY <1>1, <1>2, PTL DEF Spec

\* The network that the state says runs is the one that is up, and stop_network
\* reaches one that is up (daemon/net.rs); one sign in stands at a time, and the
\* callback port is its task's (daemon/atproto.rs); the rest are as their types say.
THEOREM ServicesAreConsistent ==
    Spec => []Inv
<1>1. ServicesInv => Inv
  BY ServicesKeep
<1> QED
  BY <1>1, ServicesInvariant, PTL

\* An account is logged in by its own authorization, however the callbacks of
\* several sign ins meet at the port (core/account/atproto.rs:192).
THEOREM AccountsAreOwn ==
    Spec => []OwnAuthorization
<1>1. ServicesInv => OwnAuthorization
  BY ServicesKeep
<1> QED
  BY <1>1, ServicesInvariant, PTL

-------------------------------------------------------------------------------
(* The daemon's processes: daemons, commands and the app *)

USE MaxCommandsAssumption, MaxDaemonsAssumption, UpTriesAssumption

DaemonType ==
    [phase : {"none", "born", "bound", "serving", "closing", "gone"},
     old : BOOLEAN, web : BOOLEAN, work : Nat, ui : Nat,
     stopping : BOOLEAN, stop : BOOLEAN, done : BOOLEAN,
     sup : {"off", "top", "spawn", "wait", "grace", "backoff"}]

\* What Supervised says of one daemon, whose app is alive or not.
SupervisedAs(x, alive) ==
    /\ x.sup # "off" => x.phase = "serving" /\ ~x.done
    /\ x.work + x.ui > 0 => x.phase = "serving" /\ x.stopping
    /\ alive => x.sup \in {"wait", "grace"} \/ x.phase = "gone"
    /\ x.phase = "closing" => ~alive
    /\ x.phase \in {"none", "born", "bound"} => ~x.done
    /\ x.old => x.phase \in {"serving", "closing"}

\* A daemon that was asked stays asked, one that has gone does not come back.
GoesOn(x, y) ==
    /\ y.old => x.old
    /\ x.phase \in {"serving", "closing", "gone"} => y.phase \in {"serving", "closing", "gone"}
    /\ x.old /\ y.phase = "serving" => x.phase = "serving"

LEMMA RecordFacts ==
    /\ NoDaemon \in DaemonType /\ OldDaemon \in DaemonType /\ Gone \in DaemonType
    /\ SupervisedAs(NoDaemon, FALSE) /\ SupervisedAs(OldDaemon, FALSE)
    /\ \A alive \in BOOLEAN : SupervisedAs(Gone, alive)
    /\ NoDaemon.phase = "none" /\ OldDaemon.phase = "serving" /\ Gone.phase = "gone"
    /\ ~Gone.old
<1>1. NoDaemon \in DaemonType
  BY DEF NoDaemon, DaemonType
<1>2. /\ OldDaemon \in DaemonType /\ OldDaemon.phase = "serving" /\ ~OldDaemon.done
      /\ OldDaemon.work = 0 /\ OldDaemon.ui = 0
  BY DEF NoDaemon, OldDaemon, DaemonType
<1>3. /\ Gone \in DaemonType /\ Gone.phase = "gone" /\ ~Gone.old
      /\ Gone.work = 0 /\ Gone.ui = 0 /\ Gone.sup = "off"
  BY DEF NoDaemon, Gone, DaemonType
<1>4. SupervisedAs(NoDaemon, FALSE) /\ NoDaemon.phase = "none"
  BY DEF NoDaemon, SupervisedAs
<1> QED
  BY <1>1, <1>2, <1>3, <1>4 DEF SupervisedAs

LEMMA BeginStopFacts ==
    ASSUME NEW x \in DaemonType
    PROVE  /\ BeginStop(x) \in DaemonType
           /\ BeginStop(x).stopping
           /\ BeginStop(x).phase = x.phase /\ BeginStop(x).old = x.old
           /\ BeginStop(x).work = x.work /\ BeginStop(x).ui = x.ui
           /\ BeginStop(x).sup = x.sup /\ BeginStop(x).done = x.done
BY DEF BeginStop, DaemonType

LEMMA ShutdownAllFacts ==
    ASSUME NEW x \in DaemonType
    PROVE  /\ ShutdownAll(x) \in DaemonType
           /\ ShutdownAll(x).stopping
           /\ ShutdownAll(x).phase = x.phase /\ ShutdownAll(x).old = x.old
           /\ ShutdownAll(x).ui = x.ui /\ ShutdownAll(x).work = x.work + 1
           /\ ShutdownAll(x).sup = x.sup /\ ShutdownAll(x).done = x.done
<1> DEFINE y == BeginStop(x)
<1>1. y \in DaemonType /\ y.stopping /\ y.phase = x.phase /\ y.old = x.old /\ y.ui = x.ui
      /\ y.work = x.work /\ y.sup = x.sup /\ y.done = x.done
  BY BeginStopFacts
<1>2. ShutdownAll(x) = [y EXCEPT !.work = @ + 1]
  BY DEF ShutdownAll
<1> HIDE DEF y
<1> QED
  BY <1>1, <1>2 DEF DaemonType

LEMMA SentFacts ==
    ASSUME NEW x \in DaemonType
    PROVE  /\ Sent(x) \in DaemonType
           /\ Sent(x).phase = "closing" /\ Sent(x).old = x.old
           /\ Sent(x).work = 0 /\ Sent(x).ui = 0
           /\ Sent(x).sup = x.sup /\ Sent(x).done = x.done
BY DEF Sent, DaemonType

LEMMA EndFacts ==
    ASSUME NEW x \in DaemonType
    PROVE  /\ End(x) \in DaemonType
           /\ End(x).phase = x.phase /\ End(x).old = x.old
           /\ End(x).work = x.work /\ End(x).ui = x.ui /\ End(x).stopping = x.stopping
           /\ End(x).sup = "off" /\ End(x).done
BY DEF End, DaemonType

LEMMA TypeFacts ==
    ASSUME LifeInv
    PROVE  /\ daemons \in [Daemons -> DaemonType]
           /\ \A d \in Daemons : SupervisedAs(daemons[d], Alive(d))
BY DEF LifeInv, LifeTypeOK, DaemonType, ClosedInOrder, Supervised, CommandsRight, SupervisedAs

CommandType == [op : {"none", "start", "stop"}, step : CommandSteps,
                tries : 0..UpTries, asked : 0..MaxDaemons]

\* The invariant but for the commands.
ProcessesRight ==
    /\ daemons \in [Daemons -> DaemonType]
    /\ apps \in [{Hand} \cup Daemons -> {"none", "starting", "shown", "quitting"}]
    /\ left \in 0..Faults
    /\ ClosedInOrder
    /\ \A d \in Daemons : SupervisedAs(daemons[d], Alive(d))

AllGoOn == \A d \in Daemons : GoesOn(daemons[d], daemons'[d])

\* What the invariant says of a command.
CommandRight(y) ==
    /\ y.step \in {"ping", "spawn", "wait"} => y.op = "start"
    /\ y.step \in {"spawn", "wait"} => \A d \in Daemons : daemons[d].old => ~Answers(d)
    /\ y.step = "poll" =>
         y.asked \in Daemons /\ daemons[y.asked].phase \in {"serving", "closing", "gone"}

LEMMA InvParts ==
    LifeInv <=> /\ ProcessesRight
                /\ commands \in [Clis -> CommandType]
                /\ \A c \in Clis : CommandRight(commands[c])
BY DEF LifeInv, LifeTypeOK, ProcessesRight, ClosedInOrder, Supervised, SupervisedAs,
       CommandsRight, CommandRight, DaemonType, CommandType

LEMMA InvPartsNext ==
    ASSUME ProcessesRight', commands' \in [Clis -> CommandType],
           \A c \in Clis : CommandRight(commands[c])'
    PROVE  LifeInv'
BY DEF LifeInv, LifeTypeOK, ProcessesRight, ClosedInOrder, Supervised, SupervisedAs,
       CommandsRight, CommandRight, DaemonType, CommandType

\* What a command knows stays so while daemons go on.
LEMMA CommandsStay ==
    ASSUME LifeInv, ProcessesRight', AllGoOn, NEW c \in Clis, NEW y \in CommandType,
           commands' = [commands EXCEPT ![c] = y], CommandRight(y)'
    PROVE  LifeInv'
<1>1. commands \in [Clis -> CommandType] /\ \A b \in Clis : CommandRight(commands[b])
  BY InvParts
<1>2. commands' \in [Clis -> CommandType]
  BY <1>1
<1>3. \A b \in Clis : CommandRight(commands[b])'
  <2> TAKE b \in Clis
  <2>1. CASE b = c
    BY <2>1, <1>1 DEF CommandRight
  <2>2. CASE b # c
    BY <2>2, <1>1 DEF CommandRight, AllGoOn, GoesOn, Answers, ProcessesRight
  <2> QED
    BY <2>1, <2>2
<1> QED
  BY <1>2, <1>3, InvPartsNext

LEMMA OthersKeep ==
    ASSUME LifeInv, ProcessesRight', AllGoOn, commands' = commands
    PROVE  LifeInv'
<1>1. commands \in [Clis -> CommandType] /\ \A b \in Clis : CommandRight(commands[b])
  BY InvParts
<1>2. \A b \in Clis : CommandRight(commands[b])'
  BY <1>1 DEF CommandRight, AllGoOn, GoesOn, Answers, ProcessesRight
<1> QED
  BY <1>1, <1>2, InvPartsNext

\* A step of one daemon, which its app may take with it.
LEMMA DaemonStep ==
    ASSUME LifeInv, NEW d \in Daemons, NEW y \in DaemonType,
           daemons' = [daemons EXCEPT ![d] = y], left' \in 0..Faults,
           apps' = apps \/ apps' = [apps EXCEPT ![d] = "none"],
           SupervisedAs(y, Alive(d)'), GoesOn(daemons[d], y),
           y.phase = "serving" => Answers(d) \/ ~Answering
    PROVE  ProcessesRight' /\ AllGoOn
<1>1. ProcessesRight
  BY InvParts
<1>2. /\ daemons'[d] = y
      /\ \A e \in Daemons : e # d => daemons'[e] = daemons[e]
      /\ daemons' \in [Daemons -> DaemonType]
  BY <1>1 DEF ProcessesRight
<1>3. /\ apps' \in [{Hand} \cup Daemons -> {"none", "starting", "shown", "quitting"}]
      /\ DOMAIN apps = {Hand} \cup Daemons /\ DOMAIN apps' = {Hand} \cup Daemons
      /\ \A a \in {Hand} \cup Daemons : a # d => apps'[a] = apps[a]
      /\ \A a \in {Hand} \cup Daemons : apps'[a] = apps[a] \/ apps'[a] = "none"
  BY <1>1 DEF ProcessesRight
<1>5. \A e \in Daemons : SupervisedAs(daemons'[e], Alive(e)')
  <2> TAKE e \in Daemons
  <2>1. CASE e # d
    BY <2>1, <1>1, <1>2, <1>3 DEF Alive, ProcessesRight
  <2> QED
    BY <2>1, <1>2
<1>6. AllGoOn
  BY <1>2 DEF AllGoOn, GoesOn
<1>7. ClosedInOrder'
  <2>1. \A e, f \in Daemons : Answers(e)' /\ Answers(f)' => e = f
    BY <1>1, <1>2 DEF ProcessesRight, ClosedInOrder, Answers, Answering
  <2>2. \A a, b \in DOMAIN apps' : Primary(a)' /\ Primary(b)' => a = b
    BY <1>1, <1>3 DEF ProcessesRight, ClosedInOrder, Primary
  <2> QED
    BY <2>1, <2>2, <1>5 DEF ClosedInOrder, SupervisedAs
<1> QED
  BY <1>2, <1>3, <1>5, <1>6, <1>7 DEF ProcessesRight

\* A step of the app, or of the supervisor when only the app's life changes.
LEMMA AppStep ==
    ASSUME LifeInv, daemons' = daemons, left' \in 0..Faults,
           apps' \in [{Hand} \cup Daemons -> {"none", "starting", "shown", "quitting"}],
           \A d \in Daemons : Alive(d)' => Alive(d),
           \A a, b \in {Hand} \cup Daemons : Primary(a)' /\ Primary(b)' => a = b
    PROVE  ProcessesRight' /\ AllGoOn
<1>1. ProcessesRight
  BY InvParts
<1>2. ClosedInOrder'
  <2>1. \A d, e \in Daemons : Answers(d)' /\ Answers(e)' => d = e
    BY <1>1 DEF ProcessesRight, ClosedInOrder, Answers
  <2>2. DOMAIN apps' = {Hand} \cup Daemons
    OBVIOUS
  <2>3. \A d \in Daemons : daemons'[d].phase = "closing" => ~Alive(d)'
    BY <1>1 DEF ProcessesRight, ClosedInOrder
  <2> QED
    BY <2>1, <2>2, <2>3 DEF ClosedInOrder
<1>3. \A d \in Daemons : SupervisedAs(daemons'[d], Alive(d)')
  BY <1>1 DEF ProcessesRight, SupervisedAs
<1> QED
  BY <1>1, <1>2, <1>3 DEF ProcessesRight, AllGoOn, GoesOn

-------------------------------------------------------------------------------
(* The steps *)

LEMMA OneFacts ==
    ASSUME LifeInv, NEW d \in Daemons
    PROVE  /\ daemons[d] \in DaemonType /\ SupervisedAs(daemons[d], Alive(d))
           /\ daemons \in [Daemons -> DaemonType]
           /\ apps \in [{Hand} \cup Daemons -> {"none", "starting", "shown", "quitting"}]
           /\ left \in 0..Faults
BY InvParts DEF ProcessesRight

LEMMA FaultFacts ==
    ASSUME left \in 0..Faults, Fault
    PROVE  left' \in 0..Faults
BY DEF Fault

\* A step of one daemon that no app takes part in.
LEMMA AloneKeeps ==
    ASSUME LifeInv, NEW d \in Daemons, NEW y \in DaemonType,
           daemons' = [daemons EXCEPT ![d] = y], left' \in 0..Faults,
           apps' = apps, commands' = commands,
           SupervisedAs(y, Alive(d)), GoesOn(daemons[d], y),
           y.phase = "serving" => Answers(d) \/ ~Answering
    PROVE  LifeInv'
<1>1. Alive(d)' <=> Alive(d)
  BY DEF Alive
<1>2. SupervisedAs(y, Alive(d)')
  BY <1>1 DEF SupervisedAs
<1> QED
  BY <1>2, DaemonStep, OthersKeep

LEMMA RunsKeeps ==
    ASSUME LifeInv, NEW d \in Daemons, DaemonRuns(d)
    PROVE  LifeInv'
<1> DEFINE x == daemons[d]
<1>1. x \in DaemonType /\ SupervisedAs(x, Alive(d)) /\ left \in 0..Faults
      /\ apps \in [{Hand} \cup Daemons -> {"none", "starting", "shown", "quitting"}]
  BY OneFacts
<1>2. CASE BindUi(d)
  <2> DEFINE y == [x EXCEPT !.phase = "bound", !.web = ~WebPortTaken]
  <2>1. daemons' = [daemons EXCEPT ![d] = y] /\ x.phase = "born"
        /\ commands' = commands /\ apps' = apps /\ left' = left
    BY <1>2 DEF BindUi
  <2>2. /\ y \in DaemonType /\ y.phase = "bound" /\ y.old = x.old /\ y.work = x.work
        /\ y.ui = x.ui /\ y.sup = x.sup /\ y.done = x.done
    BY <1>1 DEF DaemonType, WebPortTaken
  <2> HIDE DEF y
  <2>3. SupervisedAs(y, Alive(d)) /\ GoesOn(x, y)
    BY <1>1, <2>1, <2>2 DEF SupervisedAs, GoesOn
  <2> QED
    BY <1>1, <2>1, <2>2, <2>3, AloneKeeps
<1>3. CASE BindApi(d)
  <2> DEFINE y == IF Answering THEN Gone ELSE [x EXCEPT !.phase = "serving", !.sup = "top"]
  <2>1. daemons' = [daemons EXCEPT ![d] = y] /\ x.phase = "bound"
        /\ commands' = commands /\ apps' = apps /\ left' = left
    BY <1>3 DEF BindApi
  <2>2. CASE Answering
    <3>1. y = Gone
      BY <2>2
    <3>2. y \in DaemonType /\ SupervisedAs(y, Alive(d)) /\ GoesOn(x, y) /\ y.phase = "gone"
      BY <3>1, RecordFacts DEF GoesOn, Alive
    <3> HIDE DEF y
    <3> QED
      BY <1>1, <2>1, <3>2, AloneKeeps
  <2>3. CASE ~Answering
    <3>1. /\ y \in DaemonType /\ y.phase = "serving" /\ y.old = x.old /\ y.work = x.work
          /\ y.ui = x.ui /\ y.sup = "top" /\ y.done = x.done
      BY <1>1, <2>3 DEF DaemonType
    <3> HIDE DEF y
    <3>2. SupervisedAs(y, Alive(d)) /\ GoesOn(x, y)
      BY <1>1, <2>1, <3>1 DEF SupervisedAs, GoesOn
    <3> QED
      BY <1>1, <2>1, <2>3, <3>1, <3>2, AloneKeeps
  <2> QED
    BY <2>2, <2>3
<1>4. CASE Worked(d)
  <2> DEFINE z == BeginStop(x)
             y == IF z.sup = "off" THEN Sent(z) ELSE [z EXCEPT !.work = @ - 1, !.ui = @ + 1]
  <2>1. daemons' = [daemons EXCEPT ![d] = y] /\ x.work > 0
        /\ commands' = commands /\ apps' = apps /\ left' = left
    BY <1>4 DEF Worked
  <2>2. /\ z \in DaemonType /\ z.stopping /\ z.phase = x.phase /\ z.old = x.old
        /\ z.work = x.work /\ z.ui = x.ui /\ z.sup = x.sup /\ z.done = x.done
    BY <1>1, BeginStopFacts
  <2>3. x.phase = "serving"
    BY <1>1, <2>1 DEF SupervisedAs, DaemonType
  <2> HIDE DEF z
  <2>4. CASE z.sup = "off"
    <3>1. y = Sent(z)
      BY <2>4
    <3> HIDE DEF y
    <3>2. /\ y \in DaemonType /\ y.phase = "closing" /\ y.old = z.old
          /\ y.work = 0 /\ y.ui = 0 /\ y.sup = z.sup /\ y.done = z.done
      BY <2>2, <3>1, SentFacts
    <3>3. SupervisedAs(y, Alive(d)) /\ GoesOn(x, y)
      BY <1>1, <2>2, <2>3, <2>4, <3>2 DEF SupervisedAs, GoesOn
    <3> QED
      BY <1>1, <2>1, <3>2, <3>3, AloneKeeps
  <2>5. CASE z.sup # "off"
    <3>0. y = [z EXCEPT !.work = @ - 1, !.ui = @ + 1]
      BY <2>5
    <3> HIDE DEF y
    <3>1. /\ y \in DaemonType /\ y.phase = z.phase /\ y.old = z.old /\ y.stopping
          /\ y.work = z.work - 1 /\ y.ui = z.ui + 1 /\ y.sup = z.sup /\ y.done = z.done
      <4>1. z.work \in Nat /\ z.work > 0 /\ z.ui \in Nat
        BY <2>1, <2>2 DEF DaemonType
      <4>2. z.work - 1 \in Nat /\ z.ui + 1 \in Nat
        BY <4>1
      <4> QED
        BY <2>2, <3>0, <4>2 DEF DaemonType
    <3>2. SupervisedAs(y, Alive(d)) /\ GoesOn(x, y)
      BY <1>1, <2>2, <2>3, <3>1 DEF SupervisedAs, GoesOn
    <3> QED
      BY <1>1, <2>1, <2>3, <3>1, <3>2, AloneKeeps DEF Answers
  <2> QED
    BY <2>4, <2>5
<1>5. CASE UiStopped(d)
  <2> DEFINE z == Sent(x)
             y == [z EXCEPT !.done = FALSE]
  <2>1. daemons' = [daemons EXCEPT ![d] = y] /\ x.ui > 0 /\ (x.done \/ x.sup = "off")
        /\ commands' = commands /\ apps' = apps /\ left' = left
    BY <1>5 DEF UiStopped
  <2>2. /\ z \in DaemonType /\ z.phase = "closing" /\ z.old = x.old
        /\ z.work = 0 /\ z.ui = 0 /\ z.sup = x.sup
    BY <1>1, SentFacts
  <2>3. x.phase = "serving" /\ x.sup = "off"
    BY <1>1, <2>1 DEF SupervisedAs, DaemonType
  <2> HIDE DEF z
  <2>4. /\ y \in DaemonType /\ y.phase = "closing" /\ y.old = x.old
        /\ y.work = 0 /\ y.ui = 0 /\ y.sup = x.sup
    BY <2>2 DEF DaemonType
  <2> HIDE DEF y
  <2>5. SupervisedAs(y, Alive(d)) /\ GoesOn(x, y)
    BY <1>1, <2>3, <2>4 DEF SupervisedAs, GoesOn
  <2> QED
    BY <1>1, <2>1, <2>4, <2>5, AloneKeeps
<1>6. CASE Exit(d)
  <2>1. daemons' = [daemons EXCEPT ![d] = Gone] /\ apps' = [apps EXCEPT ![d] = "none"]
        /\ commands' = commands /\ left' = left
    BY <1>6 DEF Exit
  <2>2. SupervisedAs(Gone, Alive(d)') /\ GoesOn(x, Gone) /\ Gone \in DaemonType
        /\ Gone.phase = "gone"
    BY RecordFacts DEF GoesOn, Alive
  <2> QED
    BY <1>1, <2>1, <2>2, DaemonStep, OthersKeep
<1> QED
  BY <1>2, <1>3, <1>4, <1>5, <1>6 DEF DaemonRuns

LEMMA SupervisorKeeps ==
    ASSUME LifeInv, NEW d \in Daemons, Supervise(d) \/ LaunchFails(d)
    PROVE  LifeInv'
<1> DEFINE x == daemons[d]
<1>1. x \in DaemonType /\ SupervisedAs(x, Alive(d)) /\ left \in 0..Faults
      /\ apps \in [{Hand} \cup Daemons -> {"none", "starting", "shown", "quitting"}]
      /\ daemons \in [Daemons -> DaemonType]
  BY OneFacts
<1>2. /\ End(x) \in DaemonType /\ End(x).phase = x.phase /\ End(x).old = x.old
      /\ End(x).work = x.work /\ End(x).ui = x.ui /\ End(x).stopping = x.stopping
      /\ End(x).sup = "off" /\ End(x).done
  BY <1>1, EndFacts
<1>3. ASSUME x.sup # "off", ~Alive(d)
      PROVE  SupervisedAs(End(x), Alive(d)) /\ GoesOn(x, End(x)) /\ End(x).phase = "serving"
             /\ Answers(d)
  BY <1>1, <1>2, <1>3 DEF SupervisedAs, GoesOn, Answers
\* The task goes on to a place where its app may be alive, or is not.
<1>4. ASSUME NEW s \in {"top", "spawn", "wait", "grace", "backoff"}, NEW b \in BOOLEAN,
             x.sup # "off", ~Alive(d) \/ s \in {"wait", "grace"}
      PROVE  LET y == [x EXCEPT !.sup = s, !.stop = b]
             IN  /\ y \in DaemonType /\ SupervisedAs(y, Alive(d)) /\ GoesOn(x, y)
                 /\ y.phase = "serving" => Answers(d)
  <2> DEFINE y == [x EXCEPT !.sup = s, !.stop = b]
  <2>1. /\ y \in DaemonType /\ y.phase = x.phase /\ y.old = x.old /\ y.work = x.work
        /\ y.ui = x.ui /\ y.stopping = x.stopping /\ y.sup = s /\ y.done = x.done
    BY <1>1 DEF DaemonType
  <2> HIDE DEF y
  <2>2. SupervisedAs(y, Alive(d)) /\ GoesOn(x, y) /\ (y.phase = "serving" => Answers(d))
    BY <1>1, <1>4, <2>1 DEF SupervisedAs, GoesOn, Answers
  <2> QED
    BY <2>1, <2>2 DEF y
<1>5. \A s \in {"top", "spawn", "wait", "grace", "backoff"} :
         [x EXCEPT !.sup = s] = [x EXCEPT !.sup = s, !.stop = x.stop]
  BY <1>1 DEF DaemonType
<1>6. x.stop \in BOOLEAN
  BY <1>1 DEF DaemonType
<1> HIDE DEF x
<1>7. CASE Check(d)
  <2>1. x.sup = "top" /\ commands' = commands /\ apps' = apps /\ left' = left
        /\ daemons' = [daemons EXCEPT ![d] =
                         IF x.stopping THEN End(x) ELSE [x EXCEPT !.sup = "spawn"]]
    BY <1>7 DEF Check, x
  <2>2. ~Alive(d)
    BY <1>1, <2>1 DEF SupervisedAs
  <2>3. CASE x.stopping
    BY <1>1, <1>2, <1>3, <2>1, <2>2, <2>3, AloneKeeps DEF x
  <2>4. CASE ~x.stopping
    <3>1. daemons' = [daemons EXCEPT ![d] = [x EXCEPT !.sup = "spawn", !.stop = x.stop]]
      BY <1>5, <2>1, <2>4
    <3> QED
      BY <1>1, <1>4, <1>6, <2>1, <2>2, <3>1, AloneKeeps DEF x
  <2> QED
    BY <2>3, <2>4
<1>8. CASE Slept(d)
  <2>1. x.sup = "backoff" /\ commands' = commands /\ apps' = apps /\ left' = left
        /\ daemons' = [daemons EXCEPT ![d] = [x EXCEPT !.sup = "top", !.stop = x.stop]]
    BY <1>5, <1>8 DEF Slept, x
  <2>2. ~Alive(d)
    BY <1>1, <2>1 DEF SupervisedAs
  <2> QED
    BY <1>1, <1>4, <1>6, <2>1, <2>2, AloneKeeps DEF x
<1>9. CASE Reap(d)
  <2>1. x.sup \in {"wait", "grace"} /\ ~Alive(d)
        /\ commands' = commands /\ apps' = apps /\ left' = left
        /\ daemons' = [daemons EXCEPT ![d] =
                         IF x.stopping THEN End(x) ELSE [x EXCEPT !.sup = "backoff"]]
    BY <1>9 DEF Reap, x
  <2>3. CASE x.stopping
    BY <1>1, <1>2, <1>3, <2>1, <2>3, AloneKeeps DEF x
  <2>4. CASE ~x.stopping
    <3>1. daemons' = [daemons EXCEPT ![d] = [x EXCEPT !.sup = "backoff", !.stop = x.stop]]
      BY <1>5, <2>1, <2>4
    <3> QED
      BY <1>1, <1>4, <1>6, <2>1, <3>1, AloneKeeps DEF x
  <2> QED
    BY <2>3, <2>4
<1>10. CASE Notified(d)
  <2> DEFINE z == [x EXCEPT !.stop = FALSE]
             y == IF z.sup = "wait" THEN [z EXCEPT !.sup = "grace"] ELSE End(z)
  <2>1. x.sup \in {"wait", "backoff"} /\ commands' = commands /\ apps' = apps /\ left' = left
        /\ daemons' = [daemons EXCEPT ![d] = y]
    BY <1>10 DEF Notified, x
  <2>2. /\ z \in DaemonType /\ z.phase = x.phase /\ z.old = x.old /\ z.work = x.work
        /\ z.ui = x.ui /\ z.stopping = x.stopping /\ z.sup = x.sup
    BY <1>1 DEF DaemonType
  <2>3. CASE x.sup = "wait"
    <3>1. y = [x EXCEPT !.sup = "grace", !.stop = FALSE]
      BY <1>1, <2>2, <2>3 DEF DaemonType
    <3> HIDE DEF y
    <3> QED
      BY <1>1, <1>4, <2>1, <2>3, <3>1, AloneKeeps DEF x
  <2>4. CASE x.sup = "backoff"
    <3>1. y = End(z)
      BY <2>2, <2>4
    <3>2. /\ y \in DaemonType /\ y.phase = z.phase /\ y.old = z.old /\ y.work = z.work
          /\ y.ui = z.ui /\ y.stopping = z.stopping /\ y.sup = "off" /\ y.done
      BY <2>2, <3>1, EndFacts
    <3> HIDE DEF y, z
    <3>3. SupervisedAs(y, Alive(d)) /\ GoesOn(x, y) /\ Answers(d)
      BY <1>1, <2>2, <2>4, <3>2 DEF SupervisedAs, GoesOn, Answers, x
    <3> QED
      BY <1>1, <2>1, <3>2, <3>3, AloneKeeps DEF x
  <2> QED
    BY <2>1, <2>3, <2>4
<1>11. CASE LaunchFails(d)
  <2>1. x.sup = "spawn" /\ commands' = commands /\ apps' = apps
        /\ daemons' = [daemons EXCEPT ![d] = End(x)]
    BY <1>11 DEF LaunchFails, x
  <2>2. ~Alive(d)
    BY <1>1, <2>1 DEF SupervisedAs
  <2>3. left' \in 0..Faults
    BY <1>1, <1>11, FaultFacts DEF LaunchFails
  <2> QED
    BY <1>1, <1>2, <1>3, <2>1, <2>2, <2>3, AloneKeeps DEF x
<1>12. CASE Kill(d)
  <2>1. commands' = commands /\ daemons' = daemons /\ left' = left
        /\ apps' = [apps EXCEPT ![d] = "none"]
    BY <1>12 DEF Kill
  <2>2. /\ apps' \in [{Hand} \cup Daemons -> {"none", "starting", "shown", "quitting"}]
        /\ \A a \in {Hand} \cup Daemons : apps'[a] = apps[a] \/ apps'[a] = "none"
    BY <1>1, <2>1
  <2>3. /\ \A e \in Daemons : Alive(e)' => Alive(e)
        /\ \A a, b \in {Hand} \cup Daemons : Primary(a)' /\ Primary(b)' => a = b
    BY <1>1, <2>2, InvParts DEF ProcessesRight, ClosedInOrder, Alive, Primary
  <2> QED
    BY <1>1, <2>1, <2>2, <2>3, AppStep, OthersKeep
<1>13. CASE Launch(d)
  \* Only here is a daemon's app started.
  <2> DEFINE y == [x EXCEPT !.sup = "wait", !.stop = x.stop]
  <2>1. x.sup = "spawn" /\ commands' = commands /\ left' = left
        /\ daemons' = [daemons EXCEPT ![d] = y]
        /\ apps' = [apps EXCEPT ![d] = "starting"]
    BY <1>5, <1>13 DEF Launch, x
  <2>2. /\ y \in DaemonType /\ y.phase = x.phase /\ y.old = x.old /\ y.work = x.work
        /\ y.ui = x.ui /\ y.stopping = x.stopping /\ y.sup = "wait" /\ y.done = x.done
    BY <1>1 DEF DaemonType
  <2>3. x.phase = "serving" /\ SupervisedAs(y, TRUE) /\ GoesOn(x, y)
    BY <1>1, <2>1, <2>2 DEF SupervisedAs, GoesOn
  <2> HIDE DEF y
  <2>4. /\ daemons' \in [Daemons -> DaemonType] /\ daemons'[d] = y
        /\ \A e \in Daemons : e # d => daemons'[e] = daemons[e]
    BY <1>1, <2>1, <2>2
  <2>5. /\ apps' \in [{Hand} \cup Daemons -> {"none", "starting", "shown", "quitting"}]
        /\ \A a \in {Hand} \cup Daemons : a # d => apps'[a] = apps[a]
        /\ apps'[d] = "starting" /\ DOMAIN apps = {Hand} \cup Daemons
        /\ DOMAIN apps' = {Hand} \cup Daemons
    BY <1>1, <2>1
  <2>6. ProcessesRight
    BY InvParts
  <2>7. \A e \in Daemons : SupervisedAs(daemons'[e], Alive(e)')
    <3> TAKE e \in Daemons
    <3>1. CASE e = d
      BY <2>3, <2>4, <2>5, <3>1 DEF SupervisedAs
    <3>2. CASE e # d
      BY <2>4, <2>5, <2>6, <3>2 DEF Alive, ProcessesRight
    <3> QED
      BY <3>1, <3>2
  <2>8. ClosedInOrder'
    <3>1. \A e, f \in Daemons : Answers(e)' /\ Answers(f)' => e = f
      BY <2>2, <2>4, <2>6 DEF ProcessesRight, ClosedInOrder, Answers, x
    <3>2. \A a, b \in DOMAIN apps' : Primary(a)' /\ Primary(b)' => a = b
      BY <2>5, <2>6 DEF ProcessesRight, ClosedInOrder, Primary
    <3> QED
      BY <2>7, <3>1, <3>2 DEF ClosedInOrder, SupervisedAs
  <2>9. AllGoOn
    BY <2>3, <2>4 DEF AllGoOn, GoesOn, x
  <2>10. ProcessesRight'
    BY <1>1, <2>1, <2>4, <2>5, <2>7, <2>8 DEF ProcessesRight
  <2> QED
    BY <2>1, <2>9, <2>10, OthersKeep
<1> QED
  BY <1>7, <1>8, <1>9, <1>10, <1>11, <1>12, <1>13 DEF Supervise

LEMMA CrashKeeps ==
    ASSUME LifeInv, NEW d \in Daemons, Crash(d) \/ Signal(d)
    PROVE  LifeInv'
<1> DEFINE x == daemons[d]
<1>1. x \in DaemonType /\ SupervisedAs(x, Alive(d)) /\ left' \in 0..Faults
  BY OneFacts, FaultFacts DEF Crash, Signal
<1>2. CASE Crash(d)
  <2>1. SupervisedAs(Gone, Alive(d)) /\ GoesOn(x, Gone) /\ Gone \in DaemonType
        /\ Gone.phase = "gone"
    BY RecordFacts DEF GoesOn, Alive
  <2> QED
    BY <1>1, <1>2, <2>1, AloneKeeps DEF Crash
<1>3. CASE Signal(d)
  <2> DEFINE y == ShutdownAll(x)
  <2>1. /\ y \in DaemonType /\ y.stopping /\ y.phase = x.phase /\ y.old = x.old
        /\ y.ui = x.ui /\ y.work = x.work + 1 /\ y.sup = x.sup /\ y.done = x.done
    BY <1>1, ShutdownAllFacts
  <2>2. daemons' = [daemons EXCEPT ![d] = y] /\ Answers(d) /\ UNCHANGED <<commands, apps>>
    BY <1>3 DEF Signal
  <2> HIDE DEF y
  <2>3. SupervisedAs(y, Alive(d)) /\ GoesOn(x, y)
    BY <1>1, <2>1, <2>2 DEF SupervisedAs, GoesOn, Answers
  <2> QED
    BY <1>1, <2>1, <2>2, <2>3, AloneKeeps
<1> QED
  BY <1>2, <1>3

\* One app at most shows itself; the others can only go.
LEMMA AppKeeps ==
    ASSUME LifeInv,
           \/ \E d \in Daemons : App(d)
           \/ HandLaunch \/ QuitFallback(Hand)
           \/ \E a \in DOMAIN apps : AppDies(a)
    PROVE  LifeInv'
<1> DEFINE States == {"none", "starting", "shown", "quitting"}
           Apps == {Hand} \cup Daemons
<1>1. /\ apps \in [Apps -> States] /\ DOMAIN apps = Apps /\ left \in 0..Faults
      /\ \A a, b \in Apps : Primary(a) /\ Primary(b) => a = b
  BY InvParts DEF ProcessesRight, ClosedInOrder
<1>2. daemons' = daemons /\ commands' = commands /\ left' \in 0..Faults
  BY <1>1, FaultFacts DEF App, Register, Lifeline, QuitFallback, HandLaunch, AppDies
\* An app that goes, whoever ends it.
<1>3. ASSUME NEW a \in Apps, apps' = [apps EXCEPT ![a] = "none"]
      PROVE  LifeInv'
  <2>1. apps' \in [Apps -> States] /\ \A b \in Apps : apps'[b] = apps[b] \/ apps'[b] = "none"
    BY <1>1, <1>3
  <2>2. /\ \A d \in Daemons : Alive(d)' => Alive(d)
        /\ \A b, c \in Apps : Primary(b)' /\ Primary(c)' => b = c
    BY <1>1, <2>1 DEF Alive, Primary
  <2> QED
    BY <1>2, <2>1, <2>2, AppStep, OthersKeep
<1>4. ASSUME NEW d \in Daemons, Register(d)
      PROVE  LifeInv'
  <2>1. apps[d] = "starting"
    BY <1>4 DEF Register
  <2>2. CASE \E a \in DOMAIN apps : Primary(a)
    <3>1. apps' = [apps EXCEPT ![d] = "none", ![Hand] = "none"]
      BY <1>4, <2>2 DEF Register
    <3>2. apps' \in [Apps -> States] /\ \A b \in Apps : apps'[b] = apps[b] \/ apps'[b] = "none"
      BY <1>1, <3>1
    <3>3. /\ \A e \in Daemons : Alive(e)' => Alive(e)
          /\ \A b, c \in Apps : Primary(b)' /\ Primary(c)' => b = c
      BY <1>1, <3>2 DEF Alive, Primary
    <3> QED
      BY <1>2, <3>2, <3>3, AppStep, OthersKeep
  <2>3. CASE ~ \E a \in DOMAIN apps : Primary(a)
    <3>1. apps' = [apps EXCEPT ![d] = "shown"]
      BY <1>4, <2>3 DEF Register
    <3>2. apps' \in [Apps -> States] /\ \A b \in Apps : b # d => apps'[b] = apps[b]
      BY <1>1, <3>1
    <3>3. /\ \A e \in Daemons : Alive(e)' => Alive(e)
          /\ \A b, c \in Apps : Primary(b)' /\ Primary(c)' => b = c
      BY <1>1, <2>1, <2>3, <3>2 DEF Alive, Primary
    <3> QED
      BY <1>2, <3>2, <3>3, AppStep, OthersKeep
  <2> QED
    BY <2>2, <2>3
<1>5. ASSUME HandLaunch
      PROVE  LifeInv'
  <2>1. apps' = [apps EXCEPT ![Hand] = "shown"] /\ \A a \in Apps : ~Primary(a)
    BY <1>1, <1>5 DEF HandLaunch
  <2>2. /\ apps' \in [Apps -> States] /\ \A b \in Apps : b # Hand => apps'[b] = apps[b]
        /\ \A d \in Daemons : d # Hand
    BY <1>1, <2>1 DEF Hand, Daemons
  <2>3. /\ \A d \in Daemons : Alive(d)' => Alive(d)
        /\ \A b, c \in Apps : Primary(b)' /\ Primary(c)' => b = c
    BY <1>1, <2>1, <2>2 DEF Alive, Primary
  <2> QED
    BY <1>2, <2>2, <2>3, AppStep, OthersKeep
<1>6. CASE \E d \in Daemons : App(d)
  BY <1>3, <1>4, <1>6 DEF App, Lifeline, QuitFallback
<1>7. CASE QuitFallback(Hand) \/ \E a \in DOMAIN apps : AppDies(a)
  BY <1>1, <1>3, <1>7 DEF QuitFallback, AppDies
<1> QED
  BY <1>5, <1>6, <1>7

\* The quit of an app asks the daemon that answers, of which there is one at most.
LEMMA QuitKeeps ==
    ASSUME LifeInv, NEW a \in DOMAIN apps, Quit(a)
    PROVE  LifeInv'
<1> DEFINE States == {"none", "starting", "shown", "quitting"}
           Apps == {Hand} \cup Daemons
<1>1. ProcessesRight /\ apps \in [Apps -> States] /\ DOMAIN apps = Apps
  BY InvParts DEF ProcessesRight
<1>2. /\ daemons' = [d \in Daemons |->
                       IF Answers(d) THEN ShutdownAll(daemons[d]) ELSE daemons[d]]
      /\ apps' = [apps EXCEPT ![a] = "quitting"] /\ apps[a] = "shown"
      /\ commands' = commands /\ left' \in 0..Faults
  BY <1>1, FaultFacts DEF Quit, ProcessesRight
<1>3. /\ apps' \in [Apps -> States] /\ DOMAIN apps' = Apps
      /\ \A b \in Apps : Alive(b)' <=> Alive(b)
      /\ \A b \in Apps : Primary(b)' <=> Primary(b)
  BY <1>1, <1>2 DEF Alive, Primary
<1>4. ASSUME NEW d \in Daemons
      PROVE  /\ daemons'[d] \in DaemonType /\ daemons'[d].phase = daemons[d].phase
             /\ SupervisedAs(daemons'[d], Alive(d)') /\ GoesOn(daemons[d], daemons'[d])
  <2> DEFINE x == daemons[d]
             y == ShutdownAll(x)
  <2>0. x \in DaemonType /\ SupervisedAs(x, Alive(d))
    BY <1>1 DEF ProcessesRight
  <2>1. /\ y \in DaemonType /\ y.stopping /\ y.phase = x.phase /\ y.old = x.old
        /\ y.ui = x.ui /\ y.work = x.work + 1 /\ y.sup = x.sup /\ y.done = x.done
    BY <2>0, ShutdownAllFacts
  <2>2. CASE Answers(d)
    <3>1. daemons'[d] = y
      BY <1>2, <2>2
    <3> HIDE DEF y
    <3> QED
      BY <1>3, <2>0, <2>1, <2>2, <3>1 DEF SupervisedAs, GoesOn, Answers
  <2>3. CASE ~Answers(d)
    <3>1. daemons'[d] = x
      BY <1>2, <2>3
    <3> QED
      BY <1>3, <2>0, <3>1 DEF SupervisedAs, GoesOn
  <2> QED
    BY <2>2, <2>3
<1>5. daemons' \in [Daemons -> DaemonType]
  BY <1>2, <1>4
<1>6. ClosedInOrder'
  <2>1. \A d, e \in Daemons : Answers(d)' /\ Answers(e)' => d = e
    BY <1>1, <1>4 DEF ProcessesRight, ClosedInOrder, Answers
  <2>2. \A b, c \in DOMAIN apps' : Primary(b)' /\ Primary(c)' => b = c
    BY <1>1, <1>3 DEF ProcessesRight, ClosedInOrder
  <2> QED
    BY <1>4, <2>1, <2>2 DEF ClosedInOrder, SupervisedAs
<1>7. ProcessesRight' /\ AllGoOn
  BY <1>2, <1>3, <1>4, <1>5, <1>6 DEF ProcessesRight, AllGoOn
<1> QED
  BY <1>2, <1>7, OthersKeep

\* A step of a command that changes no daemon.
LEMMA CommandAlone ==
    ASSUME LifeInv, UNCHANGED <<daemons, apps, left>>, NEW c \in Clis, NEW y \in CommandType,
           commands' = [commands EXCEPT ![c] = y], CommandRight(y)
    PROVE  LifeInv'
<1>1. daemons' = daemons /\ apps' = apps /\ left' = left
  OBVIOUS
<1>2. ProcessesRight'
  BY <1>1, InvParts DEF ProcessesRight, ClosedInOrder, Answers, Alive, Primary
<1>3. AllGoOn
  BY <1>1 DEF AllGoOn, GoesOn
<1>4. CommandRight(y)'
  BY <1>1 DEF CommandRight, Answers
<1> QED
  BY <1>2, <1>3, <1>4, CommandsStay

LEMMA CommandToFacts ==
    ASSUME LifeInv, NEW c \in Clis, NEW step \in CommandSteps, CommandTo(c, step)
    PROVE  \E y \in CommandType :
              /\ commands' = [commands EXCEPT ![c] = y]
              /\ y.step = step /\ y.op = commands[c].op /\ y.asked \in {0, commands[c].asked}
              /\ step \notin {"ok", "failed"} => y.asked = commands[c].asked
<1>1. commands \in [Clis -> CommandType] /\ 0 \in 0..UpTries /\ 0 \in 0..MaxDaemons
  BY InvParts
<1> DEFINE x == commands[c]
           y == IF step \in {"ok", "failed"} THEN [NoCommand EXCEPT !.op = x.op, !.step = step]
                                             ELSE [x EXCEPT !.step = step]
<1>2. commands' = [commands EXCEPT ![c] = y]
  BY DEF CommandTo
<1>3. x \in CommandType
  BY <1>1
<1>4. CASE step \in {"ok", "failed"}
  <2>1. y = [NoCommand EXCEPT !.op = x.op, !.step = step]
    BY <1>4
  <2>2. y \in CommandType /\ y.step = step /\ y.op = x.op /\ y.asked = 0
    BY <1>1, <1>3, <2>1 DEF NoCommand, CommandType
  <2> QED
    BY <1>2, <1>4, <2>2
<1>5. CASE step \notin {"ok", "failed"}
  <2>1. y = [x EXCEPT !.step = step]
    BY <1>5
  <2>2. y \in CommandType /\ y.step = step /\ y.op = x.op /\ y.asked = x.asked
    BY <1>3, <2>1 DEF CommandType
  <2> QED
    BY <1>2, <2>2
<1> QED
  BY <1>4, <1>5

LEMMA CallKeeps ==
    ASSUME LifeInv, NEW c \in Clis, NEW op \in {"start", "stop"}, Call(c, op)
    PROVE  LifeInv'
<1> DEFINE x == commands[c]
           y == [x EXCEPT !.op = op, !.step = IF op = "start" THEN "ping" ELSE "post"]
<1>1. commands \in [Clis -> CommandType] /\ x \in CommandType
  BY InvParts
<1>2. commands' = [commands EXCEPT ![c] = y] /\ UNCHANGED <<daemons, apps, left>>
  BY <1>1 DEF Call
<1>3. y \in CommandType /\ y.op = op /\ y.step = IF op = "start" THEN "ping" ELSE "post"
  BY <1>1 DEF CommandType, CommandSteps
<1> HIDE DEF y
<1>4. CommandRight(y)
  BY <1>3 DEF CommandRight
<1> QED
  BY <1>2, <1>3, <1>4, CommandAlone

LEMMA CommandKeeps ==
    ASSUME LifeInv, NEW c \in Clis, Command(c)
    PROVE  LifeInv'
<1> DEFINE x == commands[c]
<1>1. commands \in [Clis -> CommandType] /\ x \in CommandType /\ CommandRight(x)
  BY InvParts
<1>2. ProcessesRight
  BY InvParts
\* A command that goes on, or returns, with the daemons as they are.
<1>3. ASSUME NEW step \in CommandSteps, CommandTo(c, step), UNCHANGED <<daemons, apps, left>>,
             step \in {"ping", "spawn", "wait"} => x.op = "start",
             step \in {"spawn", "wait"} => \A d \in Daemons : daemons[d].old => ~Answers(d),
             step # "poll"
      PROVE  LifeInv'
  <2>1. PICK y \in CommandType :
              /\ commands' = [commands EXCEPT ![c] = y]
              /\ y.step = step /\ y.op = commands[c].op
    BY <1>3, CommandToFacts
  <2>2. CommandRight(y)
    BY <1>3, <2>1 DEF CommandRight
  <2> QED
    BY <1>3, <2>1, <2>2, CommandAlone
<1>4. CASE Ping(c)
  <2>1. x.step = "ping" /\ x.op = "start" /\ UNCHANGED <<daemons, apps, left>>
    BY <1>1, <1>4 DEF Ping, CommandRight
  <2>2. CASE Answering
    <3>1. CommandTo(c, "post") \/ CommandTo(c, "ok")
      BY <1>4, <2>2 DEF Ping
    <3> QED
      BY <1>3, <2>1, <3>1 DEF CommandSteps
  <2>3. CASE ~Answering
    <3>1. CommandTo(c, "spawn")
      BY <1>4, <2>3 DEF Ping
    <3> QED
      BY <1>3, <2>1, <2>3, <3>1 DEF CommandSteps, Answering
  <2> QED
    BY <2>2, <2>3
<1>5. CASE Stopped(c) \/ StopTimeout(c)
  <2>1. x.step = "poll" /\ UNCHANGED <<daemons, apps, left>>
    BY <1>5 DEF Stopped, StopTimeout
  <2>2. CASE Stopped(c)
    <3>1. ~Answering /\ CommandTo(c, IF x.op = "start" THEN "spawn" ELSE "ok")
      BY <2>2 DEF Stopped
    <3>2. CASE x.op = "start"
      BY <1>3, <2>1, <3>1, <3>2 DEF CommandSteps, Answering
    <3>3. CASE x.op # "start"
      BY <1>3, <2>1, <3>1, <3>3 DEF CommandSteps
    <3> QED
      BY <3>2, <3>3
  <2>3. CASE StopTimeout(c)
    BY <1>3, <2>1, <2>3 DEF CommandSteps, StopTimeout
  <2> QED
    BY <1>5, <2>2, <2>3
<1>6. CASE Post(c)
  <2>1. CASE ~Answering
    BY <1>3, <1>6, <2>1 DEF Post, CommandSteps
  <2>2. CASE Answering
    <3>1. PICK d \in Daemons :
              /\ Answers(d)
              /\ daemons' = [daemons EXCEPT ![d] = ShutdownAll(daemons[d])]
              /\ commands' = [commands EXCEPT ![c].step = "poll", ![c].asked = d]
      BY <1>6, <2>2 DEF Post
    <3> DEFINE z == ShutdownAll(daemons[d])
    <3>2. daemons[d] \in DaemonType /\ SupervisedAs(daemons[d], Alive(d))
          /\ daemons \in [Daemons -> DaemonType] /\ left \in 0..Faults
      BY OneFacts
    <3>3. /\ z \in DaemonType /\ z.stopping /\ z.phase = daemons[d].phase
          /\ z.old = daemons[d].old /\ z.ui = daemons[d].ui /\ z.work = daemons[d].work + 1
          /\ z.sup = daemons[d].sup /\ z.done = daemons[d].done
      BY <3>2, ShutdownAllFacts
    <3>4. PICK y \in CommandType :
              y = [x EXCEPT !.step = "poll", !.asked = d] /\ y.step = "poll" /\ y.asked = d
      <4>1. d \in 0..MaxDaemons
        BY DEF Daemons
      <4> DEFINE w == [x EXCEPT !.step = "poll", !.asked = d]
      <4>2. w \in CommandType /\ w.step = "poll" /\ w.asked = d
        BY <1>1, <4>1 DEF CommandType, CommandSteps
      <4> QED
        BY <4>2
    <3>5. commands' = [commands EXCEPT ![c] = y] /\ apps' = apps /\ left' = left
      BY <1>1, <1>6, <3>1, <3>4 DEF Post
    <3> HIDE DEF z
    <3>6. SupervisedAs(z, Alive(d)') /\ GoesOn(daemons[d], z)
      BY <3>1, <3>2, <3>3, <3>5 DEF SupervisedAs, GoesOn, Answers, Alive
    <3>7. daemons' = [daemons EXCEPT ![d] = z]
      BY <3>1 DEF z
    <3>8. ProcessesRight' /\ AllGoOn
      BY <3>1, <3>2, <3>3, <3>5, <3>6, <3>7, DaemonStep
    <3>9. daemons'[d] = z
      BY <3>2, <3>7
    <3>10. CommandRight(y)'
      BY <3>1, <3>3, <3>4, <3>9 DEF CommandRight, Answers
    <3> QED
      BY <3>4, <3>5, <3>8, <3>10, CommandsStay
  <2> QED
    BY <2>1, <2>2
<1>7. CASE Spawn(c)
  <2>1. PICK d \in Daemons :
            /\ daemons[d].phase = "none"
            /\ daemons' = [daemons EXCEPT ![d].phase = "born"]
    BY <1>7 DEF Spawn
  <2>2. x.step = "spawn" /\ apps' = apps /\ left' = left
        /\ commands' = [commands EXCEPT ![c].step = "wait", ![c].tries = UpTries]
    BY <1>7 DEF Spawn
  <2> DEFINE z == [daemons[d] EXCEPT !.phase = "born"]
  <2>3. daemons[d] \in DaemonType /\ SupervisedAs(daemons[d], Alive(d))
        /\ daemons \in [Daemons -> DaemonType] /\ left \in 0..Faults
    BY OneFacts
  <2>4. daemons' = [daemons EXCEPT ![d] = z]
    BY <2>1, <2>3
  <2>5. /\ z \in DaemonType /\ z.phase = "born" /\ z.old = daemons[d].old
        /\ z.ui = daemons[d].ui /\ z.work = daemons[d].work
        /\ z.sup = daemons[d].sup /\ z.done = daemons[d].done
    BY <2>3 DEF DaemonType
  <2>6. UpTries \in 0..UpTries
    OBVIOUS
  <2>7. PICK y \in CommandType :
            /\ commands' = [commands EXCEPT ![c] = y]
            /\ y.step = "wait" /\ y.op = x.op
    <3> DEFINE w == [x EXCEPT !.step = "wait", !.tries = UpTries]
    <3>1. w \in CommandType /\ w.step = "wait" /\ w.op = x.op
      BY <1>1, <2>6 DEF CommandType, CommandSteps
    <3>2. commands' = [commands EXCEPT ![c] = w]
      BY <1>1, <2>2
    <3> QED
      BY <3>1, <3>2
  <2> HIDE DEF z
  <2>8. SupervisedAs(z, Alive(d)') /\ GoesOn(daemons[d], z)
    BY <2>1, <2>2, <2>3, <2>5 DEF SupervisedAs, GoesOn, Alive
  <2>9. ProcessesRight' /\ AllGoOn
    BY <2>2, <2>3, <2>4, <2>5, <2>8, DaemonStep
  <2>10. \A e \in Daemons : daemons'[e].old => daemons[e].old /\ ~Answers(e)
    BY <1>1, <2>2, <2>9 DEF CommandRight, AllGoOn, GoesOn
  <2>11. \A e \in Daemons : daemons'[e].old => ~Answers(e)'
    BY <2>9, <2>10 DEF AllGoOn, GoesOn, Answers
  <2>12. CommandRight(y)'
    BY <1>1, <2>2, <2>7, <2>11 DEF CommandRight
  <2> QED
    BY <2>7, <2>9, <2>12, CommandsStay
<1>8. CASE WaitUp(c)
  <2>1. x.step = "wait" /\ UNCHANGED <<daemons, apps, left>>
    BY <1>8 DEF WaitUp
  <2>2. CASE x.tries = 0 \/ Answering
    <3>1. CommandTo(c, "failed") \/ CommandTo(c, "ok")
      BY <1>8, <2>2 DEF WaitUp
    <3> QED
      BY <1>3, <2>1, <3>1 DEF CommandSteps
  <2>3. CASE x.tries # 0 /\ ~Answering
    <3> DEFINE y == [x EXCEPT !.tries = @ - 1]
    <3>1. commands' = [commands EXCEPT ![c] = y]
      BY <1>1, <1>8, <2>3 DEF WaitUp
    <3>2. x.tries - 1 \in 0..UpTries
      BY <1>1, <2>3 DEF CommandType
    <3>3. y \in CommandType /\ y.step = x.step /\ y.op = x.op /\ y.asked = x.asked
      BY <1>1, <3>2 DEF CommandType
    <3> HIDE DEF y
    <3>4. CommandRight(y)
      BY <1>1, <3>3 DEF CommandRight
    <3> QED
      BY <2>1, <3>1, <3>3, <3>4, CommandAlone
  <2> QED
    BY <2>2, <2>3
<1> QED
  BY <1>4, <1>5, <1>6, <1>7, <1>8 DEF Command

LEMMA InitLife ==
    ASSUME LifeInit
    PROVE  LifeInv
<1>1. PICK first \in {NoDaemon, OldDaemon} :
          daemons = [d \in Daemons |-> IF d = 1 THEN first ELSE NoDaemon]
  BY DEF LifeInit
<1>2. /\ commands = [c \in Clis |-> NoCommand] /\ left = Faults
      /\ apps = [a \in {Hand} \cup Daemons |-> "none"]
  BY DEF LifeInit
<1>3. 0 \in 0..UpTries /\ 0 \in 0..MaxDaemons /\ Faults \in 0..Faults
  OBVIOUS
<1>4. NoCommand \in CommandType /\ NoCommand.step = "none"
  BY <1>3 DEF NoCommand, CommandType, CommandSteps
<1>5. commands \in [Clis -> CommandType] /\ \A c \in Clis : CommandRight(commands[c])
  BY <1>2, <1>4 DEF CommandRight
<1>6. \A d \in Daemons : daemons[d] \in {first, NoDaemon} /\ ~Alive(d)
                         /\ (daemons[d] = first \/ d # 1)
  BY <1>1, <1>2 DEF Alive
<1>7. daemons \in [Daemons -> DaemonType]
  BY <1>1, RecordFacts
<1>8. \A d \in Daemons : SupervisedAs(daemons[d], Alive(d)) /\ daemons[d].phase # "closing"
  <2> TAKE d \in Daemons
  <2>1. first = NoDaemon \/ first = OldDaemon
    BY <1>1
  <2>2. daemons[d] = NoDaemon \/ daemons[d] = OldDaemon
    BY <1>6, <2>1
  <2>3. Alive(d) = FALSE
    BY <1>6 DEF Alive
  <2>4. CASE daemons[d] = NoDaemon
    BY <2>3, <2>4, RecordFacts DEF SupervisedAs
  <2>5. CASE daemons[d] = OldDaemon
    BY <2>3, <2>5, RecordFacts DEF SupervisedAs
  <2> QED
    BY <2>2, <2>4, <2>5
<1>9. ClosedInOrder
  <2>1. \A d, e \in Daemons : Answers(d) /\ Answers(e) => d = e
    BY <1>1, RecordFacts DEF Answers
  <2>2. \A a \in DOMAIN apps : ~Primary(a)
    BY <1>2 DEF Primary
  <2> QED
    BY <1>8, <2>1, <2>2 DEF ClosedInOrder
<1>10. ProcessesRight
  BY <1>2, <1>3, <1>7, <1>8, <1>9 DEF ProcessesRight
<1> QED
  BY <1>5, <1>10, InvParts

LEMMA NextLife ==
    ASSUME LifeInv, [LifeNext]_lifeVars
    PROVE  LifeInv'
<1>1. CASE UNCHANGED lifeVars
  <2>1. commands' = commands /\ daemons' = daemons /\ apps' = apps /\ left' = left
    BY <1>1 DEF lifeVars
  <2>2. ProcessesRight'
    BY <2>1, InvParts DEF ProcessesRight, ClosedInOrder, Answers, Alive, Primary
  <2>3. AllGoOn
    BY <2>1 DEF AllGoOn, GoesOn
  <2> QED
    BY <2>1, <2>2, <2>3, OthersKeep
<1>2. CASE \E c \in Clis : Command(c) \/ \E op \in {"start", "stop"} : Call(c, op)
  BY <1>2, CommandKeeps, CallKeeps
<1>3. CASE \E d \in Daemons : DaemonRuns(d)
  BY <1>3, RunsKeeps
<1>4. CASE \E d \in Daemons : Supervise(d) \/ LaunchFails(d)
  BY <1>4, SupervisorKeeps
<1>5. CASE \E d \in Daemons : Crash(d) \/ Signal(d)
  BY <1>5, CrashKeeps
<1>6. CASE \/ \E d \in Daemons : App(d)
           \/ \E a \in DOMAIN apps : AppDies(a)
           \/ HandLaunch \/ QuitFallback(Hand)
  BY <1>6, AppKeeps
<1>7. CASE \E a \in DOMAIN apps : Quit(a)
  BY <1>7, QuitKeeps
<1> QED
  BY <1>1, <1>2, <1>3, <1>4, <1>5, <1>6, <1>7 DEF LifeNext

\* One daemon answers, one copy of the app shows itself, and a daemon closes its
\* ports only after its app has gone (ui.rs, stop).
THEOREM LifeInvHolds == LifeSpec => []LifeInv
<1>1. LifeInit => LifeInv
  BY InitLife
<1>2. LifeInv /\ [LifeNext]_lifeVars => LifeInv'
  BY NextLife
<1> QED
  BY <1>1, <1>2, PTL DEF LifeSpec

\* A command that returns Ok has seen what it says: a start an answer of a daemon
\* of its own version, a stop that the daemon it asked answers no more.
LEMMA OkStep ==
    ASSUME LifeInv, [LifeNext]_lifeVars, NEW c \in Clis,
           commands[c].step # "ok", commands'[c].step = "ok"
    PROVE  IF commands[c].op = "start"
             THEN \E d \in Daemons : Answers(d) /\ ~daemons[d].old
             ELSE daemons[commands[c].asked].phase \in {"closing", "gone"}
<1> DEFINE x == commands[c]
<1>1. commands \in [Clis -> CommandType] /\ x \in CommandType /\ CommandRight(x)
  BY InvParts
\* Only a step of its own ends a command.
<1>2. PICK b \in Clis : Command(b) \/ \E op \in {"start", "stop"} : Call(b, op)
  <2>1. commands' # commands
    OBVIOUS
  <2> QED
    BY <2>1 DEF LifeNext, lifeVars, DaemonRuns, Supervise, App, BindUi, BindApi, Worked,
         UiStopped, Exit, Check, Launch, LaunchFails, Reap, Notified, Kill, Slept, Crash,
         Signal, Register, Lifeline, QuitFallback, HandLaunch, AppDies, Quit
<1>3. ASSUME NEW d \in Clis, NEW step \in CommandSteps, CommandTo(d, step)
      PROVE  commands'[c].step \in {step, x.step} /\ (d # c => commands'[c].step = x.step)
  <2>1. PICK y \in CommandType : commands' = [commands EXCEPT ![d] = y] /\ y.step = step
    BY <1>3, CommandToFacts
  <2> QED
    BY <1>1, <2>1
<1>4. CASE Ping(b)
  <2>1. CASE ~Answering
    BY <1>3, <1>4, <2>1 DEF Ping, CommandSteps
  <2>2. CASE Answering
    <3>1. PICK d \in Daemons :
             Answers(d) /\ CommandTo(b, IF daemons[d].old THEN "post" ELSE "ok")
      BY <1>4, <2>2 DEF Ping
    <3>2. CASE daemons[d].old
      BY <1>3, <3>1, <3>2 DEF CommandSteps
    <3>3. CASE ~daemons[d].old
      <4>1. c = b
        BY <1>3, <3>1, <3>3 DEF CommandSteps
      <4> QED
        BY <1>1, <1>4, <3>1, <3>3, <4>1 DEF Ping, CommandRight
    <3> QED
      BY <3>2, <3>3
  <2> QED
    BY <2>1, <2>2
<1>5. CASE Stopped(b)
  <2>1. ~Answering /\ commands[b].step = "poll"
        /\ CommandTo(b, IF commands[b].op = "start" THEN "spawn" ELSE "ok")
    BY <1>5 DEF Stopped
  <2>2. c = b /\ x.op # "start"
    BY <1>3, <2>1 DEF CommandSteps
  <2> QED
    BY <1>1, <2>1, <2>2 DEF CommandRight, Answering, Answers
<1>6. CASE WaitUp(b)
  <2>1. commands[b].step = "wait"
    BY <1>6 DEF WaitUp
  <2>2. CASE commands[b].tries = 0
    BY <1>3, <1>6, <2>2 DEF WaitUp, CommandSteps
  <2>3. CASE commands[b].tries # 0 /\ Answering
    <3>1. c = b
      BY <1>3, <1>6, <2>3 DEF WaitUp, CommandSteps
    <3> QED
      BY <1>1, <2>1, <2>3, <3>1 DEF CommandRight, Answering
  <2>4. CASE commands[b].tries # 0 /\ ~Answering
    <3>1. commands' = [commands EXCEPT ![b].tries = @ - 1]
      BY <1>6, <2>4 DEF WaitUp
    <3>2. commands'[c].step = x.step
      BY <1>1, <3>1 DEF CommandType
    <3> QED
      BY <3>2
  <2> QED
    BY <2>2, <2>3, <2>4
<1>7. CASE StopTimeout(b)
  BY <1>3, <1>7 DEF StopTimeout, CommandSteps
<1>8. CASE Post(b)
  <2>1. CASE CommandTo(b, "failed")
    BY <1>3, <2>1 DEF CommandSteps
  <2>2. CASE \E d \in Daemons : commands' = [commands EXCEPT ![b].step = "poll", ![b].asked = d]
    BY <1>1, <2>2 DEF CommandType
  <2> QED
    BY <1>8, <2>1, <2>2 DEF Post
<1>9. CASE Spawn(b)
  <2>1. commands' = [commands EXCEPT ![b].step = "wait", ![b].tries = UpTries]
    BY <1>9 DEF Spawn
  <2> QED
    BY <1>1, <2>1 DEF CommandType
<1>10. CASE \E op \in {"start", "stop"} : Call(b, op)
  <2>1. PICK op \in {"start", "stop"} :
           commands' = [commands EXCEPT ![b].op = op,
                                        ![b].step = IF op = "start" THEN "ping" ELSE "post"]
    BY <1>10 DEF Call
  <2> QED
    BY <1>1, <2>1 DEF CommandType
<1> QED
  BY <1>2, <1>4, <1>5, <1>6, <1>7, <1>8, <1>9, <1>10 DEF Command

\* A daemon that was asked to stop does not go on to launch its app.
LEMMA NoRelaunchStep ==
    ASSUME LifeInv, [LifeNext]_lifeVars, NEW d \in Daemons,
           Asked(d), daemons'[d].sup = "spawn"
    PROVE  daemons[d].sup = "spawn"
<1> DEFINE x == daemons[d]
<1>1. daemons \in [Daemons -> DaemonType] /\ x \in DaemonType /\ SupervisedAs(x, Alive(d))
  BY OneFacts
<1>2. x.stopping \/ x.sup = "off"
  BY <1>1 DEF Asked, SupervisedAs
\* A step of one daemon that leaves its supervisor where it is, or takes it elsewhere.
<1>3. ASSUME NEW e \in Daemons, NEW y \in DaemonType, daemons' = [daemons EXCEPT ![e] = y],
             e = d => y.sup # "spawn" \/ y.sup = x.sup
      PROVE  x.sup = "spawn"
  <2>1. CASE e = d
    BY <1>1, <1>3, <2>1
  <2>2. CASE e # d
    BY <1>1, <1>3, <2>2
  <2> QED
    BY <2>1, <2>2
<1>4. CASE daemons' = daemons
  BY <1>4
<1>5. ASSUME NEW e \in Daemons, BindUi(e)
      PROVE  x.sup = "spawn"
  <2> DEFINE z == daemons[e]
             y == [z EXCEPT !.phase = "bound", !.web = ~WebPortTaken]
  <2>1. z \in DaemonType
    BY <1>1
  <2>2. daemons' = [daemons EXCEPT ![e] = y] /\ y \in DaemonType /\ y.sup = z.sup
    BY <1>5, <2>1 DEF BindUi, DaemonType, WebPortTaken
  <2> HIDE DEF y
  <2> QED
    BY <1>3, <2>2
<1>6. ASSUME NEW e \in Daemons, BindApi(e) \/ Exit(e) \/ Crash(e)
      PROVE  x.sup = "spawn"
  <2> DEFINE z == daemons[e]
             y == [z EXCEPT !.phase = "serving", !.sup = "top"]
  <2>1. z \in DaemonType
    BY <1>1
  <2>2. y \in DaemonType /\ y.sup = "top" /\ Gone \in DaemonType /\ Gone.sup = "off"
    BY <2>1, RecordFacts DEF DaemonType, Gone, NoDaemon
  <2>3. daemons' = [daemons EXCEPT ![e] = y] \/ daemons' = [daemons EXCEPT ![e] = Gone]
    BY <1>6 DEF BindApi, Exit, Crash
  <2> HIDE DEF y
  <2> QED
    BY <1>3, <2>2, <2>3
<1>7. ASSUME NEW e \in Daemons, Worked(e)
      PROVE  x.sup = "spawn"
  <2> DEFINE z == BeginStop(daemons[e])
             v == [z EXCEPT !.work = @ - 1, !.ui = @ + 1]
             w == Sent(z)
  <2>1. z \in DaemonType /\ z.sup = daemons[e].sup /\ z.work = daemons[e].work
    BY <1>1, BeginStopFacts
  <2>2. daemons[e].work > 0
        /\ daemons' = [daemons EXCEPT ![e] = IF z.sup = "off" THEN w ELSE v]
    BY <1>7 DEF Worked
  <2> HIDE DEF z
  <2>3. w \in DaemonType /\ w.sup = z.sup
    BY <2>1, SentFacts
  <2>4. v \in DaemonType /\ v.sup = z.sup
    <3>1. z.work \in Nat /\ z.work > 0 /\ z.ui \in Nat
      BY <2>1, <2>2 DEF DaemonType
    <3>2. z.work - 1 \in Nat /\ z.ui + 1 \in Nat
      BY <3>1
    <3> QED
      BY <2>1, <3>2 DEF DaemonType
  <2> HIDE DEF v, w
  <2>5. daemons' = [daemons EXCEPT ![e] = w] \/ daemons' = [daemons EXCEPT ![e] = v]
    BY <2>2
  <2> QED
    BY <1>3, <2>1, <2>3, <2>4, <2>5
<1>8. ASSUME NEW e \in Daemons, UiStopped(e)
      PROVE  x.sup = "spawn"
  <2> DEFINE z == Sent(daemons[e])
             y == [z EXCEPT !.done = FALSE]
  <2>1. z \in DaemonType /\ z.sup = daemons[e].sup
    BY <1>1, SentFacts
  <2>2. daemons' = [daemons EXCEPT ![e] = y]
    BY <1>8 DEF UiStopped
  <2> HIDE DEF z
  <2>3. y \in DaemonType /\ y.sup = z.sup
    BY <2>1 DEF DaemonType
  <2> HIDE DEF y
  <2> QED
    BY <1>3, <2>1, <2>2, <2>3
<1>9. ASSUME NEW e \in Daemons, Signal(e) \/ daemons' = [daemons EXCEPT ![e] = ShutdownAll(@)]
      PROVE  x.sup = "spawn"
  <2>1. /\ daemons' = [daemons EXCEPT ![e] = ShutdownAll(daemons[e])]
        /\ ShutdownAll(daemons[e]) \in DaemonType
        /\ ShutdownAll(daemons[e]).sup = daemons[e].sup
    BY <1>1, <1>9, ShutdownAllFacts DEF Signal
  <2> QED
    BY <1>3, <2>1
\* The one step that decides to launch looks at stopping first.
<1>10. ASSUME NEW e \in Daemons, Check(e)
       PROVE  x.sup = "spawn"
  <2> DEFINE z == daemons[e]
             y == [z EXCEPT !.sup = "spawn"]
  <2>1. z \in DaemonType /\ z.sup = "top"
        /\ daemons' = [daemons EXCEPT ![e] = IF z.stopping THEN End(z) ELSE y]
    BY <1>1, <1>10 DEF Check
  <2>2. End(z) \in DaemonType /\ End(z).sup = "off" /\ y \in DaemonType
    BY <2>1, EndFacts DEF DaemonType
  <2>3. CASE z.stopping
    BY <1>3, <2>1, <2>2, <2>3
  <2>4. CASE ~z.stopping
    <3>1. e # d
      BY <1>2, <2>1, <2>4
    <3> QED
      BY <1>1, <2>1, <2>4, <3>1
  <2> QED
    BY <2>3, <2>4
<1>11. ASSUME NEW e \in Daemons, Launch(e) \/ Slept(e) \/ Reap(e) \/ LaunchFails(e) \/ Notified(e)
       PROVE  x.sup = "spawn"
  <2> DEFINE z == daemons[e]
             SupIs(s) == [z EXCEPT !.sup = s]
             w == [z EXCEPT !.stop = FALSE]
             v == [w EXCEPT !.sup = "grace"]
  <2>1. z \in DaemonType
    BY <1>1
  <2>2. \A s \in {"wait", "top", "backoff"} : SupIs(s) \in DaemonType /\ SupIs(s).sup = s
    BY <2>1 DEF DaemonType
  <2>3. w \in DaemonType /\ v \in DaemonType /\ v.sup = "grace"
    BY <2>1 DEF DaemonType
  <2>4. /\ End(z) \in DaemonType /\ End(z).sup = "off"
        /\ End(w) \in DaemonType /\ End(w).sup = "off"
    BY <2>1, <2>3, EndFacts
  <2>5. \/ \E s \in {"wait", "top", "backoff"} : daemons' = [daemons EXCEPT ![e] = SupIs(s)]
        \/ daemons' = [daemons EXCEPT ![e] = End(z)]
        \/ daemons' = [daemons EXCEPT ![e] = End(w)]
        \/ daemons' = [daemons EXCEPT ![e] = v]
    BY <1>11 DEF Launch, Slept, Reap, LaunchFails, Notified
  <2> HIDE DEF SupIs, w, v
  <2> QED
    BY <1>3, <2>2, <2>3, <2>4, <2>5
<1>12. ASSUME NEW a \in DOMAIN apps, Quit(a)
       PROVE  x.sup = "spawn"
  <2>1. daemons'[d] = IF Answers(d) THEN ShutdownAll(x) ELSE x
    BY <1>12 DEF Quit
  <2>2. ShutdownAll(x).sup = x.sup
    BY <1>1, ShutdownAllFacts
  <2> QED
    BY <2>1, <2>2
<1>13. ASSUME NEW c \in Clis, Command(c)
       PROVE  x.sup = "spawn"
  <2>1. CASE Post(c)
    BY <1>4, <1>9, <2>1 DEF Post
  <2>2. CASE Spawn(c)
    <3>1. PICK e \in Daemons : daemons' = [daemons EXCEPT ![e].phase = "born"]
      BY <2>2 DEF Spawn
    <3>2. daemons'[d].sup = x.sup
      BY <1>1, <3>1 DEF DaemonType
    <3> QED
      BY <3>2
  <2> QED
    BY <1>4, <1>13, <2>1, <2>2 DEF Command, Ping, Stopped, StopTimeout, WaitUp
<1>14. ASSUME NEW e \in Daemons, Kill(e) \/ App(e)
       PROVE  x.sup = "spawn"
  BY <1>4, <1>14 DEF Kill, App, Register, Lifeline, QuitFallback
<1>15. ASSUME UNCHANGED lifeVars \/ HandLaunch \/ QuitFallback(Hand)
              \/ (\E a \in DOMAIN apps : AppDies(a))
              \/ (\E c \in Clis : \E op \in {"start", "stop"} : Call(c, op))
       PROVE  x.sup = "spawn"
  BY <1>4, <1>15 DEF lifeVars, HandLaunch, QuitFallback, AppDies, Call
<1> HIDE DEF x
<1>16. x.sup = "spawn"
  BY <1>5, <1>6, <1>7, <1>8, <1>9, <1>10, <1>11, <1>12, <1>13, <1>14, <1>15
     DEF LifeNext, DaemonRuns, Supervise
<1> QED
  BY <1>16 DEF x

\* Ok tells the user the truth: after a start a daemon of this version answers,
\* after a stop the daemon that was asked is past its teardown (daemon/mod.rs:390).
THEOREM OkMeansSoHolds == LifeSpec => OkMeansSo
<1>1. LifeInv /\ [LifeNext]_lifeVars =>
        [\A c \in Clis :
           commands[c].step # "ok" /\ commands'[c].step = "ok" =>
             IF commands[c].op = "start"
               THEN \E d \in Daemons : Answers(d) /\ ~daemons[d].old
               ELSE daemons[commands[c].asked].phase \in {"closing", "gone"}]_lifeVars
  BY OkStep
<1> QED
  BY <1>1, LifeInvHolds, PTL DEF LifeSpec, OkMeansSo

\* Once a stop is under way the supervisor does not launch the app again (ui.rs:197).
THEOREM NoRelaunchHolds == LifeSpec => NoRelaunch
<1>1. LifeInv /\ [LifeNext]_lifeVars =>
        [\A d \in Daemons :
           Asked(d) => daemons[d].sup = "spawn" \/ daemons'[d].sup # "spawn"]_lifeVars
  BY NoRelaunchStep
<1> QED
  BY <1>1, LifeInvHolds, PTL DEF LifeSpec, NoRelaunch

-------------------------------------------------------------------------------
(* The hold on the Mac's sleep *)

USE MaxAsksAssumption, LaunchesAssumption

(* What the worker's steps do to what the app holds *)

LEMMA GoesFacts ==
    ASSUME work \in WorkType, NEW s \in WorkSteps, Goes(s)
    PROVE  work' \in WorkType /\ work'.step = s /\ work'.then = work.then
BY DEF Goes, WorkType

LEMMA LidFacts ==
    ASSUME held \in HeldType, NEW is \in {"none", "new", "held", "refused", "cleared"},
           NEW owned \in BOOLEAN, Lid(is, owned)
    PROVE  held' \in HeldType /\ held'.lid.is = is /\ held'.lid.owned = owned
BY DEF Lid, HeldType

LEMMA NothingFacts ==
    /\ NothingHeld \in HeldType /\ NothingHeld.lid.is = "none" /\ ~NothingHeld.lid.owned
    /\ WorkerIdle \in WorkType /\ WorkerIdle.step = "idle" /\ WorkerIdle.then = "idle"
    /\ NoHold.is = "none" /\ NewHold.is = "new" /\ ~NewHold.owned
BY DEF NothingHeld, NoHold, NewHold, HeldType, WorkerIdle, WorkType, WorkSteps

\* What was owned is waited for, and is not owned any more.
LEMMA SettleFacts ==
    ASSUME NEW h \in HeldType, NEW then \in {"idle", "dropped", "quit"}, Settle(h, then)
    PROVE  /\ held' \in HeldType /\ held'.lid.is = h.lid.is /\ ~held'.lid.owned
           /\ work' \in WorkType
           /\ h.lid.owned => work'.step = "wait" /\ work'.then = then
           /\ ~h.lid.owned => work'.step = then /\ work'.then = "idle"
<1>1. held' = [h EXCEPT !.lid.owned = FALSE]
  BY DEF Settle
<1>2. held' \in HeldType /\ held'.lid.is = h.lid.is /\ ~held'.lid.owned
  BY <1>1 DEF HeldType
<1>3. CASE h.lid.owned
  <2>1. work' = [step |-> "wait", then |-> then]
    BY <1>3 DEF Settle
  <2> QED
    BY <1>2, <1>3, <2>1 DEF WorkType, WorkSteps
<1>4. CASE ~h.lid.owned
  <2>1. work' = [step |-> then, then |-> "idle"]
    BY <1>4 DEF Settle
  <2> QED
    BY <1>2, <1>4, <2>1 DEF WorkType, WorkSteps
<1> QED
  BY <1>3, <1>4 DEF HeldType

LEMMA SettleSentinel ==
    ASSUME AwakeInv, NEW h \in HeldType, NEW then \in {"idle", "dropped", "quit"},
           Settle(h, then), app # 0, h.lid.owned = held.lid.owned
    PROVE  /\ sentinel' \in [Sentinels -> {"none", "reads", "resets", "unmarks", "ok", "bad"}]
           /\ \A n \in Sentinels : n # app => sentinel'[n] = sentinel[n]
           /\ app \in Sentinels
           /\ ~held.lid.owned => sentinel' = sentinel
           /\ held.lid.owned =>
                sentinel'[app] = IF sentinel[app] = "reads" THEN "resets" ELSE sentinel[app]
<1>1. app \in Sentinels
      /\ sentinel \in [Sentinels -> {"none", "reads", "resets", "unmarks", "ok", "bad"}]
  BY DEF AwakeInv, AwakeTypeOK, Sentinels
<1>2. sentinel' = IF held.lid.owned /\ sentinel[app] = "reads"
                    THEN [sentinel EXCEPT ![app] = "resets"] ELSE sentinel
  BY DEF Settle
<1> QED
  BY <1>1, <1>2

\* A settle in a step of the worker.
LEMMA SettleKeeps ==
    ASSUME AwakeInv, NEW h \in HeldType, NEW then \in {"idle", "dropped", "quit"},
           Settle(h, then), app # 0, UNCHANGED <<mac, marker, app, bounds>>,
           h.lid.owned = held.lid.owned,
           work.step \notin {"spawn", "set", "wait"},
           then = "idle" => h.lid.is # "held",
           h.lid.is = "new" => held.lid.is = "new"
    PROVE  AwakeInv'
<1>0. /\ off' = off /\ orphans' = orphans /\ powered' = powered /\ marker' = marker
      /\ app' = app /\ asks' = asks /\ launched' = launched /\ left' = left
      /\ amiss' = amiss
  BY DEF mac, bounds
<1>1. /\ held' \in HeldType /\ held'.lid.is = h.lid.is /\ ~held'.lid.owned
      /\ work' \in WorkType
      /\ h.lid.owned => work'.step = "wait" /\ work'.then = then
      /\ ~h.lid.owned => work'.step = then /\ work'.then = "idle"
  BY SettleFacts
<1>2. /\ sentinel' \in [Sentinels -> {"none", "reads", "resets", "unmarks", "ok", "bad"}]
      /\ \A n \in Sentinels : n # app => sentinel'[n] = sentinel[n]
      /\ app \in Sentinels
      /\ ~held.lid.owned => sentinel' = sentinel
      /\ held.lid.owned =>
           sentinel'[app] = IF sentinel[app] = "reads" THEN "resets" ELSE sentinel[app]
  BY SettleSentinel
<1>3. AwakeTypeOK'
  BY <1>0, <1>1, <1>2 DEF AwakeInv, AwakeTypeOK
<1>4. MarkedFirst'
  BY <1>0, <1>1, <1>2 DEF AwakeInv, AwakeTypeOK, MarkedFirst
<1>5. LetsGoFirst'
  BY <1>0, <1>1, <1>2 DEF AwakeInv, AwakeTypeOK, MarkedFirst, LetsGoFirst
<1>6. NeverStranded' /\ HeldHolds'
  BY <1>0, <1>1, <1>5 DEF AwakeInv, NeverStranded, HeldHolds, LetsGoFirst, Step
<1> QED
  BY <1>3, <1>4, <1>5, <1>6 DEF AwakeInv

\* A step of the worker that changes only what is held, and goes on.
LEMMA WorkerKeeps ==
    ASSUME AwakeInv, UNCHANGED <<mac, marker, sentinel, app, bounds>>, app # 0,
           held' \in HeldType, work' \in WorkType,
           work'.step \in {"idle", "look", "hold", "keep"},
           work.step \notin {"wait", "unmark", "reset", "quit"},
           held'.lid.owned = (held.lid.owned /\ work.step # "dropped"),
           held'.lid.owned => held'.lid.is = "held",
           held'.lid.is = "held" =>
              (held.lid.is = "held" /\ work.step # "dropped") \/ off # "no",
           work.step \notin {"set", "refused"}
    PROVE  AwakeInv'
<1>0. /\ off' = off /\ orphans' = orphans /\ powered' = powered /\ marker' = marker
      /\ app' = app /\ asks' = asks /\ launched' = launched /\ left' = left
      /\ amiss' = amiss /\ sentinel' = sentinel
  BY DEF mac, bounds
<1>3. AwakeTypeOK'
  BY <1>0 DEF AwakeInv, AwakeTypeOK
<1>4. MarkedFirst'
  BY <1>0 DEF AwakeInv, AwakeTypeOK, MarkedFirst
<1>5. LetsGoFirst'
  BY <1>0 DEF AwakeInv, AwakeTypeOK, MarkedFirst, LetsGoFirst
<1>6. NeverStranded' /\ HeldHolds'
  BY <1>0, <1>5 DEF AwakeInv, NeverStranded, HeldHolds, LetsGoFirst, Step
<1> QED
  BY <1>3, <1>4, <1>5, <1>6 DEF AwakeInv
-------------------------------------------------------------------------------
(* The commands change what is held but not the lid's hold. *)

LEMMA AskKeeps ==
    ASSUME AwakeInv, NEW h \in HeldType, h.lid = held.lid, Ask(h)
    PROVE  AwakeInv'
<1>0. /\ off' = off /\ orphans' = orphans /\ powered' = powered /\ marker' = marker
      /\ app' = app /\ asks' = asks - 1 /\ launched' = launched /\ left' = left
      /\ amiss' = amiss /\ sentinel' = sentinel /\ work' = work
      /\ held' = h /\ app # 0 /\ work.step = "idle" /\ asks > 0
  BY DEF Ask, Step, mac
<1>1. asks' \in 0..MaxAsks
  BY <1>0 DEF AwakeInv, AwakeTypeOK
<1>3. AwakeTypeOK'
  BY <1>0, <1>1 DEF AwakeInv, AwakeTypeOK
<1>4. MarkedFirst'
  BY <1>0 DEF AwakeInv, AwakeTypeOK, MarkedFirst
<1>5. LetsGoFirst'
  BY <1>0 DEF AwakeInv, AwakeTypeOK, MarkedFirst, LetsGoFirst
<1>6. NeverStranded' /\ HeldHolds'
  BY <1>0, <1>5 DEF AwakeInv, NeverStranded, HeldHolds, LetsGoFirst, Step
<1> QED
  BY <1>3, <1>4, <1>5, <1>6 DEF AwakeInv

LEMMA CommandsKeep ==
    ASSUME AwakeInv, Start \/ Stop \/ Pause \/ Resume
    PROVE  AwakeInv'
<1>0. held \in HeldType
  BY DEF AwakeInv, AwakeTypeOK
<1>1. CASE Start
  <2> DEFINE h == [held EXCEPT !.child = "none", !.session = "running"]
  <2>1. h \in HeldType /\ h.lid = held.lid /\ Ask(h)
    BY <1>0, <1>1 DEF HeldType, Start
  <2> HIDE DEF h
  <2> QED
    BY <2>1, AskKeeps
<1>2. CASE Stop
  <2> DEFINE h == [held EXCEPT !.session = "none"]
  <2>1. h \in HeldType /\ h.lid = held.lid /\ Ask(h)
    BY <1>0, <1>2 DEF HeldType, Stop
  <2> HIDE DEF h
  <2> QED
    BY <2>1, AskKeeps
<1>3. CASE Pause
  <2> DEFINE h == [held EXCEPT !.session = "paused"]
  <2>1. h \in HeldType /\ h.lid = held.lid /\ Ask(h)
    BY <1>0, <1>3 DEF HeldType, Pause
  <2> HIDE DEF h
  <2> QED
    BY <2>1, AskKeeps
<1>4. CASE Resume
  <2> DEFINE h == [held EXCEPT !.session = "running"]
  <2>1. h \in HeldType /\ h.lid = held.lid /\ Ask(h)
    BY <1>0, <1>4 DEF HeldType, Resume
  <2> HIDE DEF h
  <2> QED
    BY <2>1, AskKeeps
<1> QED
  BY <1>1, <1>2, <1>3, <1>4

-------------------------------------------------------------------------------
(* The worker's pass *)

LEMMA PassKeeps ==
    ASSUME AwakeInv, Pass
    PROVE  AwakeInv'
<1>0. /\ held \in HeldType /\ work \in WorkType /\ app # 0 /\ work.step = "idle"
      /\ UNCHANGED <<mac, marker, app, bounds>>
  BY DEF AwakeInv, AwakeTypeOK, Pass, Step
<1> DEFINE h == [held EXCEPT !.child = "none", !.session = "none"]
<1>1. h \in HeldType /\ h.lid = held.lid
  BY <1>0 DEF HeldType
<1>2. \/ Settle(h, "dropped")
      \/ (held' = h \/ held' = held) /\ Goes("look") /\ sentinel' = sentinel
  BY DEF Pass
<1> HIDE DEF h
<1>3. CASE Settle(h, "dropped")
  BY <1>0, <1>1, <1>3, SettleKeeps
<1>4. CASE (held' = h \/ held' = held) /\ Goes("look") /\ sentinel' = sentinel
  <2>1. work' \in WorkType /\ work'.step = "look"
    BY <1>0, <1>4, GoesFacts DEF WorkSteps
  <2>2. held' \in HeldType /\ held'.lid = held.lid
    BY <1>0, <1>1, <1>4
  <2>3. UNCHANGED <<mac, marker, sentinel, app, bounds>>
    BY <1>0, <1>4
  <2>4. /\ held'.lid.owned => held'.lid.is = "held"
        /\ held.lid.owned \in BOOLEAN
    BY <1>0, <2>2 DEF AwakeInv, LetsGoFirst, HeldType
  <2> QED
    BY <1>0, <2>1, <2>2, <2>3, <2>4, WorkerKeeps
<1> QED
  BY <1>2, <1>3, <1>4

LEMMA DroppedKeeps ==
    ASSUME AwakeInv, LidDropped
    PROVE  AwakeInv'
<1>0. /\ held \in HeldType /\ work \in WorkType /\ app # 0 /\ work.step = "dropped"
      /\ UNCHANGED <<mac, marker, sentinel, app, bounds>>
      /\ Lid("none", FALSE) /\ Goes("look")
  BY DEF AwakeInv, AwakeTypeOK, LidDropped, Step
<1>1. work' \in WorkType /\ work'.step = "look"
  BY <1>0, GoesFacts DEF WorkSteps
<1>2. held' \in HeldType /\ held'.lid.is = "none" /\ held'.lid.owned = FALSE
  BY <1>0, LidFacts
<1> QED
  BY <1>0, <1>1, <1>2, WorkerKeeps

\* One fault at most, and nothing else changes.
LEMMA TroubleFacts ==
    ASSUME AwakeInv, Trouble
    PROVE  /\ left' \in 0..Faults /\ left' < Faults
           /\ asks' = asks /\ launched' = launched /\ amiss' = amiss
BY DEF AwakeInv, AwakeTypeOK, Trouble, Fault

LEMMA LookKeeps ==
    ASSUME AwakeInv, Look
    PROVE  AwakeInv'
<1>0. /\ held \in HeldType /\ work \in WorkType /\ app # 0 /\ work.step = "look"
      /\ UNCHANGED <<mac, marker, app>>
  BY DEF AwakeInv, AwakeTypeOK, Look, Step
<1> DEFINE h == [held EXCEPT !.session = Standing(@)]
<1>1. h \in HeldType /\ h.lid = held.lid
  BY <1>0 DEF HeldType, Standing
<1>2. /\ [h EXCEPT !.child = "runs"] \in HeldType
      /\ [h EXCEPT !.session = "none"] \in HeldType
      /\ [h EXCEPT !.child = "none"] \in HeldType
      /\ [h EXCEPT !.child = "runs"].lid = held.lid
      /\ [h EXCEPT !.session = "none"].lid = held.lid
      /\ [h EXCEPT !.child = "none"].lid = held.lid
  <2> HIDE DEF h
  <2> QED
    BY <1>1 DEF HeldType
<1>3. \/ Settle([h EXCEPT !.child = "none"], "dropped") /\ UNCHANGED bounds
      \/ /\ Goes("hold") /\ UNCHANGED sentinel
         /\ held' = [h EXCEPT !.session = "none"] /\ Trouble
      \/ /\ Goes("hold") /\ UNCHANGED <<sentinel, bounds>>
         /\ \/ held' = [h EXCEPT !.child = "runs"]
            \/ held' = [h EXCEPT !.child = "none"]
            \/ held' = h
  BY DEF Look
<1> HIDE DEF h
<1>4. CASE Settle([h EXCEPT !.child = "none"], "dropped") /\ UNCHANGED bounds
  <2> DEFINE g == [h EXCEPT !.child = "none"]
  <2>1. g \in HeldType /\ g.lid = held.lid /\ Settle(g, "dropped")
    BY <1>2, <1>4
  <2> HIDE DEF g
  <2> QED
    BY <1>0, <1>4, <2>1, SettleKeeps
<1>5. CASE /\ Goes("hold") /\ UNCHANGED <<sentinel, bounds>>
           /\ \/ held' = [h EXCEPT !.child = "runs"]
              \/ held' = [h EXCEPT !.child = "none"]
              \/ held' = h
  <2>1. work' \in WorkType /\ work'.step = "hold"
    BY <1>0, <1>5, GoesFacts DEF WorkSteps
  <2>2. held' \in HeldType /\ held'.lid = held.lid
    BY <1>1, <1>2, <1>5
  <2>3. UNCHANGED <<mac, marker, sentinel, app, bounds>>
    BY <1>0, <1>5
  <2>4. /\ held'.lid.owned => held'.lid.is = "held"
        /\ held.lid.owned \in BOOLEAN
    BY <1>0, <2>2 DEF AwakeInv, LetsGoFirst, HeldType
  <2> QED
    BY <1>0, <2>1, <2>2, <2>3, <2>4, WorkerKeeps
<1>6. CASE /\ Goes("hold") /\ UNCHANGED sentinel
           /\ held' = [h EXCEPT !.session = "none"] /\ Trouble
  <2>1. work' \in WorkType /\ work'.step = "hold"
    BY <1>0, <1>6, GoesFacts DEF WorkSteps
  <2>2. held' \in HeldType /\ held'.lid = held.lid
    BY <1>2, <1>6
  <2>3. /\ off' = off /\ orphans' = orphans /\ powered' = powered /\ marker' = marker
        /\ app' = app /\ sentinel' = sentinel
    BY <1>0, <1>6 DEF mac
  <2>4. /\ left' \in 0..Faults /\ left' < Faults
        /\ asks' = asks /\ launched' = launched /\ amiss' = amiss
    BY <1>6, TroubleFacts
  <2>5. AwakeTypeOK'
    BY <2>1, <2>2, <2>3, <2>4 DEF AwakeInv, AwakeTypeOK
  <2>6. MarkedFirst'
    BY <1>0, <2>1, <2>2, <2>3, <2>4 DEF AwakeInv, MarkedFirst
  <2>7. LetsGoFirst' /\ NeverStranded' /\ HeldHolds'
    BY <1>0, <2>1, <2>2, <2>3, <2>4 DEF AwakeInv, LetsGoFirst, NeverStranded, HeldHolds
  <2> QED
    BY <2>5, <2>6, <2>7 DEF AwakeInv
<1> QED
  BY <1>3, <1>4, <1>5, <1>6

LEMMA HoldKeeps ==
    ASSUME AwakeInv, Hold
    PROVE  AwakeInv'
<1>0. /\ held \in HeldType /\ work \in WorkType /\ app # 0 /\ work.step = "hold"
      /\ UNCHANGED <<mac, marker, app, bounds>>
      /\ held.lid.owned => held.lid.is = "held"
  BY DEF AwakeInv, AwakeTypeOK, LetsGoFirst, Hold, Step
<1>1. \/ Settle(held, "dropped")
      \/ Goes("idle") /\ UNCHANGED <<held, sentinel>>
      \/ /\ Goes("keep") /\ UNCHANGED sentinel
         /\ held' = [held EXCEPT !.lid = IF @ = NoHold THEN NewHold ELSE @]
  BY DEF Hold
<1>2. CASE Settle(held, "dropped")
  BY <1>0, <1>2, SettleKeeps
<1>3. CASE Goes("idle") /\ UNCHANGED <<held, sentinel>>
  <2>1. work' \in WorkType /\ work'.step = "idle"
    BY <1>0, <1>3, GoesFacts DEF WorkSteps
  <2>2. held.lid.owned \in BOOLEAN
    BY <1>0 DEF HeldType
  <2> QED
    BY <1>0, <1>3, <2>1, <2>2, WorkerKeeps
<1>4. CASE /\ Goes("keep") /\ UNCHANGED sentinel
           /\ held' = [held EXCEPT !.lid = IF @ = NoHold THEN NewHold ELSE @]
  <2>1. work' \in WorkType /\ work'.step = "keep"
    BY <1>0, <1>4, GoesFacts DEF WorkSteps
  <2>2. CASE held.lid = NoHold
    <3>1. held' \in HeldType /\ held'.lid = NewHold
      BY <1>0, <1>4, <2>2 DEF HeldType, NewHold
    <3>2. /\ held'.lid.is = "new" /\ held'.lid.owned = FALSE
          /\ held.lid.owned = FALSE
      BY <2>2, <3>1 DEF NoHold, NewHold
    <3>3. UNCHANGED <<mac, marker, sentinel, app, bounds>>
      BY <1>0, <1>4
    <3> QED
      BY <1>0, <2>1, <3>1, <3>2, <3>3, WorkerKeeps
  <2>3. CASE held.lid # NoHold
    <3>1. held' \in HeldType /\ held'.lid = held.lid /\ held.lid.owned \in BOOLEAN
      BY <1>0, <1>4, <2>3 DEF HeldType
    <3> QED
      BY <1>0, <1>4, <2>1, <3>1, WorkerKeeps
  <2> QED
    BY <2>2, <2>3
<1> QED
  BY <1>1, <1>2, <1>3, <1>4

LEMMA KeepKeeps ==
    ASSUME AwakeInv, Keep
    PROVE  AwakeInv'
<1>0. /\ held \in HeldType /\ work \in WorkType /\ app # 0 /\ work.step = "keep"
      /\ UNCHANGED <<mac, marker, app, bounds>>
      /\ held.lid.owned => held.lid.is = "held"
      /\ held.lid.owned \in BOOLEAN
  BY DEF AwakeInv, AwakeTypeOK, LetsGoFirst, Keep, Step, HeldType
<1>1. \/ held.lid.is = "new" /\ off # "no" /\ Lid("held", FALSE) /\ Goes("idle") /\ UNCHANGED sentinel
      \/ /\ (held.lid.is = "new" /\ off = "no") \/ (held.lid.owned /\ off # "no")
         /\ Goes("mark") /\ UNCHANGED <<held, sentinel>>
      \/ held.lid.is = "held" /\ off = "no" /\ Settle([held EXCEPT !.lid.is = "cleared"], "idle")
      \/ Goes("idle") /\ UNCHANGED <<held, sentinel>>
  <2>1. CASE held.lid.is = "new" /\ off # "no"
    BY <2>1 DEF Keep
  <2>2. CASE held.lid.is = "new" /\ off = "no"
    BY <2>2 DEF Keep
  <2>3. CASE held.lid.is = "held" /\ off = "no"
    BY <2>3 DEF Keep
  <2>4. CASE held.lid.is = "held" /\ off # "no" /\ held.lid.owned
    BY <2>4 DEF Keep
  <2>5. CASE /\ held.lid.is # "new"
             /\ ~(held.lid.is = "held" /\ off = "no")
             /\ ~(held.lid.is = "held" /\ off # "no" /\ held.lid.owned)
    <3>1. Goes("idle") /\ UNCHANGED <<held, sentinel>>
      BY <2>5 DEF Keep
    <3> QED
      BY <3>1
  <2> QED
    BY <2>1, <2>2, <2>3, <2>4, <2>5
<1>2. CASE held.lid.is = "new" /\ off # "no" /\ Lid("held", FALSE) /\ Goes("idle") /\ UNCHANGED sentinel
  <2>1. work' \in WorkType /\ work'.step = "idle"
    BY <1>0, <1>2, GoesFacts DEF WorkSteps
  <2>2. held' \in HeldType /\ held'.lid.is = "held" /\ held'.lid.owned = FALSE
    BY <1>0, <1>2, LidFacts
  <2> QED
    BY <1>0, <1>2, <2>1, <2>2, WorkerKeeps
<1>3. CASE /\ (held.lid.is = "new" /\ off = "no") \/ (held.lid.owned /\ off # "no")
           /\ Goes("mark") /\ UNCHANGED <<held, sentinel>>
  <2>1. work' \in WorkType /\ work'.step = "mark" /\ work'.then = work.then
    BY <1>0, <1>3, GoesFacts DEF WorkSteps
  <2>2. /\ off' = off /\ orphans' = orphans /\ powered' = powered /\ marker' = marker
        /\ app' = app /\ asks' = asks /\ launched' = launched /\ left' = left
        /\ amiss' = amiss /\ sentinel' = sentinel /\ held' = held
    BY <1>0, <1>3 DEF mac, bounds
  <2>3. AwakeTypeOK'
    BY <2>1, <2>2 DEF AwakeInv, AwakeTypeOK
  <2>4. MarkedFirst'
    BY <1>0, <1>3, <2>1, <2>2 DEF AwakeInv, MarkedFirst
  <2>5. LetsGoFirst' /\ NeverStranded' /\ HeldHolds'
    BY <1>0, <1>3, <2>1, <2>2 DEF AwakeInv, LetsGoFirst, NeverStranded, HeldHolds, Step
  <2> QED
    BY <2>3, <2>4, <2>5 DEF AwakeInv
<1>4. CASE held.lid.is = "held" /\ off = "no" /\ Settle([held EXCEPT !.lid.is = "cleared"], "idle")
  <2> DEFINE h == [held EXCEPT !.lid.is = "cleared"]
  <2>1. h \in HeldType /\ h.lid.owned = held.lid.owned /\ h.lid.is = "cleared" /\ Settle(h, "idle")
    BY <1>0, <1>4 DEF HeldType
  <2> HIDE DEF h
  <2> QED
    BY <1>0, <2>1, SettleKeeps
<1>5. CASE Goes("idle") /\ UNCHANGED <<held, sentinel>>
  <2>1. work' \in WorkType /\ work'.step = "idle"
    BY <1>0, <1>5, GoesFacts DEF WorkSteps
  <2> QED
    BY <1>0, <1>5, <2>1, WorkerKeeps
<1> QED
  BY <1>1, <1>2, <1>3, <1>4, <1>5

-------------------------------------------------------------------------------
(* Arming the hold *)

\* What a step that may fail leaves: all the budget, or less of it.
LEMMA BudgetFacts ==
    ASSUME AwakeInv, UNCHANGED bounds \/ Trouble
    PROVE  /\ left' \in 0..Faults /\ (left' = left \/ left' < Faults)
           /\ asks' = asks /\ launched' = launched /\ amiss' = amiss
           /\ left' = Faults => left = Faults
BY TroubleFacts DEF AwakeInv, AwakeTypeOK, bounds

LEMMA ArmMarkKeeps ==
    ASSUME AwakeInv, ArmMark
    PROVE  AwakeInv'
<1>0. /\ held \in HeldType /\ work \in WorkType /\ app # 0 /\ work.step = "mark"
      /\ off' = off /\ orphans' = orphans /\ powered' = powered /\ sentinel' = sentinel
      /\ app' = app /\ held' = held
  BY DEF AwakeInv, AwakeTypeOK, ArmMark, Step, mac
<1>1. /\ left' \in 0..Faults /\ (left' = left \/ left' < Faults)
      /\ asks' = asks /\ launched' = launched /\ amiss' = amiss
      /\ left' = Faults => left = Faults
  BY BudgetFacts DEF ArmMark
<1>2. /\ work' \in WorkType /\ work'.then = work.then
      /\ marker' \in BOOLEAN
      /\ \/ work'.step = "spawn" /\ marker'
         \/ work'.step = "refused" /\ marker' = marker /\ left' < Faults
  <2>1. CASE marker' = TRUE /\ Goes("spawn") /\ UNCHANGED bounds
    BY <1>0, <2>1, GoesFacts DEF WorkSteps
  <2>2. CASE ~marker /\ marker' = marker /\ Goes("refused") /\ Trouble
    BY <1>0, <2>2, GoesFacts, TroubleFacts DEF WorkSteps, AwakeInv, AwakeTypeOK
  <2> QED
    BY <2>1, <2>2 DEF ArmMark
<1>3. AwakeTypeOK'
  BY <1>0, <1>1, <1>2 DEF AwakeInv, AwakeTypeOK
<1>4. MarkedFirst'
  BY <1>0, <1>1, <1>2 DEF AwakeInv, AwakeTypeOK, MarkedFirst
<1>5. LetsGoFirst'
  BY <1>0, <1>1, <1>2 DEF AwakeInv, AwakeTypeOK, MarkedFirst, LetsGoFirst
<1>6. NeverStranded' /\ HeldHolds'
  BY <1>0, <1>1, <1>2, <1>4, <1>5 DEF AwakeInv, AwakeTypeOK, NeverStranded, HeldHolds, MarkedFirst, LetsGoFirst, Step
<1> QED
  BY <1>3, <1>4, <1>5, <1>6 DEF AwakeInv

LEMMA ArmSpawnKeeps ==
    ASSUME AwakeInv, ArmSpawn
    PROVE  AwakeInv'
<1>0. /\ held \in HeldType /\ work \in WorkType /\ app \in Sentinels /\ work.step = "spawn"
      /\ off' = off /\ orphans' = orphans /\ powered' = powered /\ marker' = marker
      /\ app' = app /\ held' = held /\ app # 0
      /\ sentinel \in [Sentinels -> {"none", "reads", "resets", "unmarks", "ok", "bad"}]
  BY DEF AwakeInv, AwakeTypeOK, ArmSpawn, Step, mac, Sentinels
<1>1. /\ left' \in 0..Faults /\ (left' = left \/ left' < Faults)
      /\ asks' = asks /\ launched' = launched /\ amiss' = amiss
      /\ left' = Faults => left = Faults
  BY BudgetFacts DEF ArmSpawn
<1>2. /\ work' \in WorkType /\ work'.then = work.then
      /\ sentinel' \in [Sentinels -> {"none", "reads", "resets", "unmarks", "ok", "bad"}]
      /\ \A n \in Sentinels : n # app => sentinel'[n] = sentinel[n]
      /\ \/ sentinel'[app] = "reads" /\ held.lid.is = "new" /\ work'.step = "set"
         \/ sentinel'[app] = "reads" /\ held.lid.is # "new" /\ work'.step = "idle"
         \/ sentinel'[app] = "none" /\ work'.step = "refused" /\ left' < Faults
  <2>1. CASE /\ sentinel' = [sentinel EXCEPT ![app] = "reads"]
             /\ Goes(IF held.lid.is = "new" THEN "set" ELSE "idle")
    <3>1. CASE held.lid.is = "new"
      BY <1>0, <2>1, <3>1, GoesFacts DEF WorkSteps
    <3>2. CASE held.lid.is # "new"
      BY <1>0, <2>1, <3>2, GoesFacts DEF WorkSteps
    <3> QED
      BY <3>1, <3>2
  <2>2. CASE /\ sentinel' = [sentinel EXCEPT ![app] = "none"]
             /\ Goes("refused") /\ Trouble
    BY <1>0, <2>2, GoesFacts, TroubleFacts DEF WorkSteps
  <2> QED
    BY <2>1, <2>2 DEF ArmSpawn
<1>3. AwakeTypeOK'
  BY <1>0, <1>1, <1>2 DEF AwakeInv, AwakeTypeOK
<1>4. MarkedFirst'
  BY <1>0, <1>1, <1>2 DEF AwakeInv, AwakeTypeOK, MarkedFirst
<1>5. LetsGoFirst'
  BY <1>0, <1>1, <1>2 DEF AwakeInv, AwakeTypeOK, MarkedFirst, LetsGoFirst
<1>6. NeverStranded' /\ HeldHolds'
  BY <1>0, <1>1, <1>2, <1>4, <1>5 DEF AwakeInv, AwakeTypeOK, NeverStranded, HeldHolds, MarkedFirst, LetsGoFirst, Step
<1> QED
  BY <1>3, <1>4, <1>5, <1>6 DEF AwakeInv

LEMMA TurnOffKeeps ==
    ASSUME AwakeInv, TurnOff
    PROVE  AwakeInv'
<1>0. /\ held \in HeldType /\ work \in WorkType /\ app # 0 /\ work.step = "set"
      /\ orphans' = orphans /\ powered' = powered /\ marker' = marker
      /\ app' = app /\ sentinel' = sentinel
  BY DEF AwakeInv, AwakeTypeOK, TurnOff, Step
<1>1. /\ left' \in 0..Faults /\ (left' = left \/ left' < Faults)
      /\ asks' = asks /\ launched' = launched /\ amiss' = amiss
      /\ left' = Faults => left = Faults
  BY BudgetFacts DEF TurnOff
<1>2. /\ work' \in WorkType /\ work'.then = work.then /\ held' \in HeldType
      /\ off' \in {"no", "tiles", "other"}
      /\ \/ /\ off' # "no" /\ held'.lid.is = "held" /\ held'.lid.owned = TRUE
            /\ work'.step = "idle"
         \/ off' = off /\ held' = held /\ work'.step = "refused" /\ left' < Faults
  <2>1. CASE On /\ Lid("held", TRUE) /\ Goes("idle")
    BY <1>0, <2>1, GoesFacts, LidFacts DEF WorkSteps, On, AwakeInv, AwakeTypeOK
  <2>2. CASE off' = off /\ held' = held /\ Goes("refused") /\ Trouble
    BY <1>0, <2>2, GoesFacts, TroubleFacts DEF WorkSteps, AwakeInv, AwakeTypeOK
  <2> QED
    BY <2>1, <2>2 DEF TurnOff
<1>3. AwakeTypeOK'
  BY <1>0, <1>1, <1>2 DEF AwakeInv, AwakeTypeOK
<1>4. MarkedFirst'
  BY <1>0, <1>1, <1>2 DEF AwakeInv, AwakeTypeOK, MarkedFirst
<1>5. LetsGoFirst'
  BY <1>0, <1>1, <1>2 DEF AwakeInv, AwakeTypeOK, MarkedFirst, LetsGoFirst
<1>6. NeverStranded' /\ HeldHolds'
  BY <1>0, <1>1, <1>2, <1>4, <1>5 DEF AwakeInv, AwakeTypeOK, NeverStranded, HeldHolds, MarkedFirst, LetsGoFirst, Step
<1> QED
  BY <1>3, <1>4, <1>5, <1>6 DEF AwakeInv

LEMMA RefusedKeeps ==
    ASSUME AwakeInv, Refused
    PROVE  AwakeInv'
<1>0. /\ held \in HeldType /\ work \in WorkType /\ app \in Sentinels /\ app # 0
      /\ work.step = "refused"
      /\ off' = off /\ orphans' = orphans /\ powered' = powered /\ marker' = marker
      /\ app' = app /\ asks' = asks /\ launched' = launched /\ left' = left
      /\ amiss' = amiss
      /\ sentinel \in [Sentinels -> {"none", "reads", "resets", "unmarks", "ok", "bad"}]
  BY DEF AwakeInv, AwakeTypeOK, Refused, Step, mac, bounds, Sentinels
<1>2. /\ work' \in WorkType /\ held' \in HeldType
      /\ sentinel' \in [Sentinels -> {"none", "reads", "resets", "unmarks", "ok", "bad"}]
      /\ \A n \in Sentinels : n # app => sentinel'[n] = sentinel[n]
      /\ \/ /\ held.lid.is = "new" /\ held'.lid.is = "refused" /\ held'.lid.owned = FALSE
            /\ work'.step = "unmark" /\ work'.then = "idle" /\ sentinel'[app] = "none"
         \/ held' = held /\ sentinel' = sentinel /\ work'.step = "idle"
  <2>1. CASE held.lid.is = "new"
    <3>1. /\ Lid("refused", FALSE) /\ work' = [step |-> "unmark", then |-> "idle"]
          /\ sentinel' = [sentinel EXCEPT ![app] = "none"]
      BY <2>1 DEF Refused
    <3> QED
      BY <1>0, <2>1, <3>1, LidFacts DEF WorkType, WorkSteps
  <2>2. CASE held.lid.is # "new"
    <3>1. Goes("idle") /\ held' = held /\ sentinel' = sentinel
      BY <2>2 DEF Refused
    <3> QED
      BY <1>0, <3>1, GoesFacts DEF WorkSteps
  <2> QED
    BY <2>1, <2>2
<1>3. AwakeTypeOK'
  BY <1>0, <1>2 DEF AwakeInv, AwakeTypeOK
<1>4. MarkedFirst'
  BY <1>0, <1>2 DEF AwakeInv, AwakeTypeOK, MarkedFirst
<1>5. LetsGoFirst'
  BY <1>0, <1>2 DEF AwakeInv, AwakeTypeOK, MarkedFirst, LetsGoFirst
<1>6. NeverStranded' /\ HeldHolds'
  BY <1>0, <1>2, <1>4, <1>5 DEF AwakeInv, AwakeTypeOK, NeverStranded, HeldHolds, MarkedFirst, LetsGoFirst, Step
<1> QED
  BY <1>3, <1>4, <1>5, <1>6 DEF AwakeInv

-------------------------------------------------------------------------------
(* Letting go of it *)

\* The worker goes on with what was to come after the settle.
LEMMA ThenFacts ==
    ASSUME work \in WorkType, work' = [step |-> work.then, then |-> "idle"]
    PROVE  /\ work' \in WorkType /\ work'.step = work.then /\ work'.then = "idle"
           /\ work.then \in {"idle", "dropped", "quit"}
BY DEF WorkType, WorkSteps

LEMMA RecoverKeeps ==
    ASSUME AwakeInv, Recover
    PROVE  AwakeInv'
<1>0. /\ held \in HeldType /\ work \in WorkType /\ app # 0 /\ work.step = "recover"
      /\ orphans' = orphans /\ powered' = powered /\ marker' = marker
      /\ app' = app /\ sentinel' = sentinel /\ held' = held
  BY DEF AwakeInv, AwakeTypeOK, Recover, Step
<1>1. /\ left' \in 0..Faults /\ (left' = left \/ left' < Faults)
      /\ asks' = asks /\ launched' = launched /\ amiss' = amiss
      /\ left' = Faults => left = Faults
  BY BudgetFacts DEF Recover
<1>2. /\ work' \in WorkType /\ work'.then = work.then
      /\ \/ off' = "no" /\ work'.step = "unmark"
         \/ off' = off /\ work'.step = "idle"
  BY <1>0, GoesFacts DEF Recover, WorkSteps
<1>3. AwakeTypeOK'
  BY <1>0, <1>1, <1>2 DEF AwakeInv, AwakeTypeOK
<1>4. MarkedFirst'
  BY <1>0, <1>1, <1>2 DEF AwakeInv, AwakeTypeOK, MarkedFirst
<1>5. LetsGoFirst'
  BY <1>0, <1>1, <1>2 DEF AwakeInv, AwakeTypeOK, MarkedFirst, LetsGoFirst
<1>6. NeverStranded' /\ HeldHolds'
  BY <1>0, <1>1, <1>2, <1>4, <1>5 DEF AwakeInv, AwakeTypeOK, NeverStranded, HeldHolds, MarkedFirst, LetsGoFirst, Step
<1> QED
  BY <1>3, <1>4, <1>5, <1>6 DEF AwakeInv

LEMMA UnmarkKeeps ==
    ASSUME AwakeInv, Unmark
    PROVE  AwakeInv'
<1>0. /\ held \in HeldType /\ work \in WorkType /\ app # 0 /\ work.step = "unmark"
      /\ off' = off /\ orphans' = orphans /\ powered' = powered /\ marker' = FALSE
      /\ app' = app /\ asks' = asks /\ launched' = launched /\ left' = left
      /\ amiss' = amiss /\ sentinel' = sentinel /\ held' = held
      /\ work' = [step |-> work.then, then |-> "idle"]
  BY DEF AwakeInv, AwakeTypeOK, Unmark, Step, mac, bounds
<1>2. /\ work' \in WorkType /\ work'.step = work.then /\ work'.then = "idle"
      /\ work.then \in {"idle", "dropped", "quit"}
  BY <1>0, ThenFacts
<1>3. AwakeTypeOK'
  BY <1>0, <1>2 DEF AwakeInv, AwakeTypeOK
<1>4. MarkedFirst'
  BY <1>0, <1>2 DEF AwakeInv, AwakeTypeOK, MarkedFirst
<1>5. LetsGoFirst'
  BY <1>0, <1>2 DEF AwakeInv, AwakeTypeOK, MarkedFirst, LetsGoFirst
<1>6. NeverStranded' /\ HeldHolds'
  BY <1>0, <1>2, <1>4, <1>5 DEF AwakeInv, AwakeTypeOK, NeverStranded, HeldHolds, MarkedFirst, LetsGoFirst, Step
<1> QED
  BY <1>3, <1>4, <1>5, <1>6 DEF AwakeInv

LEMMA WaitedKeeps ==
    ASSUME AwakeInv, Waited
    PROVE  AwakeInv'
<1>0. /\ held \in HeldType /\ work \in WorkType /\ app \in Sentinels /\ app # 0
      /\ work.step = "wait" /\ sentinel[app] \notin {"resets", "unmarks"}
      /\ off' = off /\ orphans' = orphans /\ powered' = powered /\ marker' = marker
      /\ app' = app /\ asks' = asks /\ launched' = launched /\ left' = left
      /\ amiss' = amiss /\ held' = held
      /\ sentinel' = [sentinel EXCEPT ![app] = "none"]
      /\ sentinel \in [Sentinels -> {"none", "reads", "resets", "unmarks", "ok", "bad"}]
  BY DEF AwakeInv, AwakeTypeOK, Waited, Step, mac, bounds, Sentinels
<1>1. /\ sentinel' \in [Sentinels -> {"none", "reads", "resets", "unmarks", "ok", "bad"}]
      /\ \A n \in Sentinels : n # app => sentinel'[n] = sentinel[n]
      /\ sentinel'[app] = "none"
  BY <1>0
<1>2. /\ work' \in WorkType /\ work.then \in {"idle", "dropped", "quit"}
      /\ \/ work'.step = work.then /\ work'.then = "idle"
         \/ work'.step = "reset" /\ work'.then = work.then
  <2>1. CASE sentinel[app] = "ok"
    BY <1>0, <2>1, ThenFacts DEF Waited
  <2>2. CASE sentinel[app] # "ok"
    <3>1. Goes("reset")
      BY <2>2 DEF Waited, Goes
    <3> QED
      BY <1>0, <3>1, GoesFacts DEF WorkSteps, WorkType
  <2> QED
    BY <2>1, <2>2
<1>3. AwakeTypeOK'
  BY <1>0, <1>1, <1>2 DEF AwakeInv, AwakeTypeOK
<1>4. MarkedFirst'
  BY <1>0, <1>1, <1>2 DEF AwakeInv, AwakeTypeOK, MarkedFirst
<1>5. LetsGoFirst'
  BY <1>0, <1>1, <1>2 DEF AwakeInv, AwakeTypeOK, MarkedFirst, LetsGoFirst
<1>6. NeverStranded' /\ HeldHolds'
  BY <1>0, <1>1, <1>2, <1>4, <1>5 DEF AwakeInv, AwakeTypeOK, NeverStranded, HeldHolds, MarkedFirst, LetsGoFirst, Step
<1> QED
  BY <1>3, <1>4, <1>5, <1>6 DEF AwakeInv

LEMMA ResetKeeps ==
    ASSUME AwakeInv, Reset
    PROVE  AwakeInv'
<1>0. /\ held \in HeldType /\ work \in WorkType /\ app # 0 /\ work.step = "reset"
      /\ orphans' = orphans /\ powered' = powered /\ marker' = marker
      /\ app' = app /\ sentinel' = sentinel /\ held' = held
  BY DEF AwakeInv, AwakeTypeOK, Reset, Step
<1>1. /\ left' \in 0..Faults /\ (left' = left \/ left' < Faults)
      /\ asks' = asks /\ launched' = launched /\ amiss' = amiss
      /\ left' = Faults => left = Faults
  BY BudgetFacts DEF Reset
<1>2. /\ work' \in WorkType /\ work.then \in {"idle", "dropped", "quit"}
      /\ \/ off' = "no" /\ work'.step = "unmark" /\ work'.then = work.then
         \/ off' = off /\ work'.step = work.then /\ work'.then = "idle" /\ left' < Faults
  <2>1. CASE off' = "no" /\ Goes("unmark")
    BY <1>0, <2>1, GoesFacts DEF WorkSteps, WorkType
  <2>2. CASE off' = off /\ work' = [step |-> work.then, then |-> "idle"] /\ Trouble
    BY <1>0, <2>2, ThenFacts, TroubleFacts
  <2> QED
    BY <2>1, <2>2 DEF Reset
<1>3. AwakeTypeOK'
  BY <1>0, <1>1, <1>2 DEF AwakeInv, AwakeTypeOK
<1>4. MarkedFirst'
  BY <1>0, <1>1, <1>2 DEF AwakeInv, AwakeTypeOK, MarkedFirst
<1>5. LetsGoFirst'
  BY <1>0, <1>1, <1>2 DEF AwakeInv, AwakeTypeOK, MarkedFirst, LetsGoFirst
<1>6. NeverStranded' /\ HeldHolds'
  BY <1>0, <1>1, <1>2, <1>4, <1>5 DEF AwakeInv, AwakeTypeOK, NeverStranded, HeldHolds, MarkedFirst, LetsGoFirst, Step
<1> QED
  BY <1>3, <1>4, <1>5, <1>6 DEF AwakeInv

-------------------------------------------------------------------------------
(* The launch, and what the app does not decide *)

LEMMA LaunchKeeps ==
    ASSUME AwakeInv, AppLaunch
    PROVE  AwakeInv'
<1>0. /\ work \in WorkType /\ app = 0 /\ held = NothingHeld /\ work = WorkerIdle
      /\ off' = off /\ orphans' = orphans /\ powered' = powered /\ marker' = marker
      /\ sentinel' = sentinel /\ asks' = asks /\ left' = left
      /\ held' = NothingHeld
      /\ \A n \in Sentinels : sentinel[n] # "reads"
  BY DEF AwakeInv, AwakeTypeOK, MarkedFirst, AppLaunch, mac, Sentinels
<1>1. /\ launched' \in 0..Launches /\ app' = launched' /\ app' # 0
  BY DEF AwakeInv, AwakeTypeOK, AppLaunch
<1>2. /\ work' \in WorkType /\ work'.then = work.then
      /\ \/ work'.step = "recover" /\ marker
         \/ work'.step = "idle" /\ ~marker
  <2>1. CASE marker
    <3>1. Goes("recover")
      BY <2>1 DEF AppLaunch
    <3> QED
      BY <1>0, <2>1, <3>1, GoesFacts DEF WorkSteps
  <2>2. CASE ~marker
    <3>1. Goes("idle")
      BY <2>2 DEF AppLaunch
    <3> QED
      BY <1>0, <2>2, <3>1, GoesFacts DEF WorkSteps
  <2> QED
    BY <2>1, <2>2
<1>7. /\ amiss' \subseteq {"overlap", "cut"} /\ ("cut" \in amiss => "cut" \in amiss')
      /\ amiss' = {} => /\ amiss = {} /\ orphans = {}
                        /\ \A n \in Sentinels : sentinel[n] \notin {"resets", "unmarks"}
      /\ amiss' # {} => \/ amiss # {} \/ orphans # {}
                        \/ \E n \in Sentinels : sentinel[n] \in {"resets", "unmarks"}
  BY DEF AppLaunch, AwakeInv, AwakeTypeOK
<1>8. /\ NothingHeld \in HeldType /\ NothingHeld.lid.is = "none" /\ ~NothingHeld.lid.owned
      /\ WorkerIdle.then = "idle" /\ WorkerIdle.step = "idle"
  BY NothingFacts
<1>3. AwakeTypeOK'
  BY <1>0, <1>1, <1>2, <1>7, <1>8 DEF AwakeInv, AwakeTypeOK
<1>4. MarkedFirst'
  BY <1>0, <1>1, <1>2, <1>7, <1>8 DEF AwakeInv, AwakeTypeOK, MarkedFirst
<1>5. LetsGoFirst'
  BY <1>0, <1>1, <1>2, <1>7, <1>8 DEF AwakeInv, AwakeTypeOK, MarkedFirst, LetsGoFirst
<1>6. NeverStranded' /\ HeldHolds'
  BY <1>0, <1>1, <1>2, <1>7, <1>8, <1>4, <1>5 DEF AwakeInv, AwakeTypeOK, NeverStranded, HeldHolds, MarkedFirst, LetsGoFirst, Step
<1> QED
  BY <1>3, <1>4, <1>5, <1>6 DEF AwakeInv

LEMMA PowerKeeps ==
    ASSUME AwakeInv, PowerChanges
    PROVE  AwakeInv'
<1>0. /\ off' = off /\ orphans' = orphans /\ marker' = marker /\ app' = app
      /\ launched' = launched /\ left' = left /\ amiss' = amiss
      /\ sentinel' = sentinel /\ work' = work /\ held' = held
      /\ powered' \in BOOLEAN /\ asks' \in 0..MaxAsks
  BY DEF AwakeInv, AwakeTypeOK, PowerChanges
<1>3. AwakeTypeOK'
  BY <1>0 DEF AwakeInv, AwakeTypeOK
<1>4. MarkedFirst'
  BY <1>0 DEF AwakeInv, AwakeTypeOK, MarkedFirst
<1>5. LetsGoFirst'
  BY <1>0 DEF AwakeInv, AwakeTypeOK, MarkedFirst, LetsGoFirst
<1>6. NeverStranded' /\ HeldHolds'
  BY <1>0, <1>4, <1>5 DEF AwakeInv, AwakeTypeOK, NeverStranded, HeldHolds, MarkedFirst, LetsGoFirst, Step
<1> QED
  BY <1>3, <1>4, <1>5, <1>6 DEF AwakeInv

LEMMA TimeUpKeeps ==
    ASSUME AwakeInv, TimeUp
    PROVE  AwakeInv'
<1>0. /\ off' = off /\ orphans' = orphans /\ powered' = powered /\ marker' = marker
      /\ app' = app /\ asks' = asks /\ launched' = launched /\ left' = left
      /\ amiss' = amiss /\ sentinel' = sentinel /\ work' = work /\ app # 0
  BY DEF TimeUp, mac, bounds
<1>1. held' \in HeldType /\ held'.lid = held.lid
  BY DEF TimeUp, AwakeInv, AwakeTypeOK, HeldType
<1>3. AwakeTypeOK'
  BY <1>0, <1>1 DEF AwakeInv, AwakeTypeOK
<1>4. MarkedFirst'
  BY <1>0, <1>1 DEF AwakeInv, AwakeTypeOK, MarkedFirst
<1>5. LetsGoFirst'
  BY <1>0, <1>1 DEF AwakeInv, AwakeTypeOK, MarkedFirst, LetsGoFirst
<1>6. NeverStranded' /\ HeldHolds'
  BY <1>0, <1>1, <1>4, <1>5 DEF AwakeInv, AwakeTypeOK, NeverStranded, HeldHolds, MarkedFirst, LetsGoFirst, Step
<1> QED
  BY <1>3, <1>4, <1>5, <1>6 DEF AwakeInv

LEMMA ChildExitsKeeps ==
    ASSUME AwakeInv, ChildExits
    PROVE  AwakeInv'
<1>0. /\ off' = off /\ orphans' = orphans /\ powered' = powered /\ marker' = marker
      /\ app' = app /\ sentinel' = sentinel /\ work' = work /\ app # 0
  BY DEF ChildExits, mac
<1>1. held' \in HeldType /\ held'.lid = held.lid
  BY DEF ChildExits, AwakeInv, AwakeTypeOK, HeldType
<1>2. /\ left' \in 0..Faults /\ (left' = left \/ left' < Faults)
      /\ asks' = asks /\ launched' = launched /\ amiss' = amiss
      /\ left' = Faults => left = Faults
  BY BudgetFacts DEF ChildExits
<1>3. AwakeTypeOK'
  BY <1>0, <1>1, <1>2 DEF AwakeInv, AwakeTypeOK
<1>4. MarkedFirst'
  BY <1>0, <1>1, <1>2 DEF AwakeInv, AwakeTypeOK, MarkedFirst
<1>5. LetsGoFirst'
  BY <1>0, <1>1, <1>2 DEF AwakeInv, AwakeTypeOK, MarkedFirst, LetsGoFirst
<1>6. NeverStranded' /\ HeldHolds'
  BY <1>0, <1>1, <1>2, <1>4, <1>5 DEF AwakeInv, AwakeTypeOK, NeverStranded, HeldHolds, MarkedFirst, LetsGoFirst, Step
<1> QED
  BY <1>3, <1>4, <1>5, <1>6 DEF AwakeInv

LEMMA OtherSetsKeeps ==
    ASSUME AwakeInv, OtherSets
    PROVE  AwakeInv'
<1>0. /\ orphans' = orphans /\ powered' = powered /\ marker' = marker
      /\ app' = app /\ sentinel' = sentinel /\ work' = work /\ held' = held
      /\ off' \in {"no", "other"}
  BY DEF OtherSets
<1>1. /\ left' \in 0..Faults /\ left' < Faults
      /\ asks' = asks /\ launched' = launched /\ amiss' = amiss
  BY TroubleFacts DEF OtherSets
<1>3. AwakeTypeOK'
  BY <1>0, <1>1 DEF AwakeInv, AwakeTypeOK
<1>4. MarkedFirst'
  BY <1>0, <1>1 DEF AwakeInv, AwakeTypeOK, MarkedFirst
<1>5. LetsGoFirst'
  BY <1>0, <1>1 DEF AwakeInv, AwakeTypeOK, MarkedFirst, LetsGoFirst
<1>6. NeverStranded' /\ HeldHolds'
  BY <1>0, <1>1, <1>4, <1>5 DEF AwakeInv, AwakeTypeOK, NeverStranded, HeldHolds, MarkedFirst, LetsGoFirst, Step
<1> QED
  BY <1>3, <1>4, <1>5, <1>6 DEF AwakeInv

LEMMA OrphanKeeps ==
    ASSUME AwakeInv, NEW pmset \in orphans, OrphanEnds(pmset)
    PROVE  AwakeInv'
<1>0. /\ powered' = powered /\ marker' = marker
      /\ app' = app /\ asks' = asks /\ launched' = launched /\ left' = left
      /\ amiss' = amiss /\ sentinel' = sentinel /\ work' = work /\ held' = held
      /\ orphans' \subseteq orphans /\ orphans # {}
      /\ off' \in {"no", "tiles", off} /\ (amiss = {} => off' \in {"no", off})
  BY DEF OrphanEnds, On, bounds, AwakeInv, AwakeTypeOK, MarkedFirst
<1>3. AwakeTypeOK'
  BY <1>0 DEF AwakeInv, AwakeTypeOK
<1>4. MarkedFirst'
  BY <1>0 DEF AwakeInv, AwakeTypeOK, MarkedFirst
<1>5. LetsGoFirst'
  BY <1>0 DEF AwakeInv, AwakeTypeOK, MarkedFirst, LetsGoFirst
<1>6. NeverStranded' /\ HeldHolds'
  BY <1>0, <1>4, <1>5 DEF AwakeInv, AwakeTypeOK, NeverStranded, HeldHolds, MarkedFirst, LetsGoFirst, Step
<1> QED
  BY <1>3, <1>4, <1>5, <1>6 DEF AwakeInv

-------------------------------------------------------------------------------
(* The sentinels *)

LEMMA ResetsKeeps ==
    ASSUME AwakeInv, NEW m \in Sentinels, SentinelResets(m)
    PROVE  AwakeInv'
<1>0. /\ orphans' = orphans /\ powered' = powered /\ marker' = marker
      /\ app' = app /\ work' = work /\ held' = held /\ sentinel[m] = "resets"
      /\ sentinel \in [Sentinels -> {"none", "reads", "resets", "unmarks", "ok", "bad"}]
  BY DEF AwakeInv, AwakeTypeOK, SentinelResets
<1>1. /\ left' \in 0..Faults /\ (left' = left \/ left' < Faults)
      /\ asks' = asks /\ launched' = launched /\ amiss' = amiss
      /\ left' = Faults => left = Faults
  BY BudgetFacts DEF SentinelResets
<1>2. /\ sentinel' \in [Sentinels -> {"none", "reads", "resets", "unmarks", "ok", "bad"}]
      /\ \A n \in Sentinels : n # m => sentinel'[n] = sentinel[n]
      /\ \/ off' = "no" /\ sentinel'[m] = "unmarks"
         \/ off' = off /\ sentinel'[m] = "bad" /\ left' < Faults
  <2>1. CASE off' = "no" /\ sentinel' = [sentinel EXCEPT ![m] = "unmarks"]
    BY <1>0, <2>1
  <2>2. CASE off' = off /\ sentinel' = [sentinel EXCEPT ![m] = "bad"] /\ Trouble
    BY <1>0, <2>2, TroubleFacts
  <2> QED
    BY <2>1, <2>2 DEF SentinelResets
<1>3. AwakeTypeOK'
  BY <1>0, <1>1, <1>2 DEF AwakeInv, AwakeTypeOK
<1>4. MarkedFirst'
  BY <1>0, <1>1, <1>2 DEF AwakeInv, AwakeTypeOK, MarkedFirst
<1>5. LetsGoFirst'
  BY <1>0, <1>1, <1>2 DEF AwakeInv, AwakeTypeOK, MarkedFirst, LetsGoFirst
<1>6. NeverStranded' /\ HeldHolds'
  BY <1>0, <1>1, <1>2, <1>4, <1>5 DEF AwakeInv, AwakeTypeOK, NeverStranded, HeldHolds, MarkedFirst, LetsGoFirst, Step
<1> QED
  BY <1>3, <1>4, <1>5, <1>6 DEF AwakeInv

LEMMA UnmarksKeeps ==
    ASSUME AwakeInv, NEW m \in Sentinels, SentinelUnmarks(m)
    PROVE  AwakeInv'
<1>0. /\ off' = off /\ orphans' = orphans /\ powered' = powered /\ marker' = FALSE
      /\ app' = app /\ work' = work /\ held' = held /\ sentinel[m] = "unmarks"
      /\ asks' = asks /\ launched' = launched /\ left' = left
      /\ amiss' = amiss
      /\ sentinel' = [sentinel EXCEPT ![m] = "ok"]
      /\ sentinel \in [Sentinels -> {"none", "reads", "resets", "unmarks", "ok", "bad"}]
  BY DEF AwakeInv, AwakeTypeOK, SentinelUnmarks, mac, bounds
<1>2. /\ sentinel' \in [Sentinels -> {"none", "reads", "resets", "unmarks", "ok", "bad"}]
      /\ \A n \in Sentinels : n # m => sentinel'[n] = sentinel[n]
      /\ sentinel'[m] = "ok"
  BY <1>0
<1>8. WorkerIdle.step = "idle"
  BY NothingFacts
<1>3. AwakeTypeOK'
  BY <1>0, <1>2, <1>8 DEF AwakeInv, AwakeTypeOK
<1>4. MarkedFirst'
  BY <1>0, <1>2, <1>8 DEF AwakeInv, AwakeTypeOK, MarkedFirst
<1>5. LetsGoFirst'
  BY <1>0, <1>2, <1>8 DEF AwakeInv, AwakeTypeOK, MarkedFirst, LetsGoFirst
<1>6. NeverStranded' /\ HeldHolds'
  BY <1>0, <1>2, <1>8, <1>4, <1>5 DEF AwakeInv, AwakeTypeOK, NeverStranded, HeldHolds, MarkedFirst, LetsGoFirst, Step
<1> QED
  BY <1>3, <1>4, <1>5, <1>6 DEF AwakeInv

LEMMA DiesKeeps ==
    ASSUME AwakeInv, NEW m \in Sentinels, SentinelDies(m)
    PROVE  AwakeInv'
<1>0. /\ off' = off /\ orphans' = orphans /\ powered' = powered /\ marker' = marker
      /\ app' = app /\ work' = work /\ held' = held
      /\ sentinel' = [sentinel EXCEPT ![m] = "none"]
      /\ sentinel \in [Sentinels -> {"none", "reads", "resets", "unmarks", "ok", "bad"}]
  BY DEF AwakeInv, AwakeTypeOK, SentinelDies, mac
<1>1. /\ left' \in 0..Faults /\ left' < Faults
      /\ asks' = asks /\ launched' = launched /\ amiss' = amiss
  BY TroubleFacts DEF SentinelDies
<1>2. /\ sentinel' \in [Sentinels -> {"none", "reads", "resets", "unmarks", "ok", "bad"}]
      /\ \A n \in Sentinels : n # m => sentinel'[n] = sentinel[n]
      /\ sentinel'[m] = "none"
  BY <1>0
<1>3. AwakeTypeOK'
  BY <1>0, <1>1, <1>2 DEF AwakeInv, AwakeTypeOK
<1>4. MarkedFirst'
  BY <1>0, <1>1, <1>2 DEF AwakeInv, AwakeTypeOK, MarkedFirst
<1>5. LetsGoFirst'
  BY <1>0, <1>1, <1>2 DEF AwakeInv, AwakeTypeOK, MarkedFirst, LetsGoFirst
<1>6. NeverStranded' /\ HeldHolds'
  BY <1>0, <1>1, <1>2, <1>4, <1>5 DEF AwakeInv, AwakeTypeOK, NeverStranded, HeldHolds, MarkedFirst, LetsGoFirst, Step
<1> QED
  BY <1>3, <1>4, <1>5, <1>6 DEF AwakeInv

-------------------------------------------------------------------------------
(* The ways out *)

LEMMA QuitsKeeps ==
    ASSUME AwakeInv, AppQuits
    PROVE  AwakeInv'
<1>0. /\ held \in HeldType /\ work \in WorkType /\ app # 0 /\ work.step = "idle"
      /\ UNCHANGED <<mac, marker, app, bounds>>
  BY DEF AwakeInv, AwakeTypeOK, AppQuits, Step
<1> DEFINE h == [held EXCEPT !.child = "none", !.session = "none"]
<1>1. h \in HeldType /\ h.lid = held.lid
  BY <1>0 DEF HeldType
<1>2. Settle(h, "quit")
  BY DEF AppQuits
<1> HIDE DEF h
<1> QED
  BY <1>0, <1>1, <1>2, SettleKeeps

LEMMA GoneFacts ==
    ASSUME AwakeInv, NEW pmset \in SUBSET {"on", "off"}, AppGone(pmset)
    PROVE  /\ app' = 0 /\ held' = NothingHeld /\ work' = WorkerIdle
           /\ off' = off /\ marker' = marker /\ powered' = powered
           /\ orphans' = orphans \cup pmset /\ orphans' \subseteq {"on", "off"}
           /\ sentinel' \in [Sentinels -> {"none", "reads", "resets", "unmarks", "ok", "bad"}]
           /\ \A n \in Sentinels :
                /\ sentinel'[n] # "reads"
                /\ sentinel'[n] # sentinel[n] => sentinel'[n] = "resets" /\ sentinel[n] = "reads"
BY DEF AwakeInv, AwakeTypeOK, MarkedFirst, AppGone

LEMMA ExitsKeeps ==
    ASSUME AwakeInv, AppExits
    PROVE  AwakeInv'
<1>0. /\ app' = 0 /\ held' = NothingHeld /\ work' = WorkerIdle
      /\ off' = off /\ marker' = marker /\ powered' = powered
      /\ orphans' = orphans /\ orphans' \subseteq {"on", "off"}
      /\ sentinel' \in [Sentinels -> {"none", "reads", "resets", "unmarks", "ok", "bad"}]
      /\ \A n \in Sentinels :
           /\ sentinel'[n] # "reads"
           /\ sentinel'[n] # sentinel[n] => sentinel'[n] = "resets" /\ sentinel[n] = "reads"
  BY GoneFacts DEF AppExits
<1>1. /\ asks' = asks /\ launched' = launched /\ left' = left
      /\ amiss' = amiss /\ app # 0 /\ work.step = "quit"
  BY DEF AppExits, Step, bounds
<1>8. /\ NothingHeld \in HeldType /\ NothingHeld.lid.is = "none" /\ ~NothingHeld.lid.owned
      /\ WorkerIdle \in WorkType /\ WorkerIdle.step = "idle" /\ WorkerIdle.then = "idle"
  BY NothingFacts
<1>3. AwakeTypeOK'
  BY <1>0, <1>1, <1>8 DEF AwakeInv, AwakeTypeOK
<1>4. MarkedFirst'
  BY <1>0, <1>1, <1>8 DEF AwakeInv, AwakeTypeOK, MarkedFirst
<1>5. LetsGoFirst'
  BY <1>0, <1>1, <1>8 DEF AwakeInv, AwakeTypeOK, MarkedFirst, LetsGoFirst
<1>6. NeverStranded' /\ HeldHolds'
  BY <1>0, <1>1, <1>8, <1>4, <1>5 DEF AwakeInv, AwakeTypeOK, NeverStranded, HeldHolds, MarkedFirst, LetsGoFirst, Step
<1> QED
  BY <1>3, <1>4, <1>5, <1>6 DEF AwakeInv

LEMMA KilledKeeps ==
    ASSUME AwakeInv, AppKilled
    PROVE  AwakeInv'
<1> DEFINE pmset == CASE work.step = "set" -> {"on"}
                      [] work.step \in {"reset", "recover"} -> {"off"}
                      [] OTHER -> {}
<1>1. pmset \in SUBSET {"on", "off"}
  OBVIOUS
<1>2. AppGone(pmset)
  BY DEF AppKilled
<1> HIDE DEF pmset
<1>0. /\ app' = 0 /\ held' = NothingHeld /\ work' = WorkerIdle
      /\ off' = off /\ marker' = marker /\ powered' = powered
      /\ orphans' \subseteq {"on", "off"} /\ orphans' = orphans \cup pmset
      /\ sentinel' \in [Sentinels -> {"none", "reads", "resets", "unmarks", "ok", "bad"}]
      /\ \A n \in Sentinels :
           /\ sentinel'[n] # "reads"
           /\ sentinel'[n] # sentinel[n] => sentinel'[n] = "resets" /\ sentinel[n] = "reads"
  BY <1>1, <1>2, GoneFacts
<1>7. /\ left' \in 0..Faults /\ left' < Faults
      /\ asks' = asks /\ launched' = launched
      /\ amiss' \subseteq {"overlap", "cut"} /\ amiss \subseteq amiss'
      /\ "on" \in orphans' => "cut" \in amiss'
  <2>1. /\ Fault /\ asks' = asks /\ launched' = launched
        /\ amiss' = IF work.step = "set" THEN amiss \cup {"cut"} ELSE amiss
    BY DEF AppKilled
  <2>2. "on" \in pmset => work.step = "set"
    BY DEF pmset
  <2>3. /\ amiss \subseteq {"overlap", "cut"} /\ left \in 0..Faults
        /\ "on" \in orphans => "cut" \in amiss
    BY DEF AwakeInv, AwakeTypeOK, MarkedFirst
  <2>4. left' \in 0..Faults /\ left' < Faults
    BY <2>1, <2>3 DEF Fault
  <2> QED
    BY <1>0, <2>1, <2>2, <2>3, <2>4
<1>8. /\ NothingHeld \in HeldType /\ NothingHeld.lid.is = "none" /\ ~NothingHeld.lid.owned
      /\ WorkerIdle \in WorkType /\ WorkerIdle.step = "idle" /\ WorkerIdle.then = "idle"
  BY NothingFacts
<1>3. AwakeTypeOK'
  BY <1>0, <1>7, <1>8 DEF AwakeInv, AwakeTypeOK
<1>4. MarkedFirst'
  BY <1>0, <1>7, <1>8 DEF AwakeInv, AwakeTypeOK, MarkedFirst
<1>5. LetsGoFirst'
  BY <1>0, <1>7, <1>8 DEF AwakeInv, AwakeTypeOK, MarkedFirst, LetsGoFirst
<1>6. NeverStranded' /\ HeldHolds'
  BY <1>0, <1>7, <1>8, <1>4, <1>5 DEF AwakeInv, AwakeTypeOK, NeverStranded, HeldHolds, MarkedFirst, LetsGoFirst, Step
<1> QED
  BY <1>3, <1>4, <1>5, <1>6 DEF AwakeInv

LEMMA RebootKeeps ==
    ASSUME AwakeInv, Reboot
    PROVE  AwakeInv'
<1>0. /\ app' = 0 /\ held' = NothingHeld /\ work' = WorkerIdle
      /\ marker' = FALSE /\ powered' = powered /\ orphans' = {}
      /\ 0 \in 0..Launches
  BY DEF Reboot
<1>1. /\ off' \in {"no", "tiles", "other"}
      /\ sentinel' \in [Sentinels -> {"none", "reads", "resets", "unmarks", "ok", "bad"}]
      /\ marker => off' = "no"
      /\ ~marker => off' = off
      /\ \A n \in Sentinels : sentinel'[n] = "none"
  BY DEF Reboot, AwakeInv, AwakeTypeOK
<1>7. /\ left' \in 0..Faults /\ left' < Faults
      /\ asks' = asks /\ launched' = launched /\ amiss' = amiss
  BY TroubleFacts DEF Reboot
<1>8. /\ NothingHeld \in HeldType /\ NothingHeld.lid.is = "none" /\ ~NothingHeld.lid.owned
      /\ WorkerIdle \in WorkType /\ WorkerIdle.step = "idle" /\ WorkerIdle.then = "idle"
  BY NothingFacts
<1>3. AwakeTypeOK'
  BY <1>0, <1>1, <1>7, <1>8 DEF AwakeInv, AwakeTypeOK
<1>4. MarkedFirst'
  BY <1>0, <1>1, <1>7, <1>8 DEF AwakeInv, AwakeTypeOK, MarkedFirst
<1>5. LetsGoFirst'
  BY <1>0, <1>1, <1>7, <1>8 DEF AwakeInv, AwakeTypeOK, MarkedFirst, LetsGoFirst
<1>6. NeverStranded' /\ HeldHolds'
  BY <1>0, <1>1, <1>7, <1>8, <1>4, <1>5 DEF AwakeInv, AwakeTypeOK, NeverStranded, HeldHolds, MarkedFirst, LetsGoFirst, Step
<1> QED
  BY <1>3, <1>4, <1>5, <1>6 DEF AwakeInv

-------------------------------------------------------------------------------
(* The invariant *)

LEMMA InitAwake == AwakeInit => AwakeInv
<1> SUFFICES ASSUME AwakeInit PROVE AwakeInv
  OBVIOUS
<1>8. /\ NothingHeld \in HeldType /\ NothingHeld.lid.is = "none" /\ ~NothingHeld.lid.owned
      /\ WorkerIdle \in WorkType /\ WorkerIdle.step = "idle" /\ WorkerIdle.then = "idle"
  BY NothingFacts
<1>0. /\ asks \in 0..MaxAsks /\ launched \in 0..Launches /\ left \in 0..Faults
      /\ app \in 0..Launches
      /\ sentinel \in [Sentinels -> {"none", "reads", "resets", "unmarks", "ok", "bad"}]
  BY DEF AwakeInit
<1>1. AwakeTypeOK
  BY <1>0, <1>8 DEF AwakeInit, AwakeTypeOK
<1>2. MarkedFirst
  BY <1>8 DEF AwakeInit, MarkedFirst
<1>3. LetsGoFirst /\ NeverStranded /\ HeldHolds
  BY <1>8 DEF AwakeInit, LetsGoFirst, NeverStranded, HeldHolds
<1> QED
  BY <1>1, <1>2, <1>3 DEF AwakeInv

LEMMA NextAwake == AwakeInv /\ [AwakeNext]_awakeVars => AwakeInv'
<1> SUFFICES ASSUME AwakeInv, [AwakeNext]_awakeVars
             PROVE  AwakeInv'
  OBVIOUS
<1>1. CASE Worker
  BY <1>1, RecoverKeeps, UnmarkKeeps, PassKeeps, LookKeeps, HoldKeeps, KeepKeeps,
     ArmMarkKeeps, ArmSpawnKeeps, TurnOffKeeps, RefusedKeeps, DroppedKeeps, WaitedKeeps,
     ResetKeeps, ExitsKeeps DEF Worker
<1>2. CASE User
  BY <1>2, LaunchKeeps, CommandsKeep, PowerKeeps, QuitsKeeps DEF User
<1>3. CASE TimeUp \/ ChildExits \/ AppKilled \/ Reboot \/ OtherSets
  BY <1>3, TimeUpKeeps, ChildExitsKeeps, KilledKeeps, RebootKeeps, OtherSetsKeeps
<1>4. CASE \E n \in Sentinels : SentinelStep(n) \/ SentinelDies(n)
  BY <1>4, ResetsKeeps, UnmarksKeeps, DiesKeeps DEF SentinelStep
<1>5. CASE \E pmset \in orphans : OrphanEnds(pmset)
  BY <1>5, OrphanKeeps
<1>6. CASE UNCHANGED awakeVars
  <2>1. /\ off' = off /\ orphans' = orphans /\ powered' = powered /\ marker' = marker
        /\ app' = app /\ asks' = asks /\ launched' = launched /\ left' = left
        /\ amiss' = amiss /\ sentinel' = sentinel /\ work' = work /\ held' = held
    BY <1>6 DEF awakeVars, bounds
  <2> QED
    BY <2>1 DEF AwakeInv, AwakeTypeOK, NeverStranded, HeldHolds, MarkedFirst, LetsGoFirst, Step
<1> QED
  BY <1>1, <1>2, <1>3, <1>4, <1>5, <1>6 DEF AwakeNext

\* Sleep that Tiles turned off is marked for as long as it is off, through crashes,
\* kills and reboots at every step, in every history in which no app was launched
\* while the last one's leftovers ran and none was killed while its own pmset
\* turned sleep off; and while nothing fails a hold that is shown is held
\* (lid.rs:217, lid.rs:289).
THEOREM AwakeInvHolds == AwakeSpec => []AwakeInv
<1> QED
  BY InitAwake, NextAwake, PTL DEF AwakeSpec
=============================================================================
