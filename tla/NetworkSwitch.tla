---------------------------- MODULE NetworkSwitch ----------------------------
(***************************************************************************)
(* Starting, stopping and using the daemon's p2p network: the handlers of  *)
(* daemon/net.rs around AppState.network_state, a tokio RwLock, and the    *)
(* task that is the network (core/network/mod.rs, start_network).          *)
(*                                                                         *)
(* A network is named after the request that started it.  The lock's queue *)
(* is fair; a reader holds it only to copy the handles out, so it is in    *)
(* the queue as a writer is.                                               *)
(***************************************************************************)
EXTENDS ServiceCalls

VARIABLES network,      \* NetworkState, or of = 0 for None
          nets,         \* the task of each network
          netLock       \* the RwLock: its holder, then those who wait

netVars == <<network, nets, netLock>>

NetOps == {"start", "stop", "use"}

NetInit ==
    /\ network = [of |-> 0, running |-> FALSE]
    /\ nets = [c \in Calls |-> "none"]
    /\ netLock = <<>>

NetAsk(c) ==
    /\ \E op \in NetOps : Arrives(c, op, "lock", 0)
    /\ netLock' = Append(netLock, c)
    /\ UNCHANGED <<network, nets>>

HoldsNet(c) == netLock # <<>> /\ Head(netLock) = c

StartNetUnlocked(c) ==
    /\ At(c, "start", "lock")
    /\ IF network.running THEN To(c, "ok") /\ netLock' = Without(netLock, c)
                          ELSE To(c, "create") /\ netLock' = netLock
    /\ UNCHANGED <<network, nets>>

\* The guard is held across the awaits, until the network is confirmed.
StartNet(c) ==
    /\ At(c, "start", "lock")
    /\ HoldsNet(c)
    /\ IF network.running THEN To(c, "ok") /\ netLock' = Tail(netLock)
                          ELSE To(c, "create") /\ netLock' = netLock
    /\ UNCHANGED <<network, nets>>

\* The endpoint is bound, and the network's task spawned.
NetCreated(c) ==
    /\ At(c, "start", "create")
    /\ To(c, "wait")
    /\ nets' = [nets EXCEPT ![c] = "starting"]
    /\ UNCHANGED <<network, netLock>>

NetCreateFails(c) ==
    /\ At(c, "start", "create")
    /\ Fails(c, "failed")
    /\ netLock' = Without(netLock, c)
    /\ UNCHANGED <<network, nets>>

\* The task subscribes, spawns its Listener and confirms.  Without a receiver
\* the confirmation is an error, and `?` ends the task.
NetConfirm(c) ==
    /\ nets[c] = "starting"
    /\ nets' = [nets EXCEPT ![c] = IF At(c, "start", "wait") THEN "up" ELSE "closed"]
    /\ UNCHANGED <<calls, left, network, netLock>>

NetFails(c) ==
    /\ nets[c] = "starting"
    /\ left > 0
    /\ left' = left - 1
    /\ nets' = [nets EXCEPT ![c] = "closed"]
    /\ UNCHANGED <<calls, network, netLock>>

NetStartedOnceUp(c) ==
    /\ At(c, "start", "wait")
    /\ nets[c] = "up"
    /\ To(c, "ok")
    /\ network' = [of |-> c, running |-> TRUE]
    /\ netLock' = Without(netLock, c)
    /\ UNCHANGED nets

\* The confirmation, or the end of the channel when the task has failed.
NetStarted(c) ==
    /\ At(c, "start", "wait")
    /\ nets[c] # "starting"
    /\ IF nets[c] = "up"
         THEN To(c, "ok") /\ network' = [of |-> c, running |-> TRUE]
         ELSE To(c, "failed") /\ network' = network
    /\ netLock' = Without(netLock, c)
    /\ UNCHANGED nets

\* NetworkStopped is never waited for; the handles stay in the state.
StopNet(c) ==
    /\ At(c, "stop", "lock")
    /\ HoldsNet(c)
    /\ IF network.running
         THEN /\ To(c, "ok")
              /\ network' = [network EXCEPT !.running = FALSE]
              /\ nets' = [nets EXCEPT ![network.of] = "closing"]
         ELSE To(c, "failed") /\ UNCHANGED <<network, nets>>
    /\ netLock' = Tail(netLock)

\* router.shutdown and endpoint.close.
NetCloses(n) ==
    /\ nets[n] = "closing"
    /\ nets' = [nets EXCEPT ![n] = "closed"]
    /\ UNCHANGED <<calls, left, network, netLock>>

\* link_device, sync_with_device and the status: the handles are copied out
\* whether or not their network still runs.
UseNet(c) ==
    /\ At(c, "use", "lock")
    /\ HoldsNet(c)
    /\ IF network.of = 0 THEN To(c, "failed")
       ELSE /\ calls' = [calls EXCEPT ![c].step = "using", ![c].of = network.of]
            /\ left' = left
    /\ netLock' = Tail(netLock)
    /\ UNCHANGED <<network, nets>>

\* The link or sync itself, of which ChatSync and Linking say more.
NetUsed(c) ==
    /\ At(c, "use", "using")
    /\ \E outcome \in {"ok", "failed"} : To(c, outcome)
    /\ UNCHANGED netVars

\* The handler's future is dropped, and the guard with it.
NetLeaves(c) ==
    /\ calls[c].op \in NetOps
    /\ calls[c].step \in {"lock", "create", "wait"}
    /\ Fails(c, "left")
    /\ netLock' = Without(netLock, c)
    /\ UNCHANGED <<network, nets>>

\* A handler and a network go on by themselves.
NetStep(c) == StartNet(c) \/ NetCreated(c) \/ NetStarted(c) \/ StopNet(c)
              \/ UseNet(c) \/ NetUsed(c)
NetTask(c) == NetConfirm(c) \/ NetCloses(c)
NetFault(c) == NetCreateFails(c) \/ NetFails(c) \/ NetLeaves(c)

-----------------------------------------------------------------------------
NetTypeOK ==
    /\ network \in [of : 0..Requests, running : BOOLEAN]
    /\ nets \in [Calls -> {"none", "starting", "up", "closing", "closed"}]
    /\ netLock \in Seq(Calls)

\* The network the state says runs is up, and one that is up is the state's:
\* stop_network reaches it.  The exception is a start whose client left after
\* the confirmation was sent and before it was read (daemon/net.rs:110).
NetworkIsKnown ==
    /\ network.running => nets[network.of] = "up"
    /\ \A c \in Calls :
         nets[c] = "up" => \/ network = [of |-> c, running |-> TRUE]
                           \/ calls[c].step \in {"wait", "left"}

\* For the proofs: a start that creates or waits for its network holds the lock,
\* and no other network runs meanwhile.
NetInv ==
    /\ NetTypeOK
    /\ NetworkIsKnown
    /\ network.running => network.of # 0
    /\ \A c \in Calls : calls[c].op = "start" /\ calls[c].step \in {"create", "wait"} =>
          HoldsNet(c) /\ ~network.running
    /\ \A c \in Calls : nets[c] # "none" =>
          calls[c].op = "start" /\ calls[c].step \notin {"lock", "create"}

NetAtRest == \A c \in Calls : nets[c] \notin {"starting", "closing"}
=============================================================================
