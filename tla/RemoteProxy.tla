---------------------------- MODULE RemoteProxy ----------------------------
(***************************************************************************)
(* A client of a shared inference server (core/network/mod.rs, connect and *)
(* share): its connection to the peer's listener, a stream to the host,    *)
(* and the host's connection to the server.  Peer and host each copy both  *)
(* ways until their `select!` is over.                                     *)
(*                                                                         *)
(* A pipe is one direction of a connection or stream, named by its ends:   *)
(* what is in it, how it ends, and whether it is still read.               *)
(***************************************************************************)
EXTENDS ServiceCalls

Parts == 2       \* bound: the parts of a request, and of a reply

VARIABLES pipes, copies,
          proxies,      \* the task of the peer, and that of the host
          client, backend

proxyVars == <<pipes, copies, proxies, client, backend>>

Proxies == {"peer", "host"}
Asks(x) == IF x = "peer" THEN <<"client", "peer", "host">> ELSE <<"peer", "host", "server">>
Replies(x) == IF x = "peer" THEN <<"host", "peer", "client">> ELSE <<"server", "host", "peer">>
Copies == {Asks(x) : x \in Proxies} \union {Replies(x) : x \in Proxies}
From(k) == <<k[1], k[2]>>
Into(k) == <<k[2], k[3]>>
Pipes == {From(k) : k \in Copies} \union {Into(k) : k \in Copies}
Stream == {<<"peer", "host">>, <<"host", "peer">>}

ProxyInit ==
    /\ pipes = [p \in Pipes |-> [n |-> 0, end |-> "open", read |-> TRUE]]
    /\ copies = [k \in Copies |-> "none"]
    /\ proxies = [x \in Proxies |-> "none"]
    /\ client = [at |-> "none", sent |-> 0, got |-> 0]
    /\ backend = [at |-> "none", sent |-> 0, got |-> 0]

\* x drops all it has of the pipes: what it wrote ends there, and what it reads is
\* read no more.
Dropped(x) == [p \in Pipes |-> [pipes[p] EXCEPT
    !.end = IF p[1] = x /\ @ = "open" THEN "fin" ELSE @, !.read = @ /\ p[2] # x]]
Cut(of) == [p \in Pipes |-> IF p \in Stream THEN [n |-> 0, end |-> "cut", read |-> FALSE] ELSE of[p]]

Put(p) == [pipes EXCEPT ![p].n = @ + 1]
Starts(x) == /\ proxies' = [proxies EXCEPT ![x] = "on"]
             /\ copies' = [k \in Copies |-> IF k[2] = x THEN "copying" ELSE copies[k]]
Stops(x) == /\ proxies' = [proxies EXCEPT ![x] = "ended"]
            /\ copies' = [k \in Copies |-> IF k[2] = x /\ copies[k] = "copying" THEN "dropped"
                                                                              ELSE copies[k]]
SameCalls == UNCHANGED <<calls, left>>
LinkFault == Fault /\ UNCHANGED calls
SameProxies == UNCHANGED <<copies, proxies>>

-----------------------------------------------------------------------------
(* The client and the server (backend).                                     *)

ClientConnects ==
    /\ client.at = "none"
    /\ client' = [client EXCEPT !.at = "on"]
    /\ proxies' = [proxies EXCEPT !["peer"] = "connecting"]
    /\ UNCHANGED <<pipes, copies, backend>> /\ SameCalls

ClientSends ==
    /\ client.at = "on" /\ client.sent < Parts
    /\ client' = [client EXCEPT !.sent = @ + 1]
    /\ pipes' = Put(<<"client", "peer">>)
    /\ UNCHANGED backend /\ SameProxies /\ SameCalls

\* It may tell that its request is over, and may not.
ClientShuts ==
    /\ client.at = "on" /\ client.sent = Parts
    /\ client' = [client EXCEPT !.at = "shut"]
    /\ pipes' = [pipes EXCEPT ![<<"client", "peer">>].end = "fin"]
    /\ UNCHANGED backend /\ SameProxies /\ SameCalls

ClientReads ==
    /\ client.at \in {"on", "shut"} /\ pipes[<<"peer", "client">>].n > 0
    /\ client' = [client EXCEPT !.got = @ + 1]
    /\ pipes' = [pipes EXCEPT ![<<"peer", "client">>].n = @ - 1]
    /\ UNCHANGED backend /\ SameProxies /\ SameCalls

ClientLeaves ==
    /\ client.at \in {"on", "shut"}
    /\ client' = [client EXCEPT !.at = "gone"]
    /\ pipes' = Dropped("client")
    /\ UNCHANGED backend /\ SameProxies /\ LinkFault

ServerReads ==
    /\ backend.at = "on" /\ pipes[<<"host", "server">>].n > 0
    /\ backend' = [backend EXCEPT !.got = @ + 1]
    /\ pipes' = [pipes EXCEPT ![<<"host", "server">>].n = @ - 1]
    /\ UNCHANGED client /\ SameProxies /\ SameCalls

\* A server may answer before it has read all of the request.
ServerReplies ==
    /\ backend.at = "on" /\ backend.sent < Parts
    /\ backend' = [backend EXCEPT !.sent = @ + 1]
    /\ pipes' = Put(<<"server", "host">>)
    /\ UNCHANGED client /\ SameProxies /\ SameCalls

ServerCloses ==
    /\ backend.at = "on" /\ backend.sent = Parts
    /\ backend' = [backend EXCEPT !.at = "closed"]
    /\ pipes' = Dropped("server")
    /\ UNCHANGED client /\ SameProxies /\ SameCalls

-----------------------------------------------------------------------------
(* The proxies.                                                            *)

PeerConnects ==
    /\ proxies["peer"] = "connecting"
    /\ Starts("peer")
    /\ UNCHANGED <<pipes, client, backend>> /\ SameCalls

\* The host hears of a stream with the first that is sent on it.
HostAccepts ==
    /\ proxies["host"] = "none"
    /\ pipes[<<"peer", "host">>].n > 0 \/ pipes[<<"peer", "host">>].end = "fin"
    /\ proxies' = [proxies EXCEPT !["host"] = "connecting"]
    /\ UNCHANGED <<pipes, copies, client, backend>> /\ SameCalls

HostConnects ==
    /\ proxies["host"] = "connecting"
    /\ Starts("host")
    /\ backend' = [backend EXCEPT !.at = "on"]
    /\ UNCHANGED <<pipes, client>> /\ SameCalls

\* unwrap and expect: the task panics, and drops what it has.
ConnectFails(x) ==
    /\ proxies[x] = "connecting"
    /\ Stops(x)
    /\ pipes' = IF x = "peer" THEN Cut(Dropped(x)) ELSE Dropped(x)
    /\ UNCHANGED <<client, backend>> /\ LinkFault

Copied(k) ==
    /\ copies[k] = "copying"
    /\ pipes[From(k)].n > 0 /\ pipes[Into(k)].read
    /\ pipes' = [pipes EXCEPT ![From(k)].n = @ - 1, ![Into(k)].n = @ + 1]
    /\ UNCHANGED <<client, backend>> /\ SameProxies /\ SameCalls

\* The end is passed on as well: finish, or shutdown.
CopyEnds(k) ==
    /\ copies[k] = "copying"
    /\ pipes[From(k)].n = 0 /\ pipes[From(k)].end = "fin"
    /\ copies' = [copies EXCEPT ![k] = "done"]
    /\ pipes' = [pipes EXCEPT ![Into(k)].end = IF @ = "open" THEN "fin" ELSE @]
    /\ UNCHANGED <<proxies, client, backend>> /\ SameCalls

CopyFails(k) ==
    /\ copies[k] = "copying"
    /\ pipes[From(k)].end = "cut" \/ (pipes[From(k)].n > 0 /\ ~pipes[Into(k)].read)
    /\ copies' = [copies EXCEPT ![k] = "failed"]
    /\ UNCHANGED <<pipes, proxies, client, backend>> /\ SameCalls

\* select!: the end of the reply, or an error, is the end of both; the end of the
\* request is not.  The peer's connection goes with its task.
ProxyEnds(x) ==
    /\ proxies[x] = "on"
    /\ copies[Replies(x)] \in {"done", "failed"} \/ copies[Asks(x)] = "failed"
    /\ Stops(x)
    /\ pipes' = IF x = "peer" THEN Cut(Dropped(x)) ELSE Dropped(x)
    /\ UNCHANGED <<client, backend>> /\ SameCalls

\* The connection is lost, or the host stops sharing.
StreamLost ==
    /\ proxies["peer"] = "on"
    /\ pipes' = Cut(pipes)
    /\ UNCHANGED <<client, backend>> /\ SameProxies /\ LinkFault

\* What goes on by itself, and what client and server may do.
ProxyStep ==
    \/ ClientReads \/ PeerConnects \/ HostAccepts \/ HostConnects
    \/ \E k \in Copies : Copied(k) \/ CopyEnds(k) \/ CopyFails(k)
    \/ \E x \in Proxies : ProxyEnds(x)
ProxyUse == ClientConnects \/ ClientSends \/ ClientShuts \/ ServerReads \/ ServerReplies \/ ServerCloses
ProxyFault == ClientLeaves \/ StreamLost \/ \E x \in Proxies : ConnectFails(x)

-----------------------------------------------------------------------------
ProxyTypeOK ==
    /\ pipes \in [Pipes -> [n : 0..Parts, end : {"open", "fin", "cut"}, read : BOOLEAN]]
    /\ copies \in [Copies -> {"none", "copying", "done", "failed", "dropped"}]
    /\ proxies \in [Proxies -> {"none", "connecting", "on", "ended"}]
    /\ client \in [at : {"none", "on", "shut", "gone"}, sent : 0..Parts, got : 0..Parts]
    /\ backend \in [at : {"none", "on", "closed"}, sent : 0..Parts, got : 0..Parts]

\* For the proofs: what is on its way, or was read, was sent.
ProxyInv ==
    LET n(a, b) == pipes[<<a, b>>].n IN
    /\ ProxyTypeOK
    /\ n("client", "peer") + n("peer", "host") + n("host", "server") + backend.got <= client.sent
    /\ n("server", "host") + n("host", "peer") + n("peer", "client") + client.got <= backend.sent

\* Once the server has closed, both tasks end; and the client has the whole reply
\* and its end, when the server had read the whole request.
ProxySettles ==
    backend.at = "closed" =>
        /\ \A x \in Proxies : proxies[x] = "ended"
        /\ left = Faults /\ backend.got = Parts =>
              client.got = Parts /\ pipes[<<"peer", "client">>].end = "fin"
=============================================================================
