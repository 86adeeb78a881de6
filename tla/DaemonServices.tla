--------------------------- MODULE DaemonServices ---------------------------
(***************************************************************************)
(* The daemon's services that are on or off, behind one router: the        *)
(* network, the remote share, the sign in and the inference server; and    *)
(* what passes a share, the proxy of its peers.  They share no state but   *)
(* their requests, so a behaviour is about one of them.                    *)
(***************************************************************************)
EXTENDS NetworkSwitch, RemoteShare, RemoteProxy, SignIn, InferenceSwitch

VARIABLE service        \* the one that a behaviour is about

vars == <<calls, left, netVars, shareVars, proxyVars, signVars, powerVars, service>>

Init ==
    /\ InitCalls /\ NetInit /\ ShareInit /\ ProxyInit /\ SignInit /\ PowerInit
    /\ service \in {"network", "share", "proxy", "sign in", "inference"}

OfNetwork(A) ==
    service = "network" /\ A /\ UNCHANGED <<shareVars, proxyVars, signVars, powerVars, service>>
OfShare(A) ==
    service = "share" /\ A /\ UNCHANGED <<netVars, proxyVars, signVars, powerVars, service>>
OfProxy(A) ==
    service = "proxy" /\ A /\ UNCHANGED <<netVars, shareVars, signVars, powerVars, service>>
OfSignIn(A) ==
    service = "sign in" /\ A /\ UNCHANGED <<netVars, shareVars, proxyVars, powerVars, service>>
OfInference(A) ==
    service = "inference" /\ A /\ UNCHANGED <<netVars, shareVars, proxyVars, signVars, service>>

Network(c) == NetAsk(c) \/ NetStep(c) \/ NetTask(c) \/ NetFault(c)
Share(c) == ShareAsk(c) \/ PanelAsk(c) \/ ShareStep(c) \/ ShareTask(c) \/ ShareFault(c)
Sign(c) == SignAsk(c) \/ SignStep(c) \/ SignTask(c) \/ SignFault(c) \/ UserStep(c)

Next ==
    \/ \E c \in Calls : OfNetwork(Network(c)) \/ OfShare(Share(c)) \/ OfSignIn(Sign(c))
                       \/ OfInference(Tap(c))
    \/ OfShare(PanelStep)
    \/ OfProxy(ProxyUse) \/ OfProxy(ProxyStep) \/ OfProxy(ProxyFault)
    \/ OfInference(PowerStep) \/ OfInference(PowerFault)

PowerFairness ==
    /\ WF_vars(OfInference(Serve \/ Served \/ Turned))
    /\ WF_vars(OfInference(PollPings \/ PollJudges \/ PollSets))
    /\ WF_vars(OfInference(ReadyTimeout))
    /\ WF_vars(OfInference(ServerGoesOn))

\* A handler, a task and the panel's timer go on; requests, faults and the user
\* need not happen.
Fairness ==
    /\ \A c \in Calls :
         /\ WF_vars(OfNetwork(NetStep(c)))
         /\ WF_vars(OfNetwork(NetTask(c)))
         /\ WF_vars(OfShare(ShareStep(c)))
         /\ WF_vars(OfShare(ShareTask(c)))
         /\ WF_vars(OfSignIn(SignStep(c)))
         /\ WF_vars(OfSignIn(SignTask(c)))
    /\ WF_vars(OfShare(PanelStep))
    /\ WF_vars(OfProxy(ProxyStep))
    /\ PowerFairness

Spec == Init /\ [][Next]_vars /\ Fairness

-----------------------------------------------------------------------------
Steps == Ended \cup {"lock", "create", "wait", "using", "check", "ticket", "running", "store",
    "sender", "resolve", "await", "stream", "find", "write", "sent"}

CallsTypeOK ==
    /\ calls \in [Calls -> [op : NetOps \cup {"none", "share", "unshare", "login", "logout", "tap"},
                            step : Steps, of : 0..Requests \cup Dids]]
    /\ left \in 0..Faults

TypeOK ==
    /\ CallsTypeOK
    /\ service \in {"network", "share", "proxy", "sign in", "inference"}
    /\ NetTypeOK /\ ShareTypeOK /\ ProxyTypeOK /\ SignTypeOK /\ PowerTypeOK

\* The services' invariants.
Inv == TypeOK /\ NetworkIsKnown /\ OneSignInStands

\* For the proofs: the service that a behaviour is about keeps its invariant, and
\* the others are as they were.
ServicesInv ==
    /\ CallsTypeOK
    /\ service \in {"network", "share", "proxy", "sign in", "inference"}
    /\ ShareTypeOK /\ ProxyInv /\ PowerTypeOK
    /\ IF service = "network" THEN NetInv ELSE NetInit
    /\ IF service = "sign in" THEN SignInv ELSE SignInit

\* Every request ends, and so does what it started but the network and the
\* share: a sign in whose browser never comes back, a network whose client has
\* left, a request behind the lock of one whose client has left.
EveryRequestEnds ==
    <>[](/\ \A c \in Calls : calls[c].step \in Ended
         /\ NetAtRest /\ SignAtRest)

\* However shares and unshares interleave, in the end no endpoint accepts peers
\* but the one whose sender the state holds, which an unshare closes
\* (daemon/mod.rs:855).  The panel then shows what the daemon says, though a poll
\* that was asked before a share answers after it (remote.rs:65), and the switch
\* of the inference server what that server is.  That is what the last tap asked
\* for, though it may have come in the middle of a start or stop (inference.rs:168),
\* unless the poll that took it for settled had pinged before the opposite one
\* ended, or for a fault that Excuses names.
ServicesSettle ==
    <>[](/\ service = "share" => NoStrayShare /\ PanelAgrees
         /\ service = "proxy" => ProxySettles
         /\ service = "inference" => SwitchAgrees)
=============================================================================
