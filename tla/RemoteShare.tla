----------------------------- MODULE RemoteShare -----------------------------
(***************************************************************************)
(* Sharing the inference server with peers: /remote-share, /remote-unshare *)
(* and /remote-status (daemon/mod.rs), whose state is three values under   *)
(* three mutexes, the loop that accepts the peers (core/network/mod.rs,    *)
(* share), and the switch of the menu bar app's panel (remote.rs).         *)
(*                                                                         *)
(* An endpoint, its ticket and the sender that stops its loop are named    *)
(* after the request that made them; 0 is None.                            *)
(***************************************************************************)
EXTENDS ServiceCalls

VARIABLES remote,       \* remote_ticket, remote_running, remote_shutdown_sender
          unsharing,    \* the request that holds the sender's mutex, or 0
          loops,        \* the share loop of each request
          panel         \* the panel: what it shows, its request and its poll

shareVars == <<remote, unsharing, loops, panel>>

Shows(what, ticket) == [what |-> what, ticket |-> ticket]
Unknown == Shows("unknown", 0)
Off == Shows("off", 0)

ShareInit ==
    /\ remote = [ticket |-> 0, running |-> FALSE, sender |-> 0]
    /\ unsharing = 0
    /\ loops = [c \in Calls |-> "none"]
    /\ panel = [shows |-> Unknown, busy |-> 0, poll |-> "idle", read |-> Unknown]

\* `tiles remote share` and `unshare`.
ShareAsk(c) ==
    /\ \/ Arrives(c, "share", "check", 0)
       \/ Arrives(c, "unshare", "sender", 0)
    /\ UNCHANGED shareVars

-----------------------------------------------------------------------------
(* share_remote_inference.  Nothing but the endpoint is awaited, and       *)
(* nothing holds from the check to the three stores.                       *)

ShareCheck(c) ==
    /\ At(c, "share", "check")
    /\ To(c, IF remote.running THEN "failed" ELSE "create")
    /\ UNCHANGED shareVars

ShareCreated(c) ==
    /\ At(c, "share", "create")
    /\ To(c, "ticket")
    /\ loops' = [loops EXCEPT ![c] = "accepting"]
    /\ UNCHANGED <<remote, unsharing, panel>>

ShareFails(c) ==
    /\ At(c, "share", "create")
    /\ Fails(c, "failed")
    /\ UNCHANGED shareVars

ShareTicket(c) ==
    /\ At(c, "share", "ticket")
    /\ To(c, "running")
    /\ remote' = [remote EXCEPT !.ticket = c]
    /\ UNCHANGED <<unsharing, loops, panel>>

ShareRunning(c) ==
    /\ At(c, "share", "running")
    /\ To(c, "store")
    /\ remote' = [remote EXCEPT !.running = TRUE]
    /\ UNCHANGED <<unsharing, loops, panel>>

\* The sender that was there, if any, is dropped.
ShareStore(c) ==
    /\ At(c, "share", "store")
    /\ unsharing = 0
    /\ To(c, "ok")
    /\ remote' = [remote EXCEPT !.sender = c]
    /\ UNCHANGED <<unsharing, loops, panel>>

-----------------------------------------------------------------------------
(* unshare_remote_inference keeps the sender's guard to its end.           *)

Unshare(c) ==
    /\ At(c, "unshare", "sender")
    /\ unsharing = 0
    /\ To(c, "running")
    /\ unsharing' = c
    /\ remote' = [remote EXCEPT !.sender = 0]
    /\ loops' = [n \in Calls |->
         IF n = remote.sender /\ loops[n] = "accepting" THEN "told" ELSE loops[n]]
    /\ UNCHANGED panel

UnshareRunning(c) ==
    /\ At(c, "unshare", "running")
    /\ To(c, "ticket")
    /\ remote' = [remote EXCEPT !.running = FALSE]
    /\ UNCHANGED <<unsharing, loops, panel>>

UnshareTicket(c) ==
    /\ At(c, "unshare", "ticket")
    /\ To(c, "ok")
    /\ remote' = [remote EXCEPT !.ticket = 0]
    /\ unsharing' = 0
    /\ UNCHANGED <<loops, panel>>

-----------------------------------------------------------------------------
(* The loop.                                                               *)

\* Its sender is in the state, or still with the handler.
SenderLives(c) ==
    remote.sender = c \/ calls[c].step \in {"ticket", "running", "store"}

\* A message and a dropped sender are the same to `_ = &mut recvx`.
LoopStops(c) ==
    /\ \/ loops[c] = "told"
       \/ loops[c] = "accepting" /\ ~SenderLives(c)
    /\ loops' = [loops EXCEPT ![c] = "closed"]
    /\ UNCHANGED <<calls, left, remote, unsharing, panel>>

\* An incoming connection that fails ends the loop; the state stays.
LoopFails(c) ==
    /\ loops[c] = "accepting"
    /\ left > 0
    /\ left' = left - 1
    /\ loops' = [loops EXCEPT ![c] = "closed"]
    /\ UNCHANGED <<calls, remote, unsharing, panel>>

-----------------------------------------------------------------------------
(* The panel.                                                              *)

\* remote_set: one request of the panel at a time, and none to stop what it
\* does not show.
PanelAsk(c) ==
    /\ panel.busy = 0
    /\ \/ Arrives(c, "share", "check", 0)
       \/ panel.shows.what = "sharing" /\ Arrives(c, "unshare", "sender", 0)
    /\ panel' = [panel EXCEPT !.busy = c]
    /\ UNCHANGED <<remote, unsharing, loops>>

\* A conflict and an error leave what it shows.
PanelAnswered ==
    LET c == panel.busy IN
    /\ c # 0 /\ calls[c].step \in Ended
    /\ panel' = [panel EXCEPT !.busy = 0,
         !.shows = IF calls[c].step # "ok" THEN @
                   ELSE IF calls[c].op = "share" THEN Shows("sharing", c) ELSE Off]
    /\ UNCHANGED <<calls, left, remote, unsharing, loops>>

\* Its timeout, or the client of a share that does not wait: the handler is
\* dropped at its only awaits.
ShareLeaves(c) ==
    /\ At(c, "share", "create")
    /\ Fails(c, "left")
    /\ UNCHANGED shareVars

\* poll looks at in_flight before it asks and not after.
PollAsks ==
    /\ panel.poll = "idle"
    /\ panel.busy = 0
    /\ panel' = [panel EXCEPT !.poll = "asked"]
    /\ UNCHANGED <<calls, left, remote, unsharing, loops>>

\* The ticket's guard is held while running is read.
RemoteStatus ==
    IF ~remote.running THEN Off
    ELSE IF remote.ticket = 0 THEN Unknown
    ELSE Shows("sharing", remote.ticket)

PollAnswered ==
    /\ panel.poll = "asked"
    /\ panel' = [panel EXCEPT !.poll = "read", !.read = RemoteStatus]
    /\ UNCHANGED <<calls, left, remote, unsharing, loops>>

PollShows ==
    /\ panel.poll = "read"
    /\ panel' = [panel EXCEPT !.poll = "idle", !.shows = panel.read, !.read = Unknown]
    /\ UNCHANGED <<calls, left, remote, unsharing, loops>>

ShareStep(c) == ShareCheck(c) \/ ShareCreated(c) \/ ShareTicket(c) \/ ShareRunning(c)
                \/ ShareStore(c) \/ Unshare(c) \/ UnshareRunning(c) \/ UnshareTicket(c)
ShareTask(c) == LoopStops(c)
ShareFault(c) == ShareFails(c) \/ ShareLeaves(c) \/ LoopFails(c)
PanelStep == PanelAnswered \/ PollAsks \/ PollAnswered \/ PollShows

-----------------------------------------------------------------------------
Shown == [what : {"unknown", "off", "sharing"}, ticket : 0..Requests]

ShareTypeOK ==
    /\ remote \in [ticket : 0..Requests, running : BOOLEAN, sender : 0..Requests]
    /\ unsharing \in 0..Requests
    /\ loops \in [Calls -> {"none", "accepting", "told", "closed"}]
    /\ panel \in [shows : Shown, busy : 0..Requests, poll : {"idle", "asked", "read"}, read : Shown]

\* No endpoint accepts peers but the one whose sender the state holds.
NoStrayShare == \A c \in Calls : loops[c] = "accepting" => remote.sender = c

PanelAgrees == panel.shows = RemoteStatus
=============================================================================
