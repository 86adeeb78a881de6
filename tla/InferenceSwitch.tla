--------------------------- MODULE InferenceSwitch ---------------------------
(***************************************************************************)
(* The menu bar app's switch of the inference server (inference.rs): the   *)
(* taps, the supervisor's poll, which asks again for what the server does  *)
(* not agree with, and the one start or stop that both may have in flight. *)
(* What the daemon does for it is abstracted to the server's four states;  *)
(* InferenceServer says more.                                              *)
(***************************************************************************)
EXTENDS ServiceCalls

VARIABLES server,       \* the inference server: down, booting, up, closing
          switch,       \* the app: what it shows, since when it starts, what it wants
          poll,         \* the supervisor's poll, what its ping found, the power it means;
                        \* history: the starts and stops in flight since that ping
          turn,         \* the start or stop in flight
          asked         \* history: the last tap, and what came across it

powerVars == <<server, switch, poll, turn, asked>>

PowerOps == {"on", "off"}

NoTurn == [step |-> "none", op |-> "none"]

PowerInit ==
    /\ server \in {"down", "up"}
    /\ switch = [power |-> "unknown", since |-> "none", desired |-> "none", age |-> "new"]
    /\ poll = [step |-> "idle", up |-> FALSE, power |-> "unknown", during |-> {}]
    /\ turn = NoTurn
    /\ asked = [op |-> "none", across |-> {}]

-----------------------------------------------------------------------------
(* A start or stop.                                                        *)

\* request, up to its await: a start shows at once.
Began(s, op) == IF op = "on" THEN [s EXCEPT !.since = "new", !.power = "starting"] ELSE s

SendTurn(op) == turn' = [step |-> "sent", op |-> op]

\* History: something that came across the last tap.
Across(what) == asked' = [asked EXCEPT !.across = @ \cup {what}]

\* The history of a poll: its ping is older than this start or stop.
Overlaps(op) ==
    poll' = IF poll.step \in {"pinged", "config"} THEN [poll EXCEPT !.during = @ \cup {op}] ELSE poll

\* A tap that is refused for the one in flight is not wanted either (a mutant).
TapIfFree(c) ==
    /\ \E op \in PowerOps :
         /\ asked' = [asked EXCEPT !.op = op, !.across = @ \cap {"timeout"}]
         /\ IF turn # NoTurn
              THEN Arrives(c, "tap", "failed", 0) /\ UNCHANGED <<switch, poll, turn>>
              ELSE /\ Arrives(c, "tap", "sent", 0)
                   /\ SendTurn(op) /\ Overlaps(op)
                   /\ switch' = Began([switch EXCEPT !.desired = op, !.age = "new"], op)
    /\ UNCHANGED server

\* inference_set: the tap is wanted whether or not its request goes out.
Tap(c) ==
    /\ \E op \in PowerOps :
         LET wants == [switch EXCEPT !.desired = op, !.age = "new"] IN
         /\ asked' = [asked EXCEPT !.op = op, !.across = @ \cap {"timeout"}]
         /\ IF turn # NoTurn
              THEN /\ Arrives(c, "tap", "failed", 0)
                   /\ switch' = wants /\ UNCHANGED <<poll, turn>>
              ELSE /\ Arrives(c, "tap", "sent", 0)
                   /\ SendTurn(op) /\ Overlaps(op) /\ switch' = Began(wants, op)
    /\ UNCHANGED server

\* The daemon: a server that is up, or has not exited, is not started again,
\* and one that still boots is not stopped.
Serve ==
    /\ turn.step = "sent"
    /\ LET up == server \in {"up", "closing"} IN
         IF turn.op = "on"
           THEN /\ turn' = [turn EXCEPT !.step = IF up THEN "ok" ELSE "wait"]
                /\ server' = IF up THEN server ELSE "booting"
           ELSE /\ turn' = [turn EXCEPT !.step = IF up THEN "wait" ELSE "ok"]
                /\ server' = IF up THEN "closing" ELSE server
    /\ UNCHANGED <<calls, left, switch, poll, asked>>

\* It answers once the server is reachable, or has exited.
Served ==
    /\ turn.step = "wait"
    /\ \/ server = "up" /\ turn.op = "on"
       \/ server = "down"
    /\ turn' = [turn EXCEPT !.step =
         IF (server = "up") = (turn.op = "on") THEN "ok" ELSE "failed"]
    /\ UNCHANGED <<calls, left, server, switch, poll, asked>>

\* A timeout of the app's or the daemon's; the server goes on.
TurnFails ==
    /\ turn.step \in {"sent", "wait"}
    /\ left > 0
    /\ left' = left - 1
    /\ turn' = [turn EXCEPT !.step = "failed"]
    /\ IF turn.op = "on" THEN Across("timeout") ELSE asked' = asked
    /\ UNCHANGED <<calls, server, switch, poll>>

\* request, after its await: a refused start and a stop show as off.
Turned ==
    /\ turn.step \in {"ok", "failed"}
    /\ turn' = NoTurn
    /\ switch' = IF (turn.step = "ok") = (turn.op = "off")
                   THEN [switch EXCEPT !.since = "none", !.power = "off"] ELSE switch
    /\ calls' = [c \in Calls |->
         IF calls[c].step = "sent" THEN [calls[c] EXCEPT !.step = turn.step] ELSE calls[c]]
    /\ poll' = IF poll.step = "turning" THEN [poll EXCEPT !.step = "idle"] ELSE poll
    /\ UNCHANGED <<left, server, asked>>

-----------------------------------------------------------------------------
(* The supervisor's tick.                                                  *)

PollPings ==
    /\ poll.step = "idle"
    /\ poll' = [poll EXCEPT !.step = "pinged", !.up = server = "up",
                            !.during = PowerOps \cap {turn.op}]
    /\ UNCHANGED <<calls, left, server, switch, turn, asked>>

\* A start is believed in until READY_TIMEOUT.
PollJudges ==
    /\ poll.step = "pinged"
    /\ LET power == IF poll.up THEN "on"
                    ELSE IF switch.since = "new" THEN "starting" ELSE "off" IN
         /\ poll' = [poll EXCEPT !.step = "config", !.power = power]
         /\ switch' = IF power = "starting" THEN switch ELSE [switch EXCEPT !.since = "none"]
    /\ UNCHANGED <<calls, left, server, turn, asked>>

Idle == poll' = [poll EXCEPT !.step = "idle", !.power = "unknown", !.up = FALSE, !.during = {}]

\* After the await of /config, what is shown is the power that was meant before
\* it, and reconcile goes by it: the app's wish is met, given up, or asked again.
PollSets ==
    LET shown == [switch EXCEPT !.power = poll.power]
        met == poll.power = switch.desired
    IN
    /\ poll.step = "config"
    /\ IF switch.desired = "none" \/ poll.power = "starting"
         THEN Idle /\ switch' = shown /\ UNCHANGED <<turn, asked>>
       ELSE IF met \/ switch.age = "old"
         THEN /\ Idle /\ turn' = turn
              /\ switch' = [shown EXCEPT !.desired = "none"]
              /\ IF ~met THEN Across("given up")
                 ELSE IF poll.during \ {switch.desired} # {} THEN Across("ping")
                 ELSE asked' = asked
       ELSE IF turn # NoTurn
         THEN Idle /\ switch' = shown /\ UNCHANGED <<turn, asked>>
       ELSE /\ poll' = [step |-> "turning", up |-> FALSE, power |-> "unknown", during |-> {}]
            /\ SendTurn(switch.desired)
            /\ switch' = Began(shown, switch.desired)
            /\ asked' = asked
    /\ UNCHANGED <<calls, left, server>>

\* The daemon does not answer the supervisor.
PollUnknown ==
    /\ poll.step = "idle"
    /\ left > 0
    /\ left' = left - 1
    /\ switch' = [power |-> "unknown", since |-> "none", desired |-> "none", age |-> "new"]
    /\ Across("given up")
    /\ UNCHANGED <<calls, server, poll, turn>>

ReadyTimeout ==
    /\ switch.since = "new"
    /\ switch' = [switch EXCEPT !.since = "old"]
    /\ UNCHANGED <<calls, left, server, poll, turn, asked>>

ReconcileTimeout ==
    /\ switch.desired # "none" /\ switch.age = "new"
    /\ left > 0
    /\ left' = left - 1
    /\ switch' = [switch EXCEPT !.age = "old"]
    /\ UNCHANGED <<calls, server, poll, turn, asked>>

-----------------------------------------------------------------------------
(* The server.                                                             *)

ServerGoesOn ==
    /\ server \in {"booting", "closing"}
    /\ server' = IF server = "booting" THEN "up" ELSE "down"
    /\ UNCHANGED <<calls, left, switch, poll, turn, asked>>

\* It does not come up, or ends by itself, which is no answer to a tap.
ServerDies ==
    /\ server \in {"booting", "up"}
    /\ left > 0
    /\ left' = left - 1
    /\ server' = "down"
    /\ IF server = "up" THEN Across("died") /\ Overlaps("off") ELSE UNCHANGED <<asked, poll>>
    /\ UNCHANGED <<calls, switch, turn>>

PowerStep == Serve \/ Served \/ Turned \/ PollPings \/ PollJudges \/ PollSets
             \/ ReadyTimeout \/ ServerGoesOn
PowerFault == TurnFails \/ PollUnknown \/ ReconcileTimeout \/ ServerDies

-----------------------------------------------------------------------------
SwitchType == [power : {"unknown", "off", "starting", "on"}, since : {"none", "new", "old"},
               desired : PowerOps \cup {"none"}, age : {"new", "old"}]
PollType == [step : {"idle", "pinged", "config", "turning"}, up : BOOLEAN,
             power : {"unknown", "off", "starting", "on"}, during : SUBSET PowerOps]
TurnType == [step : {"none", "sent", "wait", "ok", "failed"}, op : PowerOps \cup {"none"}]
AskedType == [op : PowerOps \cup {"none"}, across : SUBSET {"ping", "given up", "died", "timeout"}]

PowerTypeOK ==
    /\ server \in {"down", "booting", "up", "closing"}
    /\ switch \in SwitchType
    /\ poll \in PollType
    /\ turn \in TurnType
    /\ asked \in AskedType

\* What the last tap may have been dropped for: the server ended by itself, the
\* app gave up ("given up": no daemon, or 45 s), the poll that took the tap for
\* settled had pinged before the opposite start or stop ended, or the server did
\* ("ping"), or, for an Off, some start timed out and may still boot ("timeout").
Excuses == asked.across \ (IF asked.op = "on" THEN {"timeout"} ELSE {})

\* The app shows whether the server is up, wants nothing more, and with no such
\* excuse the server is as the last tap asked.
SwitchAgrees ==
    /\ switch.power = IF server = "up" THEN "on" ELSE "off"
    /\ switch.desired = "none"
    /\ asked.op # "none" /\ Excuses = {} => server = (IF asked.op = "on" THEN "up" ELSE "down")
=============================================================================
