------------------------------ MODULE StayAwake ------------------------------
(***************************************************************************)
(* Stay Awake, the menu bar app's session that holds a Mac up (awake.rs),  *)
(* and closed-display mode, which turns sleep off for it (lid.rs).         *)
(*                                                                         *)
(* The setting outlives the app, so the app leaves a marker file and a     *)
(* sentinel process that turns it back when the app's end of a pipe        *)
(* closes; the next launch and the boot guard look for the marker.  The    *)
(* worker's pass is cut where it touches the Mac, and the app, a sentinel  *)
(* or the whole Mac may go down in between.                                *)
(***************************************************************************)
EXTENDS FaultBudget, Naturals

CONSTANTS MaxAsks,      \* how many commands and changes of the power
          Launches      \* how many times the app is launched

ASSUME MaxAsksAssumption == MaxAsks \in Nat
ASSUME LaunchesAssumption == Launches \in Nat

VARIABLES off,          \* SleepDisabled: whether on, and since whose pmset
          marker,       \* the file "closed-display"
          sentinel,     \* the sentinel of each launch's hold
          orphans,      \* pmset processes of an app that is gone
          powered,      \* allows_stay_awake
          app,          \* the launch that is up, or 0
          held,         \* Held: caffeinate, the lid's hold and the session
          work,         \* how far the worker is, and what follows a settle
          asks, launched,
          amiss         \* of the history: "overlap", an app was launched while
                        \* something of the one before still ran; "cut", an
                        \* app was killed while its pmset turned sleep off

mac == <<off, orphans, powered>>
bounds == <<asks, launched, left, amiss>>
awakeVars == <<off, marker, sentinel, orphans, powered, app, held, work, bounds>>

Sentinels == 1..Launches

\* No hold, and one that has not asked yet.
NoHold == [is |-> "none", owned |-> FALSE]
NewHold == [is |-> "new", owned |-> FALSE]

NothingHeld == [child |-> "none", session |-> "none", lid |-> NoHold]
WorkerIdle == [step |-> "idle", then |-> "idle"]

AwakeInit ==
    /\ off \in {"no", "other"}
    /\ marker = FALSE
    /\ sentinel = [n \in Sentinels |-> "none"]
    /\ orphans = {}
    /\ powered = TRUE
    /\ app = 0
    /\ held = NothingHeld
    /\ work = WorkerIdle
    /\ asks = MaxAsks /\ launched = 0 /\ left = Faults /\ amiss = {}

Step(s) == app # 0 /\ work.step = s
Goes(s) == work' = [work EXCEPT !.step = s]
Lid(is, owned) == held' = [held EXCEPT !.lid = [is |-> is, owned |-> owned]]

\* One of the Mac's own troubles.
Trouble == Fault /\ UNCHANGED <<asks, launched, amiss>>

\* pmset -a disablesleep 1.
On == off' = IF off = "no" THEN "tiles" ELSE off

-----------------------------------------------------------------------------
(* Launch and recover.                                                     *)

AppLaunch ==
    /\ app = 0
    /\ launched < Launches
    /\ launched' = launched + 1
    /\ app' = launched + 1
    /\ amiss' = IF orphans # {} \/ \E n \in Sentinels : sentinel[n] \in {"resets", "unmarks"}
                  THEN amiss \cup {"overlap"} ELSE amiss
    /\ held' = NothingHeld
    /\ Goes(IF marker THEN "recover" ELSE "idle")
    /\ UNCHANGED <<mac, marker, sentinel, asks, left>>

\* recover resets only what is still off, and leaves the marker if it cannot.
Recover ==
    /\ Step("recover")
    /\ \/ off' = "no" /\ Goes("unmark") /\ UNCHANGED bounds
       \/ off # "no" /\ off' = off /\ Goes("idle") /\ Trouble
    /\ UNCHANGED <<marker, sentinel, orphans, powered, app, held>>

Unmark ==
    /\ Step("unmark")
    /\ marker' = FALSE
    /\ work' = [step |-> work.then, then |-> "idle"]
    /\ UNCHANGED <<mac, sentinel, app, held, bounds>>

-----------------------------------------------------------------------------
(* The commands, which take the mutex that the worker's pass holds.        *)

Ask(h) ==
    /\ Step("idle")
    /\ asks > 0
    /\ asks' = asks - 1
    /\ held' = h
    /\ UNCHANGED <<mac, marker, sentinel, app, work, launched, left, amiss>>

\* Only caffeinate is killed; the lid's hold carries over.
Start == powered /\ Ask([held EXCEPT !.child = "none", !.session = "running"])
Stop == held.session # "none" /\ Ask([held EXCEPT !.session = "none"])
Pause == held.session = "running" /\ Ask([held EXCEPT !.session = "paused"])
Resume == powered /\ held.session = "paused" /\ Ask([held EXCEPT !.session = "running"])

\* The charger, or the battery at MINIMUM_BATTERY_PERCENT.
PowerChanges ==
    /\ asks > 0
    /\ asks' = asks - 1
    /\ powered' = ~powered
    /\ UNCHANGED <<off, orphans, marker, sentinel, app, held, work, launched, left,
                   amiss>>

\* A session with a length has run it.
TimeUp ==
    /\ app # 0 /\ held.session = "running"
    /\ held' = [held EXCEPT !.session = "over"]
    /\ UNCHANGED <<mac, marker, sentinel, app, work, bounds>>

\* caffeinate -t, or a kill from outside.
ChildExits ==
    /\ app # 0 /\ held.child = "runs"
    /\ \/ held.session = "over" /\ UNCHANGED bounds
       \/ Trouble
    /\ held' = [held EXCEPT !.child = "exited"]
    /\ UNCHANGED <<mac, marker, sentinel, app, work>>

-----------------------------------------------------------------------------
(* Letting go of the lid's hold, and whatever comes after that.            *)

\* Closing the pipe ends the sentinel's read.
Settle(h, then) ==
    /\ sentinel' = IF h.lid.owned /\ sentinel[app] = "reads"
                     THEN [sentinel EXCEPT ![app] = "resets"] ELSE sentinel
    /\ held' = [h EXCEPT !.lid.owned = FALSE]
    /\ work' = IF h.lid.owned THEN [step |-> "wait", then |-> then]
                              ELSE [step |-> then, then |-> "idle"]

\* child.wait: a sentinel that reset is trusted, any other is made up for.
WaitedAny ==
    /\ Step("wait")
    /\ sentinel[app] \notin {"resets", "unmarks"}
    /\ work' = [step |-> work.then, then |-> "idle"]
    /\ sentinel' = [sentinel EXCEPT ![app] = "none"]
    /\ UNCHANGED <<mac, marker, app, held, bounds>>

Waited ==
    /\ Step("wait")
    /\ sentinel[app] \notin {"resets", "unmarks"}
    /\ work' = IF sentinel[app] = "ok" THEN [step |-> work.then, then |-> "idle"]
                                       ELSE [work EXCEPT !.step = "reset"]
    /\ sentinel' = [sentinel EXCEPT ![app] = "none"]
    /\ UNCHANGED <<mac, marker, app, held, bounds>>

\* set(false) of settle; a failure keeps the marker.
Reset ==
    /\ Step("reset")
    /\ \/ off' = "no" /\ Goes("unmark") /\ UNCHANGED bounds
       \/ off' = off /\ work' = [step |-> work.then, then |-> "idle"] /\ Trouble
    /\ UNCHANGED <<marker, sentinel, orphans, powered, app, held>>

-----------------------------------------------------------------------------
(* reconcile: the worker's pass, at every wake and every tick.             *)

\* The child's end is the session's.
Pass ==
    /\ Step("idle")
    /\ IF held.child = "exited"
         THEN LET h == [held EXCEPT !.child = "none", !.session = "none"] IN
              IF h.lid = NoHold
                THEN held' = h /\ Goes("look") /\ UNCHANGED sentinel
                ELSE Settle(h, "dropped")
         ELSE Goes("look") /\ UNCHANGED <<held, sentinel>>
    /\ UNCHANGED <<mac, marker, app, bounds>>

\* release and take drop the hold they settled.
LidDropped ==
    /\ Step("dropped")
    /\ Lid("none", FALSE)
    /\ Goes("look")
    /\ UNCHANGED <<mac, marker, sentinel, app, bounds>>

StandingAnyPower(session) == IF session # "over" THEN session ELSE "none"
Standing(session) == IF powered /\ session # "over" THEN session ELSE "none"

\* The session that still stands, and caffeinate after it.
Look ==
    /\ Step("look")
    /\ LET h == [held EXCEPT !.session = Standing(@)]
           runs == h.session = "running"
       IN \/ /\ runs /\ h.child = "none"
             /\ \/ held' = [h EXCEPT !.child = "runs"] /\ UNCHANGED bounds
                \/ held' = [h EXCEPT !.session = "none"] /\ Trouble
             /\ Goes("hold") /\ UNCHANGED sentinel
          \/ /\ ~runs /\ h.child # "none" /\ h.lid # NoHold
             /\ Settle([h EXCEPT !.child = "none"], "dropped")
             /\ UNCHANGED bounds
          \/ /\ ~runs /\ h.child # "none" /\ h.lid = NoHold
             /\ held' = [h EXCEPT !.child = "none"]
             /\ Goes("hold") /\ UNCHANGED <<sentinel, bounds>>
          \/ /\ runs = (h.child # "none")
             /\ held' = h
             /\ Goes("hold") /\ UNCHANGED <<sentinel, bounds>>
    /\ UNCHANGED <<mac, marker, app>>

\* The hold goes with the child, here one that a new session left over.
Hold ==
    /\ Step("hold")
    /\ IF held.child # "none"
         THEN /\ held' = [held EXCEPT !.lid = IF @ = NoHold THEN NewHold ELSE @]
              /\ Goes("keep") /\ UNCHANGED sentinel
         ELSE IF held.lid = NoHold
         THEN Goes("idle") /\ UNCHANGED <<held, sentinel>>
         ELSE Settle(held, "dropped")
    /\ UNCHANGED <<mac, marker, app, bounds>>

\* keep, and take for a new hold.
Keep ==
    /\ Step("keep")
    /\ LET lid == held.lid IN
       CASE lid.is = "new" /\ off # "no" ->
              Lid("held", FALSE) /\ Goes("idle") /\ UNCHANGED sentinel
         [] lid.is = "new" /\ off = "no" ->
              Goes("mark") /\ UNCHANGED <<held, sentinel>>
         [] lid.is = "held" /\ off = "no" ->
              Settle([held EXCEPT !.lid.is = "cleared"], "idle")
         [] lid.is = "held" /\ off # "no" /\ lid.owned ->
              Goes("mark") /\ UNCHANGED <<held, sentinel>>
         [] OTHER -> Goes("idle") /\ UNCHANGED <<held, sentinel>>
    /\ UNCHANGED <<mac, marker, app, bounds>>

ArmUnmarked ==
    /\ Step("mark")
    /\ Goes("spawn")
    /\ UNCHANGED <<mac, marker, sentinel, app, held, bounds>>

\* arm: the marker, then the sentinel unless it lives.
ArmMark ==
    /\ Step("mark")
    /\ \/ marker' = TRUE /\ Goes("spawn") /\ UNCHANGED bounds
       \/ ~marker /\ marker' = marker /\ Goes("refused") /\ Trouble
    /\ UNCHANGED <<mac, sentinel, app, held>>

ArmSpawn ==
    /\ Step("spawn")
    /\ \/ /\ sentinel' = [sentinel EXCEPT ![app] = "reads"]
          /\ Goes(IF held.lid.is = "new" THEN "set" ELSE "idle")
          /\ UNCHANGED bounds
       \/ /\ sentinel[app] # "reads"
          /\ sentinel' = [sentinel EXCEPT ![app] = "none"]
          /\ Goes("refused")
          /\ Trouble
    /\ UNCHANGED <<mac, marker, app, held>>

\* set(true) of take.
TurnOff ==
    /\ Step("set")
    /\ \/ On /\ Lid("held", TRUE) /\ Goes("idle") /\ UNCHANGED bounds
       \/ off' = off /\ held' = held /\ Goes("refused") /\ Trouble
    /\ UNCHANGED <<marker, sentinel, orphans, powered, app>>

\* disarm, and the marker goes; keep does not look at what arm returned.
Refused ==
    /\ Step("refused")
    /\ IF held.lid.is = "new"
         THEN /\ Lid("refused", FALSE)
              /\ work' = [step |-> "unmark", then |-> "idle"]
              /\ sentinel' = [sentinel EXCEPT ![app] = "none"]
         ELSE Goes("idle") /\ UNCHANGED <<held, sentinel>>
    /\ UNCHANGED <<mac, marker, app, bounds>>

-----------------------------------------------------------------------------
(* The ways out.                                                           *)

\* The last of the app: its pipe closes, and caffeinate -w goes with it.
AppGone(pmset) ==
    /\ app' = 0
    /\ held' = NothingHeld
    /\ work' = WorkerIdle
    /\ sentinel' = [n \in Sentinels |->
         IF n = app /\ sentinel[n] = "reads" THEN "resets" ELSE sentinel[n]]
    /\ orphans' = orphans \cup pmset
    /\ UNCHANGED <<off, marker, powered>>

\* RunEvent::Exit: shutdown has the mutex to the end of the release.
AppQuits ==
    /\ Step("idle")
    /\ LET h == [held EXCEPT !.child = "none", !.session = "none"] IN
       Settle(h, "quit")
    /\ UNCHANGED <<mac, marker, app, bounds>>

AppExits == Step("quit") /\ AppGone({}) /\ UNCHANGED bounds

\* Killed at any step; a pmset that runs by then runs on.
AppKilled ==
    /\ app # 0
    /\ AppGone(CASE work.step = "set" -> {"on"}
              [] work.step \in {"reset", "recover"} -> {"off"}
              [] OTHER -> {})
    /\ amiss' = IF work.step = "set" THEN amiss \cup {"cut"} ELSE amiss
    /\ Fault /\ UNCHANGED <<asks, launched>>

OrphanEnds(pmset) ==
    /\ pmset \in orphans
    /\ orphans' = orphans \ {pmset}
    /\ IF pmset = "on" THEN On ELSE off' = "no"
    /\ UNCHANGED <<marker, sentinel, powered, app, held, work, bounds>>

\* SENTINEL, after its read has ended.
SentinelResets(n) ==
    /\ sentinel[n] = "resets"
    /\ \/ off' = "no" /\ sentinel' = [sentinel EXCEPT ![n] = "unmarks"] /\ UNCHANGED bounds
       \/ off' = off /\ sentinel' = [sentinel EXCEPT ![n] = "bad"] /\ Trouble
    /\ UNCHANGED <<marker, orphans, powered, app, held, work>>

SentinelUnmarks(n) ==
    /\ sentinel[n] = "unmarks"
    /\ marker' = FALSE
    /\ sentinel' = [sentinel EXCEPT ![n] = "ok"]
    /\ UNCHANGED <<mac, app, held, work, bounds>>

SentinelDies(n) ==
    /\ sentinel[n] \in {"reads", "resets", "unmarks"}
    /\ sentinel' = [sentinel EXCEPT ![n] = "none"]
    /\ Trouble
    /\ UNCHANGED <<mac, marker, app, held, work>>

\* The boot guard resets what a marker tells of.
Reboot ==
    /\ app' = 0 /\ held' = NothingHeld /\ work' = WorkerIdle
    /\ sentinel' = [n \in Sentinels |-> "none"]
    /\ orphans' = {}
    /\ off' = IF marker THEN "no" ELSE off
    /\ marker' = FALSE
    /\ powered' = powered
    /\ Trouble

\* Another program, or the user's own pmset.
OtherSets ==
    /\ off' = IF off = "no" THEN "other" ELSE "no"
    /\ Trouble
    /\ UNCHANGED <<marker, sentinel, orphans, powered, app, held, work>>

-----------------------------------------------------------------------------
Worker ==
    \/ Recover \/ Unmark \/ Pass \/ Look \/ Hold \/ Keep \/ ArmMark \/ ArmSpawn
    \/ TurnOff \/ Refused \/ LidDropped \/ Waited \/ Reset \/ AppExits

SentinelStep(n) == SentinelResets(n) \/ SentinelUnmarks(n)

User == AppLaunch \/ Start \/ Stop \/ Pause \/ Resume \/ PowerChanges \/ AppQuits

AwakeNext ==
    \/ Worker \/ User \/ TimeUp \/ ChildExits \/ AppKilled \/ Reboot \/ OtherSets
    \/ \E n \in Sentinels : SentinelStep(n) \/ SentinelDies(n)
    \/ \E pmset \in orphans : OrphanEnds(pmset)

\* The worker is woken by every tick of the daemon's watch (daemon.rs:114).
AwakeFairness ==
    /\ WF_awakeVars(Worker)
    /\ \A n \in Sentinels : WF_awakeVars(SentinelStep(n))
    /\ \A pmset \in {"on", "off"} : WF_awakeVars(OrphanEnds(pmset))

AwakeSpec == AwakeInit /\ [][AwakeNext]_awakeVars /\ AwakeFairness

-----------------------------------------------------------------------------
WorkSteps == {"idle", "recover", "unmark", "wait", "reset", "dropped", "look", "hold", "keep",
          "mark", "spawn", "set", "refused", "quit"}

HeldType == [child : {"none", "runs", "exited"},
             session : {"none", "running", "paused", "over"},
             lid : [is : {"none", "new", "held", "refused", "cleared"}, owned : BOOLEAN]]
WorkType == [step : WorkSteps, then : {"idle", "dropped", "quit"}]

AwakeTypeOK ==
    /\ off \in {"no", "tiles", "other"}
    /\ marker \in BOOLEAN /\ powered \in BOOLEAN
    /\ sentinel \in [Sentinels -> {"none", "reads", "resets", "unmarks", "ok", "bad"}]
    /\ orphans \subseteq {"on", "off"}
    /\ app \in 0..Launches
    /\ held \in HeldType /\ work \in WorkType
    /\ asks \in 0..MaxAsks /\ launched \in 0..Launches /\ left \in 0..Faults
    /\ amiss \subseteq {"overlap", "cut"}

\* Sleep that Tiles turned off is marked at all times, for the next launch and the
\* boot guard to find it (lid.rs:217): of histories in which no app was launched
\* while the last one's leftovers ran and none was killed while its own pmset
\* turned sleep off.  Of those others it is false: README.md tells how.
NeverStranded == off = "tiles" /\ amiss = {} => marker

\* While nothing fails, a lid the panel says is held is held: the reset of one
\* hold does not come after the next (lid.rs:289).
HeldHolds ==
    left = Faults /\ Step("idle") /\ held.lid.is = "held" => off # "no"

\* Why sleep is not stranded: it is turned off only behind a marker, and whoever
\* takes a marker away has turned sleep on and been waited for.
MarkedFirst ==
    /\ app = 0 => held = NothingHeld /\ work = WorkerIdle
    /\ \A n \in Sentinels : sentinel[n] = "reads" => n = app
    /\ "on" \in orphans => "cut" \in amiss
    /\ amiss = {} =>
          /\ work.step \in {"spawn", "set"} => marker
          /\ work.step = "unmark" => off # "tiles"
          /\ work.step \in {"mark", "spawn", "set", "refused"} /\ held.lid.is = "new"
                => off # "tiles"
          /\ \A n \in Sentinels :
               /\ sentinel[n] = "unmarks" => off # "tiles"
               /\ app # 0 /\ sentinel[n] \in {"resets", "unmarks"} => n = app /\ work.step = "wait"

\* Why a hold that is shown is held: the hold lets go of what it owns before it is
\* dropped, and waits for it.
LetsGoFirst ==
    /\ held.lid.owned => held.lid.is = "held"
    /\ work.step \in {"recover", "unmark", "wait", "reset", "dropped", "quit"} => ~held.lid.owned
    /\ work.step = "recover" => held.lid.is # "held"
    /\ work.step \in {"mark", "spawn"} => held.lid.is = "new" \/ held.lid.owned
    /\ work.step \in {"unmark", "wait", "reset"} /\ work.then = "idle" => held.lid.is # "held"
    /\ left = Faults =>
          /\ orphans = {} /\ amiss = {}
          /\ app = 0 => \A n \in Sentinels : sentinel[n] \notin {"reads", "resets", "unmarks"}
          /\ \A n \in Sentinels : sentinel[n] = "reads" => held.lid.owned \/ work.step = "set"
          /\ work.step \notin {"unmark", "wait", "reset", "dropped", "quit"}
             /\ held.lid.is = "held" => off # "no"

\* Sleep is turned off behind a marker, and a hold that is shown is held.
AwakeInv == AwakeTypeOK /\ NeverStranded /\ HeldHolds /\ MarkedFirst /\ LetsGoFirst

\* After one fault at most, in the end sleep is off only for a session that runs
\* (lid.rs:2): whether the app, a sentinel or a pmset failed, but for one thing, a
\* kill of the app while its pmset turns sleep off ("cut"), which may leave it off.
SleepComesBack ==
    <>[](off = "tiles" /\ left >= Faults - 1 /\ "cut" \notin amiss =>
           app # 0 /\ held.session = "running" /\ held.lid.owned)

\* In the end caffeinate runs for a running session with power enough and for no
\* other, and the lid's hold goes with it (awake.rs:296).
FollowsSession ==
    <>[](app # 0 => /\ (held.child = "runs") <=> (held.session = "running")
                    /\ (held.lid # NoHold) <=> (held.child = "runs")
                    /\ held.session # "none" => powered)
=============================================================================
