----------------------------- MODULE DaemonLife -----------------------------
(***************************************************************************)
(* How the daemon comes up, is replaced and goes down: the commands that   *)
(* start and stop it, its two ports, the one teardown every stop goes      *)
(* through, and the menu bar app it supervises (daemon/mod.rs,             *)
(* daemon/web.rs, core/ui.rs, and lifeline.rs, quit.rs, daemon.rs and      *)
(* main.rs of the app).                                                    *)
(*                                                                         *)
(* Commands, daemons and apps are processes of their own.  Daemon 1 may be *)
(* one of an older version that already runs; every command is of the new  *)
(* version.  App 0 is one the user launched by hand, app d the child of    *)
(* daemon d.                                                               *)
(***************************************************************************)
EXTENDS FaultBudget, Naturals

CONSTANTS MaxCommands,  \* how many commands are run, numbered as they come
          MaxDaemons,   \* how many daemons may be started
          UpTries       \* how often a start pings its daemon (5 in the code)

ASSUME MaxCommandsAssumption == MaxCommands \in Nat
ASSUME MaxDaemonsAssumption == MaxDaemons \in Nat \ {0}
ASSUME UpTriesAssumption == UpTries \in Nat \ {0}

VARIABLES commands,     \* the state of each command
          daemons,      \* the daemon processes
          apps          \* the app processes

lifeVars == <<commands, daemons, apps, left>>

Clis == 1..MaxCommands
Daemons == 1..MaxDaemons
Hand == 0

\* web: it listens on the web UI's port too.  work, ui: how many shutdown_all
\* run and have not come to the app, and wait for it.  The rest is core/ui.rs:
\* stopping, the two Notify permits and where the supervisor's task is ("off":
\* running is false).
NoDaemon == [phase |-> "none", old |-> FALSE, web |-> FALSE, work |-> 0, ui |-> 0,
             stopping |-> FALSE, stop |-> FALSE, done |-> FALSE, sup |-> "off"]

OldDaemon == [NoDaemon EXCEPT !.phase = "serving", !.old = TRUE, !.web = TRUE,
                              !.sup = "top"]

Gone == [NoDaemon EXCEPT !.phase = "gone"]

NoCommand == [op |-> "none", step |-> "none", tries |-> 0, asked |-> 0]

LifeInit ==
    /\ commands = [c \in Clis |-> NoCommand]
    /\ \E first \in {NoDaemon, OldDaemon} :
         daemons = [d \in Daemons |-> IF d = 1 THEN first ELSE NoDaemon]
    /\ apps = [a \in {Hand} \cup Daemons |-> "none"]
    /\ left = Faults

-----------------------------------------------------------------------------
(* What the processes see of each other.                                   *)

Answers(d) == daemons[d].phase = "serving"
Answering == \E d \in Daemons : Answers(d)

WebPortTaken == \E d \in Daemons : daemons[d].web

Alive(a) == apps[a] # "none"

\* The single-instance plugin: the copy that registered first.
Primary(a) == apps[a] \in {"shown", "quitting"}

-----------------------------------------------------------------------------
(* The teardown.  begin_stop comes before all else; the stages up to the   *)
(* app's stop (pause_all, engines.pause, stop_server_daemon) each have a   *)
(* timeout, and nothing here depends on where among them a teardown is.    *)

BeginStopUnmarked(x) == [x EXCEPT !.stop = @ \/ x.sup # "off"]

\* ui::begin_stop: only the first wakes the supervisor.
BeginStop(x) ==
    [x EXCEPT !.stopping = TRUE,
              !.stop = @ \/ (~x.stopping /\ x.sup # "off")]

ShutdownAll(x) == [BeginStop(x) EXCEPT !.work = @ + 1]

\* shutdown_sender.send: both ports stop listening, in the one select.  What
\* another shutdown_all still does makes no difference.
Sent(x) == [x EXCEPT !.work = 0, !.ui = 0, !.phase = "closing", !.web = FALSE]

WorkedUnwaited(d) ==
    /\ daemons[d].work > 0
    /\ daemons' = [daemons EXCEPT ![d] = Sent(BeginStop(@))]
    /\ UNCHANGED <<commands, apps, left>>

\* ui::stop does not wait when there is no supervisor.
Worked(d) ==
    LET x == BeginStop(daemons[d]) IN
    /\ daemons[d].work > 0
    /\ daemons' = [daemons EXCEPT ![d] =
         IF x.sup = "off" THEN Sent(x)
                          ELSE [x EXCEPT !.work = @ - 1, !.ui = @ + 1]]
    /\ UNCHANGED <<commands, apps, left>>

\* The permit of the supervisor's end, and STOP_DEADLINE for who finds it
\* taken: it is longer than GRACE, and so does not fire before that end.
UiStopped(d) ==
    /\ daemons[d].ui > 0
    /\ daemons[d].done \/ daemons[d].sup = "off"
    /\ daemons' = [daemons EXCEPT ![d] = [Sent(@) EXCEPT !.done = FALSE]]
    /\ UNCHANGED <<commands, apps, left>>

\* The connections are done, or SHUTDOWN_GRACE is over.  What the runtime
\* still holds is dropped, a child with kill_on_drop included.
Exit(d) ==
    /\ daemons[d].phase = "closing"
    /\ daemons' = [daemons EXCEPT ![d] = Gone]
    /\ apps' = [apps EXCEPT ![d] = "none"]
    /\ UNCHANGED <<commands, left>>

-----------------------------------------------------------------------------
(* A daemon's start: the web UI's port first, then the API's.              *)

BindUi(d) ==
    /\ daemons[d].phase = "born"
    /\ daemons' = [daemons EXCEPT ![d].phase = "bound", ![d].web = ~WebPortTaken]
    /\ UNCHANGED <<commands, apps, left>>

\* `?` on the API's port ends the process; otherwise ui::start, the signal
\* task and serve_ports follow without a wait.
BindApi(d) ==
    /\ daemons[d].phase = "bound"
    /\ daemons' = [daemons EXCEPT ![d] =
         IF Answering THEN Gone
                      ELSE [@ EXCEPT !.phase = "serving", !.sup = "top"]]
    /\ UNCHANGED <<commands, apps, left>>

\* A kill, or an error: nothing of the daemon's own teardown runs.
Crash(d) ==
    /\ Fault
    /\ daemons[d].phase \in {"born", "bound", "serving", "closing"}
    /\ daemons' = [daemons EXCEPT ![d] = Gone]
    /\ UNCHANGED <<commands, apps>>

\* SIGTERM or SIGINT, which are listened for until the first of them.
Signal(d) ==
    /\ Fault
    /\ Answers(d)
    /\ daemons' = [daemons EXCEPT ![d] = ShutdownAll(@)]
    /\ UNCHANGED <<commands, apps>>

-----------------------------------------------------------------------------
(* The supervisor of the menu bar app.                                     *)

\* The end of its task: nobody waits for ui.stop any more.
End(x) == [x EXCEPT !.sup = "off", !.done = TRUE, !.stop = FALSE]

Check(d) ==
    /\ daemons[d].sup = "top"
    /\ daemons' = [daemons EXCEPT ![d] =
         IF @.stopping THEN End(@) ELSE [@ EXCEPT !.sup = "spawn"]]
    /\ UNCHANGED <<commands, apps, left>>

Launch(d) ==
    /\ daemons[d].sup = "spawn"
    /\ daemons' = [daemons EXCEPT ![d].sup = "wait"]
    /\ apps' = [apps EXCEPT ![d] = "starting"]
    /\ UNCHANGED <<commands, left>>

\* A failed spawn is not tried again.
LaunchFails(d) ==
    /\ Fault
    /\ daemons[d].sup = "spawn"
    /\ daemons' = [daemons EXCEPT ![d] = End(@)]
    /\ UNCHANGED <<commands, apps>>

\* child.wait returns, in the select or in the grace.
Reap(d) ==
    /\ daemons[d].sup \in {"wait", "grace"}
    /\ ~Alive(d)
    /\ daemons' = [daemons EXCEPT ![d] =
         IF @.stopping THEN End(@) ELSE [@ EXCEPT !.sup = "backoff"]]
    /\ UNCHANGED <<commands, apps, left>>

\* ui.stop.notified: the lifeline is dropped, or the backoff cut short.
Notified(d) ==
    /\ daemons[d].sup \in {"wait", "backoff"}
    /\ daemons[d].stop
    /\ daemons' = [daemons EXCEPT ![d] =
         LET x == [@ EXCEPT !.stop = FALSE] IN
         IF x.sup = "wait" THEN [x EXCEPT !.sup = "grace"] ELSE End(x)]
    /\ UNCHANGED <<commands, apps, left>>

\* GRACE is over.
Kill(d) ==
    /\ daemons[d].sup = "grace"
    /\ Alive(d)
    /\ apps' = [apps EXCEPT ![d] = "none"]
    /\ UNCHANGED <<commands, daemons, left>>

Slept(d) ==
    /\ daemons[d].sup = "backoff"
    /\ daemons' = [daemons EXCEPT ![d].sup = "top"]
    /\ UNCHANGED <<commands, apps, left>>

Supervise(d) == Check(d) \/ Launch(d) \/ Reap(d) \/ Notified(d) \/ Kill(d) \/ Slept(d)

-----------------------------------------------------------------------------
(* The app.                                                                *)

\* Registers, or finds another copy and exits; a copy the user launched
\* yields to the daemon's.
Register(d) ==
    /\ apps[d] = "starting"
    /\ apps' = IF \E a \in DOMAIN apps : Primary(a)
                 THEN [apps EXCEPT ![d] = "none", ![Hand] = "none"]
                 ELSE [apps EXCEPT ![d] = "shown"]
    /\ UNCHANGED <<commands, daemons, left>>

\* A second copy that no daemon started exits at once and changes nothing.
HandLaunch ==
    /\ Fault
    /\ \A a \in DOMAIN apps : ~Primary(a)
    /\ apps' = [apps EXCEPT ![Hand] = "shown"]
    /\ UNCHANGED <<commands, daemons>>

\* lifeline: the read of stdin returns once the daemon's end is closed.
Lifeline(d) ==
    /\ Alive(d)
    /\ daemons[d].phase = "gone" \/ daemons[d].sup = "grace"
    /\ apps' = [apps EXCEPT ![d] = "none"]
    /\ UNCHANGED <<commands, daemons, left>>

AppDies(a) ==
    /\ Fault
    /\ Alive(a)
    /\ apps' = [apps EXCEPT ![a] = "none"]
    /\ UNCHANGED <<commands, daemons>>

\* quit: a POST to whichever daemon answers, then the fallback.
Quit(a) ==
    /\ Fault
    /\ apps[a] = "shown"
    /\ apps' = [apps EXCEPT ![a] = "quitting"]
    /\ daemons' = [d \in Daemons |->
         IF Answers(d) THEN ShutdownAll(daemons[d]) ELSE daemons[d]]
    /\ UNCHANGED commands

QuitFallback(a) ==
    /\ apps[a] = "quitting"
    /\ apps' = [apps EXCEPT ![a] = "none"]
    /\ UNCHANGED <<commands, daemons, left>>

-----------------------------------------------------------------------------
(* `tiles daemon start`, which every command that needs the daemon runs    *)
(* first, and `tiles daemon stop`.                                         *)

\* A command that returns keeps no more than what it returned.
CommandTo(c, step) ==
    commands' = [commands EXCEPT ![c] =
      IF step \in {"ok", "failed"}
        THEN [NoCommand EXCEPT !.op = commands[c].op, !.step = step]
        ELSE [@ EXCEPT !.step = step]]

Call(c, op) ==
    /\ commands[c].step = "none"
    /\ \A b \in 1..(c - 1) : commands[b].step # "none"
    /\ commands' = [commands EXCEPT ![c].op = op,
                              ![c].step = IF op = "start" THEN "ping" ELSE "post"]
    /\ UNCHANGED <<daemons, apps, left>>

\* start_daemon: a daemon of another version is stopped first.
Ping(c) ==
    /\ commands[c].step = "ping"
    /\ IF Answering
         THEN \E d \in Daemons :
                Answers(d) /\ CommandTo(c, IF daemons[d].old THEN "post" ELSE "ok")
         ELSE CommandTo(c, "spawn")
    /\ UNCHANGED <<daemons, apps, left>>

\* The shutdown handler answers at once, its teardown is a task of its own.
Post(c) ==
    /\ commands[c].step = "post"
    /\ IF Answering
         THEN \E d \in Daemons :
                /\ Answers(d)
                /\ daemons' = [daemons EXCEPT ![d] = ShutdownAll(@)]
                /\ commands' = [commands EXCEPT ![c].step = "poll", ![c].asked = d]
         ELSE CommandTo(c, "failed") /\ UNCHANGED daemons
    /\ UNCHANGED <<apps, left>>

StoppedOnPost(c) ==
    /\ commands[c].step = "poll"
    /\ CommandTo(c, IF commands[c].op = "start" THEN "spawn" ELSE "ok")
    /\ UNCHANGED <<daemons, apps, left>>

\* stop_server_and_wait: until a GET fails, whoever answered it before.
Stopped(c) ==
    /\ commands[c].step = "poll"
    /\ ~Answering
    /\ CommandTo(c, IF commands[c].op = "start" THEN "spawn" ELSE "ok")
    /\ UNCHANGED <<daemons, apps, left>>

\* DAEMON_STOP_TIMEOUT, 20 s, where the teardown may take 25.
StopTimeout(c) ==
    /\ commands[c].step = "poll"
    /\ Answering
    /\ CommandTo(c, "failed")
    /\ UNCHANGED <<daemons, apps, left>>

Spawn(c) ==
    /\ commands[c].step = "spawn"
    /\ \E d \in Daemons :
         /\ daemons[d].phase = "none"
         /\ \A e \in 1..(d - 1) : daemons[e].phase # "none"
         /\ daemons' = [daemons EXCEPT ![d].phase = "born"]
    /\ commands' = [commands EXCEPT ![c].step = "wait", ![c].tries = UpTries]
    /\ UNCHANGED <<apps, left>>

WaitForever(c) ==
    /\ commands[c].step = "wait"
    /\ Answering
    /\ CommandTo(c, "ok")
    /\ UNCHANGED <<daemons, apps, left>>

\* wait_until_server_is_up: any daemon's answer will do.
WaitUp(c) ==
    /\ commands[c].step = "wait"
    /\ IF commands[c].tries = 0 THEN CommandTo(c, "failed")
       ELSE IF Answering THEN CommandTo(c, "ok")
       ELSE commands' = [commands EXCEPT ![c].tries = @ - 1]
    /\ UNCHANGED <<daemons, apps, left>>

Command(c) == Ping(c) \/ Post(c) \/ Stopped(c) \/ StopTimeout(c) \/ Spawn(c) \/ WaitUp(c)

-----------------------------------------------------------------------------
\* The daemon's own tasks but the supervisor, and an app's.
DaemonRuns(d) == BindUi(d) \/ BindApi(d) \/ Worked(d) \/ UiStopped(d) \/ Exit(d)
App(d) == Register(d) \/ Lifeline(d) \/ QuitFallback(d)

Asked(d) == daemons[d].work + daemons[d].ui > 0 \/ daemons[d].phase = "closing"

LifeNext ==
    \/ \E c \in Clis : Command(c) \/ \E op \in {"start", "stop"} : Call(c, op)
    \/ \E d \in Daemons :
         \/ DaemonRuns(d) \/ Supervise(d) \/ App(d)
         \/ LaunchFails(d) \/ Crash(d) \/ Signal(d)
    \/ \E a \in DOMAIN apps : AppDies(a) \/ Quit(a)
    \/ HandLaunch \/ QuitFallback(Hand)

\* Every process that can take a step of its own takes it; faults, and what
\* the user does, need not happen.
LifeFairness ==
    /\ \A c \in Clis : WF_lifeVars(Command(c))
    /\ \A d \in Daemons :
         WF_lifeVars(DaemonRuns(d)) /\ WF_lifeVars(Supervise(d)) /\ WF_lifeVars(App(d))
    /\ WF_lifeVars(QuitFallback(Hand))

LifeSpec == LifeInit /\ [][LifeNext]_lifeVars /\ LifeFairness

-----------------------------------------------------------------------------
CommandSteps == {"none", "ping", "post", "poll", "spawn", "wait", "ok", "failed"}

\* Types.
LifeTypeOK ==
    /\ commands \in [Clis -> [op : {"none", "start", "stop"}, step : CommandSteps,
                           tries : 0..UpTries, asked : 0..MaxDaemons]]
    /\ daemons \in [Daemons ->
         [phase : {"none", "born", "bound", "serving", "closing", "gone"},
          old : BOOLEAN, web : BOOLEAN, work : Nat, ui : Nat,
          stopping : BOOLEAN, stop : BOOLEAN, done : BOOLEAN,
          sup : {"off", "top", "spawn", "wait", "grace", "backoff"}]]
    /\ apps \in [{Hand} \cup Daemons -> {"none", "starting", "shown", "quitting"}]
    /\ left \in 0..Faults

\* One daemon answers, one copy of the app shows, and of several teardowns of
\* one daemon none closes its ports while its app still runs (ui.rs, stop: the
\* next daemon's app must not find the singleton held).
ClosedInOrder ==
    /\ \A d, e \in Daemons : Answers(d) /\ Answers(e) => d = e
    /\ \A a, b \in DOMAIN apps : Primary(a) /\ Primary(b) => a = b
    /\ \A d \in Daemons : daemons[d].phase = "closing" => ~Alive(d)

\* Why that is so: only a daemon that serves is asked to stop or has a supervisor,
\* whose end is told once it has ended, and a supervisor that does not wait for
\* its app has none.
Supervised ==
    \A d \in Daemons :
        /\ daemons[d].sup # "off" => daemons[d].phase = "serving" /\ ~daemons[d].done
        /\ daemons[d].phase \in {"none", "born", "bound"} => ~daemons[d].done
        /\ daemons[d].work + daemons[d].ui > 0 =>
              daemons[d].phase = "serving" /\ daemons[d].stopping
        /\ Alive(d) => daemons[d].sup \in {"wait", "grace"} \/ daemons[d].phase = "gone"

\* What a command knows: who it asked to stop has answered, and once nobody has
\* answered a start, the old daemon never will again.
CommandsRight ==
    /\ \A d \in Daemons : daemons[d].old => daemons[d].phase \in {"serving", "closing"}
    /\ \A c \in Clis :
         /\ commands[c].step \in {"ping", "spawn", "wait"} => commands[c].op = "start"
         /\ commands[c].step \in {"spawn", "wait"} =>
              \A d \in Daemons : daemons[d].old => ~Answers(d)
         /\ commands[c].step = "poll" =>
              /\ commands[c].asked \in Daemons
              /\ daemons[commands[c].asked].phase \in {"serving", "closing", "gone"}

\* The processes in their order, and what each command may rely on.
LifeInv == LifeTypeOK /\ ClosedInOrder /\ Supervised /\ CommandsRight

\* What Ok tells the user: after a start a daemon of this command's version
\* answers (daemon/mod.rs:390), after a stop none does and the daemon that was
\* asked is past its teardown.
OkMeansSo ==
    [][\A c \in Clis :
         commands[c].step # "ok" /\ commands'[c].step = "ok" =>
           IF commands[c].op = "start"
             THEN \E d \in Daemons : Answers(d) /\ ~daemons[d].old
             ELSE daemons[commands[c].asked].phase \in {"closing", "gone"}]_lifeVars

\* Once a stop is under way the supervisor does not decide to launch the app
\* again, though the teardown before its turn takes up to 20 s and a quitting
\* app exits by itself after 5 (ui.rs:197).
NoRelaunch ==
    [][\A d \in Daemons :
         Asked(d) => daemons[d].sup = "spawn" \/ daemons'[d].sup # "spawn"]_lifeVars

\* Every command returns, and every daemon that was asked to stop exits,
\* however many asked and whatever the app does: only so many are run, and in
\* the end none of them is under way.  And a daemon that serves and supervises
\* then has its app shown: past a copy the user launched, and past the app of a
\* daemon that was killed.
EverythingSettles ==
    <>[](/\ \A c \in Clis : commands[c].step \in {"none", "ok", "failed"}
         /\ \A d \in Daemons : ~Asked(d)
         /\ \A d \in Daemons : Answers(d) /\ daemons[d].sup # "off" => Primary(d))
=============================================================================
