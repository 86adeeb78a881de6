--------------------------- MODULE InferenceServer ---------------------------
(***************************************************************************)
(* The inference server (core/server.rs, server/): daemons start and stop  *)
(* a Python server under a file lock; the server writes its pid file once  *)
(* it has the port, and runs a llama-server for the model that the last    *)
(* request wanted.  A pid is used once by a server, and may later be that  *)
(* of another program.  Time does not show: every timeout may pass at any  *)
(* time.                                                                   *)
(***************************************************************************)
EXTENDS Naturals, FiniteSets

CONSTANTS
    Pid,        \* bound: the pids that servers get, a range of numbers
    Caller,     \* start and stop requests being served
    Daemon,     \* Daemon[c]: the daemon that serves c
    Request,    \* model requests being served
    Model,      \* a model with its options and its engine
    Faults,     \* of {"crash", "slow", "daemon"}
    None

ASSUME InferenceAssumption ==
    /\ Pid \subseteq Nat \ {0} /\ None \notin Pid \union Caller \union Request \union Model
    /\ Faults \subseteq {"crash", "slow", "daemon"}
    /\ DOMAIN Daemon = Caller

VARIABLES
    proc,     \* proc[p]: what the process p is
    file,     \* the pid in the pid file, or None
    foreign,  \* another program has the port: it answers pings, or it is deaf; or None
    flock,    \* the caller that holds the lock of starts and stops, or None
    call,     \* call[c]: the start or stop
    llama,    \* llama[p]: the llama-server that server p runs
    loaded,   \* loaded[p]: the model p started it for, or None
    ensure,   \* ensure[p]: the request that holds the _ensure_lock of server p, or None
    req       \* req[r]: the model request

calls == <<flock, call>>
servers == <<proc, file>>
models == <<llama, loaded, ensure, req>>
vars == <<proc, file, foreign, flock, call, llama, loaded, ensure, req>>

-------------------------------------------------------------------------------
(* Values *)

Up == {"starting", "bound", "serving", "closing", "leaving", "unlinking"}
Process == Up \union {"unused", "zombie", "gone", "other"}
NoCall == [op |-> "start", at |-> "off", pid |-> None]
NoRequest == [at |-> "off", model |-> None, of |-> None]
NoLlama == [is |-> "none", model |-> None]
Goes == {"starting", "loading", "ready"}     \* a llama-server that runs

TypeOK ==
    /\ proc \in [Pid -> Process]
    /\ file \in Pid \union {None}
    /\ flock \in Caller \union {None} 
    /\ ensure \in [Pid -> Request \union {None}]
    /\ call \in [Caller -> [op : {"start", "stop"}, pid : Pid \union {None},
                            at : {"off", "flock", "look", "file", "leftover", "unlink", "spawn", "ready",
                                  "ping", "term", "exit", "clean", "cleaned"}]]
    /\ llama \in [Pid -> [is : Goes \union {"none"}, model : Model \union {None}]]
    /\ loaded \in [Pid -> Model \union {None}]
    /\ req \in [Request -> [at : {"off", "ensure", "locked", "spawn", "wait", "stream"},
                            model : Model \union {None}, of : Pid \union {None}]]

HasPort(p) == proc[p] \in {"bound", "serving"}
PortFree == foreign = None /\ \A p \in Pid : ~HasPort(p)
Serves == \E p \in Pid : proc[p] = "serving"
\* What ping may find: an answer, or none.
Pings == {a \in BOOLEAN : IF foreign # None THEN a = (foreign = "answers")
                          ELSE a = Serves \/ (~a /\ "slow" \in Faults)}

\* is_alive: a zombie may be collected first, which is the action Reap.
Alive(p) == proc[p] \notin {"unused", "gone"}

-------------------------------------------------------------------------------
(* Starts and stops *)

Goto(c, point) == call' = [call EXCEPT ![c].at = point] /\ UNCHANGED flock
Holding(c, pid, point) == call' = [call EXCEPT ![c].at = point, ![c].pid = pid] /\ UNCHANGED flock
Return(c) == call' = [call EXCEPT ![c] = NoCall] /\ flock' = None

Ask(c, op) ==
    /\ call[c].at = "off"
    /\ call' = [call EXCEPT ![c] = [op |-> op, at |-> "flock", pid |-> None]]
    /\ UNCHANGED <<flock, foreign>> /\ UNCHANGED servers /\ UNCHANGED models

Flock(c) ==
    /\ call[c].at = "flock" /\ flock = None
    /\ flock' = c
    /\ call' = [call EXCEPT ![c].at = IF call[c].op = "start" THEN "look" ELSE "file"]
    /\ UNCHANGED foreign /\ UNCHANGED servers /\ UNCHANGED models

\* start: what answers may be our server or not; with no answer one is spawned.
Look(c, answer) ==
    /\ call[c].at = "look"
    /\ Goto(c, IF answer THEN "file" ELSE "spawn")
    /\ UNCHANGED foreign /\ UNCHANGED servers /\ UNCHANGED models

\* What follows when the pid file told no running server.
NotTold(c) == IF call[c].op = "start" THEN Return(c) ELSE Goto(c, "ping")

\* The pid is believed without a look at its program (a mutant of ReadFile).
BelieveFile(c) ==
    /\ call[c].at = "file"
    /\ IF file = None THEN NotTold(c)
       ELSE IF Alive(file)
       THEN IF call[c].op = "start" THEN Return(c) ELSE Holding(c, file, "term")
       ELSE Holding(c, file, "leftover")
    /\ UNCHANGED foreign /\ UNCHANGED servers /\ UNCHANGED models

\* running_server_pid: the process of the pid file, if it runs and is our server.
ReadFile(c) ==
    /\ call[c].at = "file"
    /\ IF file = None THEN NotTold(c)
       ELSE IF Alive(file) /\ proc[file] \in Up
       THEN IF call[c].op = "start" THEN Return(c) ELSE Holding(c, file, "term")
       ELSE Holding(c, file, "leftover")
    /\ UNCHANGED foreign /\ UNCHANGED servers /\ UNCHANGED models

\* remove_pid_file: the file is read, and then deleted if it held the pid.
RemoveRead(c) ==
    /\ call[c].at \in {"leftover", "clean"}
    /\ IF file = call[c].pid
       THEN Goto(c, IF call[c].at = "clean" THEN "cleaned" ELSE "unlink")
       ELSE IF call[c].at = "clean" THEN Return(c) ELSE NotTold(c)
    /\ UNCHANGED foreign /\ UNCHANGED servers /\ UNCHANGED models

RemoveUnlink(c) ==
    /\ call[c].at \in {"unlink", "cleaned"}
    /\ file' = None
    /\ IF call[c].at = "cleaned" THEN Return(c) ELSE NotTold(c)
    /\ UNCHANGED <<proc, foreign>> /\ UNCHANGED models

\* Spawned in a process group of its own.
Spawn(c) ==
    /\ call[c].at = "spawn"
    /\ \E p \in Pid :
          /\ proc[p] = "unused" /\ \A q \in Pid : proc[q] = "unused" => p <= q
          /\ proc' = [proc EXCEPT ![p] = "starting"]
          /\ Holding(c, p, "ready")
    /\ UNCHANGED <<file, foreign>> /\ UNCHANGED models

\* wait_until_ready: an answer, the end of the child, or the timeout end it.
WaitReady(c) ==
    /\ call[c].at = "ready"
    /\ Return(c)
    /\ UNCHANGED foreign /\ UNCHANGED servers /\ UNCHANGED models

\* stop: without a pid, an answer tells that the port is taken.
StopPing(c) ==
    /\ call[c].at = "ping"
    /\ Return(c)
    /\ UNCHANGED foreign /\ UNCHANGED servers /\ UNCHANGED models

Terminate(c) ==
    LET p == call[c].pid IN
    /\ call[c].at = "term"
    /\ proc' = IF proc[p] \in {"bound", "serving"} THEN [proc EXCEPT ![p] = "closing"] ELSE proc
    /\ Goto(c, "exit")
    /\ UNCHANGED <<file, foreign>> /\ UNCHANGED models

Exited(c) ==
    /\ call[c].at = "exit" /\ ~Alive(call[c].pid)
    /\ Goto(c, "clean")
    /\ UNCHANGED foreign /\ UNCHANGED servers /\ UNCHANGED models

\* What a killed server leaves of its requests.
Drop(p) ==
    /\ req' = [r \in Request |-> IF req[r].of = p THEN NoRequest ELSE req[r]]
    /\ ensure' = [ensure EXCEPT ![p] = None]

\* Only the server itself is killed (a mutant of ForceKill).
KillOnly(c) ==
    LET p == call[c].pid IN
    /\ call[c].at = "exit" /\ Alive(p)
    /\ proc' = [proc EXCEPT ![p] = "zombie"]
    /\ Drop(p)
    /\ Goto(c, "clean")
    /\ UNCHANGED <<file, foreign, llama, loaded>>

\* It did not exit in time: its process group is killed, llama-server with it.
ForceKill(c) ==
    LET p == call[c].pid IN
    /\ call[c].at = "exit" /\ Alive(p)
    /\ proc' = [proc EXCEPT ![p] = "zombie"]
    /\ llama' = [llama EXCEPT ![p] = NoLlama] /\ loaded' = [loaded EXCEPT ![p] = None]
    /\ Drop(p)
    /\ Goto(c, "clean")
    /\ UNCHANGED <<file, foreign>>

\* A daemon dies: its lock and its requests go, its servers go on.
DaemonDies(d) ==
    /\ "daemon" \in Faults
    /\ call' = [c \in Caller |-> IF Daemon[c] = d THEN NoCall ELSE call[c]]
    /\ flock' = IF flock # None /\ Daemon[flock] = d THEN None ELSE flock
    /\ UNCHANGED foreign /\ UNCHANGED servers /\ UNCHANGED models

-------------------------------------------------------------------------------
(* The server process *)

Becomes(p, what) == proc' = [proc EXCEPT ![p] = what]
Bind(p) ==
    /\ proc[p] = "starting"
    /\ Becomes(p, IF PortFree THEN "bound" ELSE "zombie")
    /\ UNCHANGED <<file, foreign>> /\ UNCHANGED calls /\ UNCHANGED models

WriteFile(p) ==
    /\ proc[p] = "bound"
    /\ Becomes(p, "serving") /\ file' = p
    /\ UNCHANGED foreign /\ UNCHANGED calls /\ UNCHANGED models

\* It stops listening, lets its requests end, and stops llama-server.
StopBackend(p) ==
    /\ proc[p] = "closing" /\ \A r \in Request : req[r].of # p
    /\ Becomes(p, "leaving")
    /\ llama' = [llama EXCEPT ![p] = NoLlama] /\ loaded' = [loaded EXCEPT ![p] = None]
    /\ UNCHANGED <<file, foreign, ensure, req>> /\ UNCHANGED calls

\* Deletes the pid file, unless another server has written its own since.
Leave(p) ==
    /\ proc[p] = "leaving"
    /\ Becomes(p, IF file = p THEN "unlinking" ELSE "zombie")
    /\ UNCHANGED <<file, foreign>> /\ UNCHANGED calls /\ UNCHANGED models

Unlink(p) ==
    /\ proc[p] = "unlinking"
    /\ Becomes(p, "zombie") /\ file' = None
    /\ UNCHANGED foreign /\ UNCHANGED calls /\ UNCHANGED models

Crash(p) ==
    /\ "crash" \in Faults /\ proc[p] \in Up
    /\ Becomes(p, "zombie")
    /\ Drop(p)
    /\ UNCHANGED <<file, foreign, llama, loaded>> /\ UNCHANGED calls

Reap(p) ==
    /\ proc[p] = "zombie"
    /\ Becomes(p, "gone")
    /\ UNCHANGED <<file, foreign>> /\ UNCHANGED calls /\ UNCHANGED models

\* The pid becomes that of another program, though not while a stop waits for it.
Reuse(p) ==
    /\ proc[p] = "gone" /\ file = p
    /\ \A c \in Caller : call[c].pid # p
    /\ Becomes(p, "other")
    /\ UNCHANGED <<file, foreign>> /\ UNCHANGED calls /\ UNCHANGED models

-------------------------------------------------------------------------------
(* Model requests *)

At(r, point) == req' = [req EXCEPT ![r].at = point]
LetGo(r) == ensure' = [p \in Pid |-> IF ensure[p] = r THEN None ELSE ensure[p]]
Answered(r) == req' = [req EXCEPT ![r] = NoRequest] /\ LetGo(r)
SameServers == UNCHANGED foreign /\ UNCHANGED servers /\ UNCHANGED calls

Wants(r, m) ==
    /\ req[r].at = "off"
    /\ \E p \in Pid : /\ proc[p] = "serving"
                      /\ req' = [req EXCEPT ![r] = [at |-> "ensure", model |-> m, of |-> p]]
    /\ UNCHANGED <<llama, loaded, ensure>> /\ SameServers

\* The lock is not taken (a mutant of Ensure).
EnsureUnlocked(r) ==
    /\ req[r].at = "ensure"
    /\ At(r, "locked")
    /\ UNCHANGED <<ensure, llama, loaded>> /\ SameServers

Ensure(r) ==
    /\ req[r].at = "ensure" /\ ensure[req[r].of] = None
    /\ ensure' = [ensure EXCEPT ![req[r].of] = r]
    /\ At(r, "locked")
    /\ UNCHANGED <<llama, loaded>> /\ SameServers

\* ensure_running: one that runs the model is kept, any other is stopped.
Compare(r) ==
    LET p == req[r].of IN
    /\ req[r].at = "locked"
    /\ IF llama[p].is \in Goes /\ loaded[p] = req[r].model
       THEN At(r, "wait") /\ UNCHANGED <<llama, loaded>>
       ELSE /\ llama' = [llama EXCEPT ![p] = NoLlama] /\ loaded' = [loaded EXCEPT ![p] = None]
            /\ At(r, "spawn")
    /\ UNCHANGED ensure /\ SameServers

SpawnLlama(r) ==
    LET p == req[r].of IN
    /\ req[r].at = "spawn"
    /\ llama' = [llama EXCEPT ![p] = [is |-> "starting", model |-> req[r].model]]
    /\ loaded' = [loaded EXCEPT ![p] = req[r].model]
    /\ At(r, "wait")
    /\ UNCHANGED ensure /\ SameServers

\* /health answers whatever llama-server has the port.
Health == {llama[p].model : p \in {q \in Pid : llama[q].is = "ready"}}

Ready(r) ==
    /\ req[r].at = "wait" /\ llama[req[r].of].is \in Goes /\ Health # {}
    /\ At(r, "stream") /\ LetGo(r)
    /\ UNCHANGED <<llama, loaded>> /\ SameServers

\* It exited, or did not load in time: it is left as it is.
NotReady(r) ==
    /\ req[r].at = "wait"
    /\ Answered(r)
    /\ UNCHANGED <<llama, loaded>> /\ SameServers

\* The reply comes to its end, or breaks off.
Stream(r) ==
    /\ req[r].at = "stream"
    /\ Answered(r)
    /\ UNCHANGED <<llama, loaded>> /\ SameServers

LlamaBind(p) ==
    /\ llama[p].is = "starting"
    /\ llama' = [llama EXCEPT ![p] = IF \E q \in Pid : llama[q].is \in {"loading", "ready"}
                                     THEN NoLlama ELSE [@ EXCEPT !.is = "loading"]]
    /\ UNCHANGED <<loaded, ensure, req>> /\ SameServers

LlamaLoads(p) ==
    /\ llama[p].is = "loading"
    /\ llama' = [llama EXCEPT ![p].is = "ready"]
    /\ UNCHANGED <<loaded, ensure, req>> /\ SameServers

LlamaDies(p) ==
    /\ llama[p].is \in Goes
    /\ llama' = [llama EXCEPT ![p] = NoLlama]
    /\ UNCHANGED <<loaded, ensure, req>> /\ SameServers

-------------------------------------------------------------------------------
(* The system *)

\* A server that was killed with the computer may have left its pid file.
Init ==
    /\ \E old \in {"unused", "gone", "other"}, p \in {q \in Pid : \A o \in Pid : q <= o} :
          /\ proc = [q \in Pid |-> IF q = p THEN old ELSE "unused"]
          /\ file = IF old = "unused" THEN None ELSE p
    /\ foreign \in {None, "answers", "deaf"}
    /\ flock = None /\ call = [c \in Caller |-> NoCall]
    /\ llama = [p \in Pid |-> NoLlama] /\ loaded = [p \in Pid |-> None]
    /\ ensure = [p \in Pid |-> None] /\ req = [r \in Request |-> NoRequest]

Serve(c) ==
    \/ \E answer \in Pings : Look(c, answer)
    \/ ReadFile(c) \/ RemoveRead(c) \/ RemoveUnlink(c) \/ Spawn(c) \/ WaitReady(c)
    \/ StopPing(c) \/ Terminate(c) \/ Exited(c) \/ ForceKill(c)

Server(p) == Bind(p) \/ WriteFile(p) \/ StopBackend(p) \/ Leave(p) \/ Unlink(p)
Load(r) == Compare(r) \/ SpawnLlama(r) \/ Ready(r) \/ NotReady(r) \/ Stream(r)

Next ==
    \/ \E c \in Caller : (\E op \in {"start", "stop"} : Ask(c, op)) \/ Flock(c) \/ Serve(c)
    \/ \E c \in Caller : DaemonDies(Daemon[c])
    \/ \E p \in Pid : Server(p) \/ Crash(p) \/ Reap(p) \/ Reuse(p)
    \/ \E r \in Request : (\E m \in Model : Wants(r, m)) \/ Ensure(r) \/ Load(r)
    \/ \E p \in Pid : LlamaBind(p) \/ LlamaLoads(p) \/ LlamaDies(p)

Spec == Init /\ [][Next]_vars

-------------------------------------------------------------------------------
(* Properties *)

\* One start or stop runs at a time, on any daemon: under the file lock.
OneAtATime ==
    \A c \in Caller : call[c].at \notin {"off", "flock"} => flock = c

\* A stop never signals another program, even when a leftover pid file names
\* its pid: what it stops was our server when it looked, and until it has
\* stopped its pid is nobody else's.
StopsOurs ==
    \A c \in Caller : call[c].at \in {"term", "exit", "clean", "cleaned"} =>
        call[c].pid \in Pid /\ proc[call[c].pid] \notin {"unused", "other"}

\* A model request is one of a server that runs; it has the server's lock while
\* it compares, starts and waits for the llama-server.
RequestsAreServed ==
    \A r \in Request :
        /\ req[r].at = "off" <=> req[r].of = None
        /\ req[r].of # None => proc[req[r].of] \in {"serving", "closing"}
        /\ req[r].at \in {"locked", "spawn", "wait"} => ensure[req[r].of] = r

\* What a server thinks it loaded is what its llama-server was started for, and
\* what the request that waits for it wants; it has exited before the server does.
LoadedIsRunning ==
    /\ \A p \in Pid : llama[p].is \in Goes => loaded[p] = llama[p].model
    /\ \A r \in Request : req[r].at = "wait" => loaded[req[r].of] = req[r].model
    /\ \A p \in Pid : proc[p] \in {"leaving", "unlinking"} => llama[p].is \notin Goes

\* The starts and stops, the processes and the model requests agree.
ServerInv ==
    /\ TypeOK
    /\ OneAtATime
    /\ StopsOurs
    /\ RequestsAreServed
    /\ LoadedIsRunning

\* After a stop the server is gone ("Answers once the process has exited"), and
\* so is the llama-server of one that had to be killed.
StopMeansStopped ==
    [][\A c \in Caller : (call[c].at = "exit" /\ call'[c].at = "clean")
           => /\ proc'[call[c].pid] \in {"zombie", "gone"}
              /\ proc[call[c].pid] \in Up => llama'[call[c].pid].is \notin Goes]_vars

\* When a model is reported ready, it is the one that answers, as long as no other
\* server's llama-server runs (one that is still closing has the port).
ReadyIsLoaded ==
    [][\A r \in Request : (req[r].at = "wait" /\ req'[r].at = "stream"
                             /\ \A p \in Pid \ {req[r].of} : llama[p].is \notin Goes)
           => Health = {req[r].model}]_vars
===============================================================================
