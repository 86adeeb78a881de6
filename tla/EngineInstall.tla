---------------------------- MODULE EngineInstall ----------------------------
(***************************************************************************)
(* Installing the engine (daemon/engine, crates/tiles-engine/install.rs).  *)
(*                                                                         *)
(* One install runs at a time.  It tries the engines from the wanted one   *)
(* on: it downloads the files of one, unpacks them into a staging folder,  *)
(* checks that the build runs here, and moves the folder into place; a     *)
(* build that fails its check is marked and the next one is tried.  The    *)
(* daemon may die between any two steps and leaves the disk as it is, and  *)
(* the client of a request may leave: a pause or a delete that is dropped  *)
(* frees the lock, and what it waited for goes on.                         *)
(***************************************************************************)
EXTENDS EngineChoice

CONSTANTS
    Machines,    \* what the sources of a computer may answer
    Caller,      \* requests being served
    Serves,      \* bound: Serves[c] are the requests that c can be
    Picks,       \* bound: the engines, or "auto", that are picked
    Files,       \* how many files an engine has
    None

ASSUME EngineAssumption ==
    /\ Machines \subseteq Answers
    /\ Picks \subseteq Downloaded \union {"cpu", "auto"}
    /\ Serves \in [Caller -> SUBSET {"select", "start", "pause", "delete"}]
    /\ Files \in Nat \ {0}
    /\ None \notin Caller /\ None \notin Engine

VARIABLES
    machine,   \* what this computer's sources answer
    pick,      \* the engine in the configuration, or "auto"
    failed,    \* failed.json: the engines that failed their check with this build
    dirs,      \* the engine folders: which engine, of which build, and whether it was checked
    staging,   \* the staging folder: an engine, or None
    files,     \* files[e]: how many of its files are downloaded whole
    folder,    \* the downloads folder is there
    state,     \* the InstallState: its kind and its engine
    task,      \* task[None]: the install in `running`; task[c]: the one that a pause c took out
    lock,      \* the request that holds `running`, or None
    picking,   \* the request that holds `picking`, or None
    call,      \* call[c]: the request
    beside     \* history: an install ran beside another one or beside a delete

disk == <<failed, dirs, staging, files, folder>>
job == <<state, task>>
vars == <<machine, pick, failed, dirs, staging, files, folder, state, task,
          lock, picking, call, beside>>

hw == Detect(machine)

-------------------------------------------------------------------------------
(* Values *)

Running == {"downloading", "unpacking", "checking"}
State == [is : Running \union {"idle", "paused", "done", "failed"}, of : Engine \union {None}]
Is(kind, e) == [is |-> kind, of |-> e]

Dir == [engine : Downloaded, tag : {"older", "pinned"}, checked : BOOLEAN]
Off == [at |-> "off", todo |-> {}]
Tasks == {"next", "fetch", "unpack", "check", "discard", "mark", "move", "sweep", "ending"}
Holder == Caller \union {None}
Busy(h) == task[h].at \notin {"off", "ending"}
Live == task[None].at # "off"
Now(h) == Foremost(task[h].todo)
Unchecked(e) == [engine |-> e, tag |-> "pinned", checked |-> FALSE]

NoCall == [op |-> "start", at |-> "off", engine |-> "auto", todo |-> {}]

\* installed: the newest build; of two engines of one build, either.
Newest == IF \E d \in dirs : d.tag = "pinned" THEN {d \in dirs : d.tag = "pinned"} ELSE dirs
Installed(e) == \E d \in Newest : d.engine = e /\ d.tag = "pinned"

TypeOK ==
    /\ pick \in Picks \union {"auto"}
    /\ failed \subseteq Downloaded
    /\ dirs \subseteq Dir
    /\ staging \in Dir \union {None}
    /\ files \in [Downloaded -> 0 .. Files]
    /\ folder \in BOOLEAN
    /\ state \in State
    /\ task \in [Holder -> [at : Tasks \union {"off"}, todo : SUBSET Engine]]
    /\ lock \in Caller \union {None} /\ picking \in Caller \union {None}
    /\ call \in [Caller -> [op : {"select", "start", "pause", "delete"},
                            at : {"off", "picking", "lock", "locked", "save", "await", "stray",
                                  "delete", "left"},
                            engine : Picks \union {"auto"}, todo : SUBSET Engine]]
    /\ beside \in BOOLEAN

\* The installs whose pause was dropped, and the deletes that go on without a client.
Stray(h) == h \in Caller /\ call[h].at = "stray"
Strays == \E c \in Caller : Stray(c) /\ Busy(c)
Deletes == \E c \in Caller : call[c].at \in {"delete", "left"}

Goto(c, point) == call' = [call EXCEPT ![c].at = point]
\* A request returns, and with it go the locks it holds.
Return(c) ==
    /\ call' = [call EXCEPT ![c] = NoCall]
    /\ lock' = IF lock = c THEN None ELSE lock
    /\ picking' = IF picking = c THEN None ELSE picking
SameCalls == UNCHANGED <<call, lock, picking>>

-------------------------------------------------------------------------------
(* Requests *)

Request(c, op, e) ==
    /\ call[c].at = "off" /\ op \in Serves[c]
    /\ op # "select" => e = "auto"
    /\ call' = [call EXCEPT ![c] = [op |-> op, at |-> IF op \in {"select", "start"} THEN "picking"
                                                                                    ELSE "lock",
                                    engine |-> e, todo |-> {}]]
    /\ UNCHANGED <<machine, pick, lock, picking, beside>> /\ UNCHANGED disk /\ UNCHANGED job

LockPicking(c) ==
    /\ call[c].at = "picking" /\ picking = None
    /\ picking' = c
    /\ Goto(c, "lock")
    /\ UNCHANGED <<machine, pick, lock, beside>> /\ UNCHANGED disk /\ UNCHANGED job

\* start: the engine to run and the ones to fall back to, with the pick held.
Choose(c) ==
    /\ call[c].op = "start" /\ call[c].at = "lock" /\ call[c].todo = {}
    /\ call' = [call EXCEPT ![c].todo = From(EngineToRun(pick, hw, failed), hw, failed)]
    /\ UNCHANGED <<machine, pick, lock, picking, beside>> /\ UNCHANGED disk /\ UNCHANGED job

Lock(c) ==
    /\ call[c].at = "lock" /\ lock = None
    /\ call[c].op = "start" => call[c].todo # {}
    /\ lock' = c
    /\ Goto(c, "locked")
    /\ UNCHANGED <<machine, pick, picking, beside>> /\ UNCHANGED disk /\ UNCHANGED job

\* select is refused while an engine installs, or for one that cannot run here.
Select(c) ==
    LET e == call[c].engine IN
    /\ call[c].op = "select" /\ call[c].at = "locked"
    /\ IF Live \/ ~(e = "auto" \/ CanRun(e, hw))
       THEN Return(c)
       ELSE lock' = None /\ Goto(c, "save") /\ UNCHANGED picking
    /\ UNCHANGED <<machine, pick, beside>> /\ UNCHANGED disk /\ UNCHANGED job

\* Picking an engine that failed its check tries it again.
Save(c) ==
    /\ call[c].at = "save"
    /\ failed' = failed \ {call[c].engine}
    /\ pick' = call[c].engine
    /\ Return(c)
    /\ UNCHANGED <<machine, dirs, staging, files, folder, beside>> /\ UNCHANGED job

\* A file that is there already counts, and there must be room for the rest.
Start(c, room) ==
    LET wanted == Foremost(call[c].todo) IN
    /\ call[c].op = "start" /\ call[c].at = "locked"
    /\ IF Live THEN UNCHANGED <<folder, beside>> /\ UNCHANGED job
       ELSE IF wanted \in Bundled \/ Installed(wanted)
       THEN state' = Is("done", wanted) /\ UNCHANGED <<task, folder, beside>>
       ELSE /\ folder' = TRUE
            /\ IF room THEN /\ state' = Is("downloading", wanted)
                            /\ task' = [task EXCEPT ![None] = [at |-> "next", todo |-> call[c].todo]]
                            /\ beside' = (beside \/ Strays \/ Deletes)
                       ELSE UNCHANGED beside /\ UNCHANGED job
    /\ Return(c)
    /\ UNCHANGED <<machine, pick, failed, dirs, staging, files>>

\* The install is taken out of `running`, cancelled, and awaited with the lock held.
PauseTake(c) ==
    /\ call[c].op = "pause" /\ call[c].at = "locked"
    /\ IF Live THEN /\ task' = [task EXCEPT ![None] = Off, ![c] = task[None]]
                    /\ Goto(c, "await") /\ UNCHANGED <<lock, picking>>
               ELSE UNCHANGED task /\ Return(c)
    /\ UNCHANGED <<machine, pick, state, beside>> /\ UNCHANGED disk

PauseDone(c) ==
    /\ call[c].at = "await" /\ task[c].at = "off"
    /\ Return(c)
    /\ UNCHANGED <<machine, pick, beside>> /\ UNCHANGED disk /\ UNCHANGED job

\* Its client leaves and the request is dropped where it waits, with its locks.  The
\* install of a pause and the removal of a delete are tasks of their own and go on.
Leave(c) ==
    /\ \/ /\ call[c].at \in {"picking", "lock", "await"} /\ task[c].at = "off"
          /\ Return(c)
       \/ /\ \/ call[c].at = "await" /\ task[c].at # "off" /\ Goto(c, "stray")
             \/ call[c].at = "delete" /\ Goto(c, "left")
          /\ lock' = None /\ UNCHANGED picking
    /\ UNCHANGED <<machine, pick, beside>> /\ UNCHANGED disk /\ UNCHANGED job

\* delete: a folder after the other, as the directory lists them; each is moved
\* away before it is emptied, so none is there in part.
DeleteLook(c) ==
    /\ call[c].op = "delete" /\ call[c].at = "locked"
    /\ IF Live \/ (dirs = {} /\ ~folder)
       THEN Return(c) /\ UNCHANGED beside
       ELSE /\ Goto(c, "delete") /\ UNCHANGED <<lock, picking>>
            /\ beside' = (beside \/ Strays)
    /\ UNCHANGED <<machine, pick>> /\ UNCHANGED disk /\ UNCHANGED job

DeleteOne(c) ==
    /\ call[c].at \in {"delete", "left"}
    /\ \/ \E d \in dirs : dirs' = dirs \ {d} /\ UNCHANGED <<staging, files, folder>>
       \/ staging # None /\ staging' = None /\ UNCHANGED <<dirs, files, folder>>
       \/ /\ folder /\ folder' = FALSE
          /\ files' = [e \in Downloaded |-> 0] /\ UNCHANGED <<dirs, staging>>
    /\ SameCalls
    /\ UNCHANGED <<machine, pick, failed, beside>> /\ UNCHANGED job

\* All that it listed is gone; what an install beside it put there since may stay.
DeleteDone(c) ==
    /\ call[c].at = "delete"
    /\ beside \/ (dirs = {} /\ staging = None /\ ~folder)
    /\ state' = Is("idle", None)
    /\ Return(c)
    /\ UNCHANGED <<machine, pick, task, beside>> /\ UNCHANGED disk

\* A folder cannot be removed, or the client is gone: the state is left as it is.
DeleteFails(c) ==
    /\ call[c].at \in {"delete", "left"}
    /\ Return(c)
    /\ UNCHANGED <<machine, pick, beside>> /\ UNCHANGED disk /\ UNCHANGED job

-------------------------------------------------------------------------------
(* The install that h holds *)

Step(h, from, to) == task[h].at = from /\ task' = [task EXCEPT ![h].at = to]
SameJob == UNCHANGED <<machine, pick, beside>> /\ SameCalls

\* The next engine to try; one that comes with Tiles ends the install.
Try(h) ==
    /\ task[h].at = "next"
    /\ IF task[h].todo = {}
       THEN Step(h, "next", "ending") /\ UNCHANGED <<state, folder>>
       ELSE IF Now(h) \in Bundled
       THEN Step(h, "next", "ending") /\ state' = Is("done", Now(h)) /\ UNCHANGED folder
       ELSE Step(h, "next", "fetch") /\ folder' = TRUE /\ UNCHANGED state
    /\ UNCHANGED <<failed, dirs, staging, files>> /\ SameJob

\* A file arrives with the right hash.
Fetched(h) ==
    /\ task[h].at = "fetch" /\ files[Now(h)] < Files /\ folder
    /\ files' = [files EXCEPT ![Now(h)] = @ + 1]
    /\ state' = Is("downloading", Now(h))
    /\ UNCHANGED <<task, failed, dirs, staging, folder>> /\ SameJob

\* The server refuses, the disk is full, a hash is wrong, a folder is gone.
Fails(h) ==
    /\ task[h].at \in {"fetch", "unpack", "move", "sweep"}
    /\ Step(h, task[h].at, "ending") /\ state' = Is("failed", Now(h))
    /\ UNCHANGED disk /\ SameJob

\* An install is cancelled once a pause has taken it out.
Paused(h) ==
    /\ task[h].at = "fetch" /\ files[Now(h)] < Files /\ h # None
    /\ Step(h, "fetch", "ending") /\ state' = Is("paused", Now(h))
    /\ UNCHANGED disk /\ SameJob

\* Every file is there, and they are unpacked into a fresh staging folder.
AllFetched(h) ==
    /\ task[h].at = "fetch" /\ files[Now(h)] = Files
    /\ Step(h, "fetch", "unpack") /\ state' = Is("unpacking", Now(h))
    /\ staging' = Unchecked(Now(h))
    /\ UNCHANGED <<failed, dirs, files, folder>> /\ SameJob

\* A folder that was removed meanwhile may be there again, with the rest of the files.
Unpacked(h) ==
    /\ Step(h, "unpack", "check") /\ state' = Is("checking", Now(h))
    /\ UNCHANGED staging \/ (staging = None /\ staging' = Unchecked(Now(h)))
    /\ UNCHANGED <<failed, dirs, files, folder>> /\ SameJob

Tested(result) ==
    IF staging = None THEN staging' = None ELSE staging' = [staging EXCEPT !.checked = result = "runs"]

\* A check that was cancelled is good enough (a mutant of CheckEnds).
CheckEndsAnyhow(h, result) ==
    /\ result = "paused" => h # None
    /\ Step(h, "check", IF result = "wrong" THEN "mark" ELSE "move")
    /\ Tested(result)
    /\ UNCHANGED <<state, failed, dirs, files, folder>> /\ SameJob

\* The build lists its GPU or not, or the check is cancelled.
CheckEnds(h, result) ==
    /\ result = "paused" => h # None
    /\ result = "runs" => staging # None
    /\ Step(h, "check", IF result = "runs" THEN "move" ELSE IF result = "wrong" THEN "mark" ELSE "discard")
    /\ Tested(result)
    /\ UNCHANGED <<state, failed, dirs, files, folder>> /\ SameJob

Discarded(h) ==
    /\ Step(h, "discard", "ending") /\ state' = Is("paused", Now(h))
    /\ staging' = None
    /\ UNCHANGED <<failed, dirs, files, folder>> /\ SameJob

\* The next engine is tried without a mark on this one (a mutant of Mark).
MarkNothing(h) ==
    /\ task[h].at = "mark"
    /\ task' = [task EXCEPT ![h] = [at |-> "next", todo |-> task[h].todo \ {Now(h)}]]
    /\ staging' = None /\ files' = [files EXCEPT ![Now(h)] = 0]
    /\ UNCHANGED <<state, failed, dirs, folder>> /\ SameJob

\* A build that does not run here leaves only its mark (failed.json can be written).
Mark(h) ==
    /\ task[h].at = "mark"
    /\ task' = [task EXCEPT ![h] = [at |-> "next", todo |-> task[h].todo \ {Now(h)}]]
    /\ staging' = None /\ files' = [files EXCEPT ![Now(h)] = 0]
    /\ failed' = failed \union {Now(h)}
    /\ UNCHANGED <<state, dirs, folder>> /\ SameJob

\* What is in the staging folder goes by the name of this engine, whatever it is.
Placed(h) == [engine |-> Now(h), tag |-> "pinned", checked |-> staging.checked /\ staging.engine = Now(h)]
Others(h) == {d \in dirs : d.engine # Now(h) \/ d.tag # "pinned"}

\* The old engines go before the new one is in place (a mutant of Move).
MoveLast(h) ==
    /\ task[h].at = "move" /\ staging # None
    /\ IF dirs # {} THEN dirs' = {} /\ UNCHANGED <<task, staging>>
                    ELSE dirs' = {Placed(h)} /\ staging' = None /\ Step(h, "move", "sweep")
    /\ UNCHANGED <<state, failed, files, folder>> /\ SameJob

\* The move is what makes it installed.
Move(h) ==
    /\ staging # None
    /\ Step(h, "move", "sweep")
    /\ dirs' = Others(h) \union {Placed(h)}
    /\ staging' = None
    /\ UNCHANGED <<state, failed, files, folder>> /\ SameJob

\* Then every other engine and the downloads are removed; one put there since may stay.
Sweep(h) ==
    /\ task[h].at = "sweep"
    /\ \/ /\ \E d \in Others(h) : dirs' = dirs \ {d}
          /\ UNCHANGED <<task, state, files, folder>>
       \/ /\ beside \/ Others(h) = {}
          /\ files' = [e \in Downloaded |-> 0] /\ folder' = FALSE
          /\ Step(h, "sweep", "ending") /\ state' = Is("done", Now(h))
          /\ UNCHANGED dirs
    /\ UNCHANGED <<failed, staging>> /\ SameJob

\* A request whose pause was dropped is done with its install.
TaskEnds(h) ==
    /\ task[h].at = "ending"
    /\ task' = [task EXCEPT ![h] = Off]
    /\ IF Stray(h) THEN call' = [call EXCEPT ![h] = NoCall] ELSE UNCHANGED call
    /\ UNCHANGED <<machine, pick, state, lock, picking, beside>> /\ UNCHANGED disk

Install(h) ==
    \/ Try(h) \/ Fetched(h) \/ Fails(h) \/ Paused(h) \/ AllFetched(h) \/ Unpacked(h)
    \/ \E result \in {"runs", "wrong", "paused"} : CheckEnds(h, result)
    \/ Discarded(h) \/ Mark(h) \/ Move(h) \/ Sweep(h) \/ TaskEnds(h)

NoTask == [h \in Holder |-> Off]

\* The daemon dies and is started again.
Crash ==
    /\ task' = NoTask /\ state' = Is("idle", None)
    /\ lock' = None /\ picking' = None /\ call' = [c \in Caller |-> NoCall]
    /\ UNCHANGED <<machine, pick, beside>> /\ UNCHANGED disk

-------------------------------------------------------------------------------
(* The system *)

Init ==
    /\ machine \in Machines
    /\ pick = "auto" /\ failed = {} /\ staging = None
    /\ dirs \in {{}, {[engine |-> "vulkan", tag |-> "older", checked |-> TRUE]}}
    /\ files = [e \in Downloaded |-> 0] /\ folder = FALSE
    /\ state = Is("idle", None) /\ task = NoTask
    /\ lock = None /\ picking = None /\ call = [c \in Caller |-> NoCall]
    /\ beside = FALSE

Serve(c) ==
    \/ Choose(c) \/ Select(c) \/ Save(c) \/ \E room \in BOOLEAN : Start(c, room)
    \/ PauseTake(c) \/ PauseDone(c) \/ Leave(c)
    \/ DeleteLook(c) \/ DeleteOne(c) \/ DeleteDone(c) \/ DeleteFails(c)

Next ==
    \/ \E c \in Caller :
          \/ \E op \in {"select", "start", "pause", "delete"}, e \in Picks : Request(c, op, e)
          \/ LockPicking(c) \/ Lock(c) \/ Serve(c)
    \/ \E h \in Holder : Install(h)
    \/ Crash

Spec == Init /\ [][Next]_vars

-------------------------------------------------------------------------------
(* Properties *)

\* A request that starts or picks an engine holds `picking` until it returns, one
\* that looks at the task holds `running`; nothing is in `running` while the folders
\* are deleted, a pick is saved or a pause waits for the install it took out, which
\* it has until that ends, dropped or not.
LocksAreHeld ==
    /\ \A c \in Caller :
        /\ call[c].at \in {"locked", "await", "delete"} => lock = c
        /\ call[c].op \in {"select", "start"} /\ call[c].at \in {"lock", "locked", "save"} => picking = c
        /\ call[c].at = "save" => call[c].op = "select"
        /\ call[c].at \in {"await", "stray"} => call[c].op = "pause"
        /\ call[c].at \in {"delete", "left"} => call[c].op = "delete"
        /\ call[c].at \in {"delete", "save", "await"} => ~Live
        /\ task[c].at # "off" => call[c].at \in {"await", "stray"}
        /\ call[c].at = "save" => \A d \in Caller : call[d].at # "await"

\* One install is at work, and none while the folders are deleted: until one begins
\* beside an install whose pause was dropped or a delete that was, or a delete beside
\* such an install.
OneAtWork ==
    ~beside => \A h \in Holder : Busy(h) => ~Deletes /\ \A i \in Holder \ {h} : ~Busy(i)

\* What may run was checked: an engine folder holds a build that passed its
\* check, whatever was paused, failed, deleted, dropped or cut off by a crash, as
\* long as one install was at work at a time.
OnlyChecked ==
    ~beside =>
        /\ \A d \in dirs : d.checked
        /\ \A h \in Holder :
            /\ task[h].at \in {"unpack", "check", "discard", "mark", "move"} =>
                  staging \in Dir /\ staging.engine = Now(h) /\ staging.tag = "pinned"
            /\ task[h].at = "move" => staging.checked
            /\ task[h].at = "sweep" => \E d \in dirs : d.engine = Now(h) /\ d.tag = "pinned"

\* A state that says an install runs has one behind it, which has an engine
\* to download; and the engine that comes with Tiles is still to be tried.
TaskIsTold ==
    /\ state.is \in Running => \E h \in Holder : Busy(h)
    /\ \A h \in Holder :
        /\ Busy(h) /\ task[h].at # "next" => Now(h) \in Downloaded
        /\ Busy(h) => task[h].todo \intersect Bundled # {}
    /\ \A c \in Caller :
          IF call[c].todo = {} THEN call[c].op = "start" => call[c].at # "locked"
          ELSE /\ call[c].op = "start" /\ call[c].at \in {"lock", "locked"}
               /\ call[c].todo \intersect Bundled # {}

\* The engines that can run here and suit the computer are the ones to try, but
\* for those that failed.  (A pick saved beside an install whose pause was dropped
\* is news to that install.)
Good == {e \in Choices(hw, {}) : Suits(e, hw)}
ToTry(todo) == todo \subseteq Good /\ Good \subseteq todo \union failed
TriesAll ==
    pick = "auto" =>
        /\ \A h \in Holder : Busy(h) /\ ~Stray(h) => ToTry(task[h].todo)
        /\ \A c \in Caller : call[c].todo # {} => ToTry(call[c].todo)

\* The locks, the folders, the state and the installs agree.
EngineInv ==
    /\ TypeOK
    /\ LocksAreHeld
    /\ OneAtWork
    /\ OnlyChecked
    /\ TaskIsTold
    /\ TriesAll

\* Replies keep an engine: only a delete leaves the computer without the one it
\* had ("older builds stay until a newer one passes its check"), unless two installs
\* were at work at once, which a dropped pause makes possible.
KeepsAnEngine ==
    [][(dirs # {} /\ dirs' = {}) => Deletes \/ beside]_vars

\* An install that nobody picked an engine for ends with the engine that Tiles
\* would run, so none is offered for download again, unless its pause was dropped.
\* (The one it installed may still be marked: a start that chose it before an
\* earlier install marked it.)
Ends(h) == task[h].at \in {"next", "sweep"} /\ task'[h].at = "ending" /\ state'.is = "done"
Settles ==
    [][\A h \in Holder :
          Ends(h) /\ ~Stray(h) /\ pick = "auto"
              => EngineToRun(pick, hw, failed \ {state'.of}) = state'.of]_vars
===============================================================================
