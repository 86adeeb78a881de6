--------------------------- MODULE ModelDownloads ---------------------------
(***************************************************************************)
(* The model downloads of the daemon (daemon/job.rs, daemon/model).        *)
(*                                                                         *)
(* A download is a background task with a state that clients follow and a  *)
(* lock (`running`) that a request holds while it starts, pauses, deletes  *)
(* or reads the state back from disk.  Requests are served at the same     *)
(* time; each `await` of one is a step here.  What a task does to the      *)
(* files is BlobFetch; here it only gets further, stops or fails.          *)
(*                                                                         *)
(* A request whose client leaves is dropped where it awaits, and its locks *)
(* are free.  What it has set going goes on: the task that a pause took    *)
(* out of `running`, which no request sees any more, and the removal of a  *)
(* delete.  So a download may be started beside a task that is only being  *)
(* paused, or into a folder that is being removed; what holds then, and    *)
(* what does not, is in the properties.                                    *)
(*                                                                         *)
(* One repository is modelled, with its quants; the other repositories     *)
(* show as None where a model is picked.                                   *)
(***************************************************************************)
EXTENDS Integers, Sequences

CONSTANTS
    QuantCount,  \* how many quants the repository has, numbered in the order of their names
    Bundled,     \* those that Tiles has a Modelfile for
    Caller,      \* requests being served
    Serves,      \* bound: Serves[c] are the requests <<op, quant>> that c can be
    Kept,        \* CHANGES_KEPT: how many changes an events client can fall behind
    Watched,     \* bound: the quants that the events client shows
    None

Ops == {"start", "status", "pause", "select", "delete", "pull"}
Quant == 1 .. QuantCount
States == {"idle", "downloading", "verifying", "paused", "done", "failed"}

ASSUME DownloadsAssumption ==
    /\ QuantCount \in Nat \ {0}
    /\ Bundled \subseteq Quant
    /\ Serves \in [Caller -> SUBSET (Ops \X Quant)]
    /\ Kept \in Nat \ {0} /\ Watched \subseteq Quant
    /\ None \notin Quant \union Caller \union (Quant \X States)

VARIABLES
    known,     \* the quants that `downloads` has an entry for
    state,     \* state[q]: the DownloadState
    task,      \* task[q]: the task in `running`
    lock,      \* lock[q]: the request that holds `running`, or None
    disk,      \* disk[q]: what the disk has of it
    picked,    \* the model chats use, None for one of another repository
    call,      \* call[c]: the request, or what is left of it
    beside,    \* the quants whose task was started beside one that a dropped pause left
    feed,      \* the changes that the events client has not read, None for those it does not show
    lagged,    \* some changes were dropped before it read them
    shown      \* shown[q]: the last state it was sent

files == <<disk, picked>>
client == <<feed, lagged, shown>>
vars == <<known, state, task, lock, disk, picked, call, beside, feed, lagged, shown>>

-------------------------------------------------------------------------------
(* Values *)

IsRunning(s) == s \in {"downloading", "verifying"}
IsUnfinished(s) == s \notin {"idle", "done"}

\* Nothing, some, all of the bytes, or all of them with the snapshot linked.
Disk == 0 .. 3
FromDisk(bytes) == CASE bytes = 0 -> "idle" [] bytes = 1 -> "paused" [] OTHER -> "done"
IsReady(q) == disk[q] = 3

\* A task works, has made the model (and will say so), or has set its last state.
Works(t) == t \in {"work", "made"}
Live(q) == task[q] # "off"

\* A request that is served, or one that was dropped: at "stray" the task it took
\* out of `running` goes on, at "sweep" the removal it began.  A spawned pause is
\* a "close": no client can leave it.
Points == {"off", "lock", "locked", "begin", "read", "tell", "pick", "await",
           "folder", "remove", "idle", "follow", "told", "stray", "sweep"}
Call == [op : Ops \union {"close"}, at : Points, q : Quant, todo : SUBSET Quant, seen : Disk,
         task : {"off", "work", "made"}]
NoCall == [op |-> "start", at |-> "off", q |-> 1, todo |-> {}, seen |-> 0, task |-> "off"]

Stray(q) == \E c \in Caller : call[c].at = "stray" /\ call[c].q = q

At(c, op, point) == call[c].op \in op /\ call[c].at = point
Goto(c, point) == call' = [call EXCEPT ![c].at = point]
Return(c) == call' = [call EXCEPT ![c] = NoCall]
Release(c) == lock' = [q \in Quant |-> IF lock[q] = c THEN None ELSE lock[q]]

\* The quants of a request are taken in the order of their names.
IsNext(c, q) == q \in call[c].todo /\ \A p \in call[c].todo : q <= p

\* `set`: only a real change is stored, and sent to the events client, whose
\* channel drops the oldest change when it is full.
Set(q, s) ==
    LET news == IF q \in Watched THEN <<q, s>> ELSE None IN
    /\ state' = [state EXCEPT ![q] = s]
    /\ IF state[q] = s THEN UNCHANGED <<feed, lagged>>
       ELSE IF Len(feed) < Kept THEN feed' = Append(feed, news) /\ UNCHANGED lagged
       ELSE feed' = Append(Tail(feed), news) /\ lagged' = TRUE
    /\ UNCHANGED shown
SameStates == UNCHANGED <<state, feed, lagged, shown>>

TypeOK ==
    /\ known \subseteq Quant
    /\ state \in [Quant -> States]
    /\ task \in [Quant -> {"off", "work", "made", "ending"}]
    /\ beside \subseteq Quant
    /\ lock \in [Quant -> Caller \union {None}]
    /\ disk \in [Quant -> Disk]
    /\ picked \in Bundled \union {None}
    /\ call \in [Caller -> Call]
    /\ feed \in Seq((Watched \X States) \union {None}) /\ Len(feed) <= Kept
    /\ lagged \in BOOLEAN
    /\ shown \in [Watched -> States]

-------------------------------------------------------------------------------
(* A request comes in: `get` adds an entry for a quant that has none.  A      *)
(* model without a Modelfile cannot be selected; a delete first looks whether *)
(* chats use the repository.                                                  *)
Request(c, op, q) ==
    /\ call[c].at = "off" /\ <<op, q>> \in Serves[c]
    /\ op = "select" => q \in Bundled
    /\ op = "delete" => picked = None
    /\ known' = known \union {q}
    /\ call' = [call EXCEPT ![c] =
                    [op |-> op, at |-> IF op = "delete" THEN "folder" ELSE "lock", q |-> q,
                     todo |-> {}, seen |-> 0, task |-> "off"]]
    /\ UNCHANGED <<task, lock, beside>> /\ SameStates /\ UNCHANGED files

\* `tiles run` with a model of another repository saves it as the one chats use.
PickOther ==
    /\ picked # None
    /\ picked' = None
    /\ UNCHANGED <<known, task, lock, disk, call, beside>> /\ SameStates

Lock(c) ==
    /\ call[c].at = "lock" /\ lock[call[c].q] = None
    /\ lock' = [lock EXCEPT ![call[c].q] = c]
    /\ Goto(c, "locked")
    /\ UNCHANGED <<known, task, beside>> /\ SameStates /\ UNCHANGED files

-------------------------------------------------------------------------------
(* start, and the start of `pull` *)

\* `answer` is the state that the request returns; pull goes on to follow the
\* download, unless it is done.
StartAnswers(c, answer) ==
    IF call[c].op = "pull" /\ answer # "done"
    THEN Goto(c, "follow")
    ELSE Return(c)

\* The plan comes from the Hub, which may not be reached.
StartLook(c, reached) ==
    LET q == call[c].q IN
    /\ At(c, {"start", "pull"}, "locked")
    /\ IF Live(q) THEN StartAnswers(c, state[q]) /\ Release(c)
       ELSE IF reached THEN Goto(c, "begin") /\ UNCHANGED lock
       ELSE Return(c) /\ Release(c)
    /\ UNCHANGED <<known, task, beside>> /\ SameStates /\ UNCHANGED files

\* The room is only needed for bytes that are not there yet.
StartBegin(c, room) ==
    LET q == call[c].q IN
    /\ At(c, {"start", "pull"}, "begin")
    /\ IF room \/ disk[q] >= 2
       THEN /\ Set(q, "downloading")
            /\ task' = [task EXCEPT ![q] = "work"]
            /\ beside' = IF Stray(q) THEN beside \union {q} ELSE beside \ {q}
            /\ StartAnswers(c, "downloading")
       ELSE Return(c) /\ SameStates /\ UNCHANGED <<task, beside>>
    /\ Release(c)
    /\ UNCHANGED <<known>> /\ UNCHANGED files

-------------------------------------------------------------------------------
(* status, and the status that select asks for *)

\* select goes on to pick a model that is there, and refuses any other.
StatusAnswers(c, answer) ==
    IF call[c].op = "select" /\ answer = "done" THEN Goto(c, "pick")
    ELSE Return(c)

StatusLook(c, reached) ==
    LET q == call[c].q IN
    /\ At(c, {"status", "select"}, "locked")
    /\ IF ~Live(q) /\ IsReady(q)
       THEN Set(q, "done") /\ StatusAnswers(c, "done") /\ Release(c)
       ELSE /\ SameStates
            /\ IF reached THEN Goto(c, "read") /\ UNCHANGED lock
                          ELSE Return(c) /\ Release(c)
    /\ UNCHANGED <<known, task, beside>> /\ UNCHANGED files

StatusRead(c) ==
    /\ call[c].at = "read"
    /\ call' = [call EXCEPT ![c].at = "tell", ![c].seen = disk[call[c].q]]
    /\ UNCHANGED <<known, task, lock, beside>> /\ SameStates /\ UNCHANGED files

\* A failure stays until the next start.  What was read may be old by now: the
\* download may have ended since.
StatusTell(c) ==
    LET q == call[c].q
        back == FromDisk(call[c].seen)
    IN  /\ call[c].at = "tell"
        /\ IF ~Live(q) /\ state[q] # "failed"
           THEN Set(q, back) /\ StatusAnswers(c, back)
           ELSE SameStates /\ StatusAnswers(c, state[q])
        /\ Release(c)
        /\ UNCHANGED <<known, task, beside>> /\ UNCHANGED files

Pick(c) ==
    /\ call[c].at = "pick"
    /\ picked' = call[c].q
    /\ Return(c)
    /\ UNCHANGED <<known, task, lock, disk, beside>> /\ SameStates

-------------------------------------------------------------------------------
(* pause *)

\* The task is taken out of `running` and cancelled, then awaited.
PauseTake(c) ==
    LET q == call[c].q IN
    /\ At(c, {"pause", "close"}, "locked")
    /\ IF Live(q)
       THEN /\ call' = [call EXCEPT ![c].at = "await",
                                    ![c].task = IF task[q] = "ending" THEN "off" ELSE task[q]]
            /\ UNCHANGED lock
       ELSE Return(c) /\ Release(c)
    /\ task' = [task EXCEPT ![q] = "off"]
    /\ UNCHANGED <<known, beside>> /\ SameStates /\ UNCHANGED files

PauseDone(c) ==
    /\ call[c].at = "await" /\ call[c].task = "off"
    /\ Return(c) /\ Release(c)
    /\ UNCHANGED <<known, task, beside>> /\ SameStates /\ UNCHANGED files

-------------------------------------------------------------------------------
(* delete *)

\* The quants that are known by now are the ones that are locked.
DeleteList(c) ==
    /\ call[c].at = "folder" /\ call[c].todo = {}
    /\ call' = [call EXCEPT ![c].todo = known]
    /\ UNCHANGED <<known, task, lock, beside>> /\ SameStates /\ UNCHANGED files

\* The quants are locked in the order of the map (a mutant of DeleteLock).
DeleteLockAny(c, q) ==
    /\ call[c].at = "folder" /\ q \in call[c].todo
    /\ lock[q] = None
    /\ IF Live(q)
       THEN Return(c) /\ Release(c)
       ELSE /\ call' = [call EXCEPT ![c].todo = @ \ {q},
                                    ![c].at = IF call[c].todo = {q} THEN "remove" ELSE "folder"]
            /\ lock' = [lock EXCEPT ![q] = c]
    /\ UNCHANGED <<known, task, beside>> /\ SameStates /\ UNCHANGED files

\* One quant after the other is locked; one that is downloading is not deleted.
DeleteLock(c, q) ==
    /\ call[c].at = "folder" /\ IsNext(c, q)
    /\ lock[q] = None
    /\ IF Live(q)
       THEN Return(c) /\ Release(c)
       ELSE /\ call' = [call EXCEPT ![c].todo = @ \ {q},
                                    ![c].at = IF call[c].todo = {q} THEN "remove" ELSE "folder"]
            /\ lock' = [lock EXCEPT ![q] = c]
    /\ UNCHANGED <<known, task, beside>> /\ SameStates /\ UNCHANGED files

\* The folder is removed, with what other quants have in it.
Remove(c) ==
    /\ call[c].at = "remove"
    /\ disk' = [q \in Quant |-> 0]
    /\ IF \E q \in Quant : disk[q] > 0
       THEN /\ call' = [call EXCEPT ![c].at = "idle", ![c].todo = {q \in Quant : lock[q] = c}]
            /\ UNCHANGED lock
       ELSE Return(c) /\ Release(c)
    /\ UNCHANGED <<known, task, beside, picked>> /\ SameStates

\* Then each quant that is locked is idle; the locks are dropped together.
SetIdle(c, q) ==
    /\ call[c].at = "idle" /\ IsNext(c, q)
    /\ Set(q, "idle")
    /\ IF call[c].todo = {q} THEN Return(c) /\ Release(c)
                              ELSE call' = [call EXCEPT ![c].todo = @ \ {q}] /\ UNCHANGED lock
    /\ UNCHANGED <<known, task, beside>> /\ UNCHANGED files

\* It fails half way: the states are left as they are.
RemoveFails(c, gone) ==
    /\ call[c].at = "remove"
    /\ disk' = [q \in Quant |-> IF q \in gone THEN 0 ELSE disk[q]]
    /\ Return(c) /\ Release(c)
    /\ UNCHANGED <<known, task, beside, picked>> /\ SameStates

-------------------------------------------------------------------------------
(* A client leaves while its request awaits *)

Leave(c) ==
    /\ call[c].op # "close"
    /\ \/ call[c].at \in {"lock", "begin", "read", "folder"} /\ Return(c)
       \/ call[c].at = "await" /\ call[c].task # "off" /\ Goto(c, "stray")
       \/ call[c].at = "remove" /\ Goto(c, "sweep")
    /\ Release(c)
    /\ UNCHANGED <<known, task, beside>> /\ SameStates /\ UNCHANGED files

\* The removal goes on without the locks, and ends.
Sweep(c, gone) ==
    /\ call[c].at = "sweep"
    /\ disk' = [q \in Quant |-> IF q \in gone THEN 0 ELSE disk[q]]
    /\ UNCHANGED call \/ Return(c)
    /\ UNCHANGED <<known, task, lock, beside, picked>> /\ SameStates

-------------------------------------------------------------------------------
(* Following a download: the stream ends after a state that is not running.   *)
(* It is dropped when its reader goes away; dropped before its end it pauses  *)
(* the download, also when it has told the last state already.                *)

Told(c) ==
    /\ call[c].at = "follow"
    /\ ~IsRunning(state[call[c].q])
    /\ Goto(c, "told")
    /\ UNCHANGED <<known, task, lock, beside>> /\ SameStates /\ UNCHANGED files

Disarmed(c) ==
    /\ call[c].at = "told"
    /\ Return(c)
    /\ UNCHANGED <<known, task, lock, beside>> /\ SameStates /\ UNCHANGED files

Close(c) ==
    /\ call[c].at \in {"follow", "told"}
    /\ call' = [call EXCEPT ![c].op = "close", ![c].at = "lock"]
    /\ UNCHANGED <<known, task, lock, beside>> /\ SameStates /\ UNCHANGED files

-------------------------------------------------------------------------------
(* The task *)

\* It tells its progress, or gets further: bytes, then all of them, then the
\* linked snapshot.
Gets(q) ==
    \/ disk[q] < 2 /\ Set(q, "downloading") /\ UNCHANGED disk
    \/ /\ disk' = [disk EXCEPT ![q] = IF @ < 3 THEN @ + 1 ELSE @]
       /\ IF disk[q] = 1 THEN Set(q, "verifying") ELSE SameStates
Stage(q) == IF disk'[q] = 3 THEN "made" ELSE "work"

Work(q) ==
    /\ task[q] = "work"
    /\ Gets(q)
    /\ task' = [task EXCEPT ![q] = Stage(q)]
    /\ UNCHANGED <<known, lock, beside, picked, call>>

\* The task ends without a last state (a mutant of Finish).
FinishSilent(q, outcome) ==
    /\ Works(task[q]) /\ (outcome = "done" <=> task[q] = "made")
    /\ SameStates
    /\ task' = [task EXCEPT ![q] = "ending"]
    /\ UNCHANGED <<known, lock, beside, call>> /\ UNCHANGED files

\* Its last state is set while it still counts as live.
Finish(q, outcome) ==
    /\ Works(task[q]) /\ (outcome = "done" <=> task[q] = "made")
    /\ Set(q, outcome)
    /\ task' = [task EXCEPT ![q] = "ending"]
    /\ UNCHANGED <<known, lock, beside, call>> /\ UNCHANGED files

TaskEnds(q) ==
    /\ task[q] = "ending"
    /\ task' = [task EXCEPT ![q] = "off"]
    /\ UNCHANGED <<known, lock, beside, call>> /\ SameStates /\ UNCHANGED files

\* One that a pause took gets further too, until it sees that it is cancelled;
\* its last state is set whether the pause still awaits it or not.
TakenWork(c) ==
    /\ call[c].task = "work"
    /\ Gets(call[c].q)
    /\ call' = [call EXCEPT ![c].task = Stage(call[c].q)]
    /\ UNCHANGED <<known, task, lock, beside, picked>>

TakenEnds(c, outcome) ==
    /\ call[c].task # "off" /\ (outcome = "done" <=> call[c].task = "made")
    /\ Set(call[c].q, outcome)
    /\ IF call[c].at = "stray" THEN Return(c) ELSE call' = [call EXCEPT ![c].task = "off"]
    /\ UNCHANGED <<known, task, lock, beside>> /\ UNCHANGED files

-------------------------------------------------------------------------------
(* The events client *)

Show(change) ==
    [q \in Watched |-> IF change # None /\ q = change[1] THEN change[2] ELSE shown[q]]

\* Nothing is sent again after a gap (a mutant of Read).
ReadOn ==
    /\ feed # <<>>
    /\ feed' = Tail(feed) /\ lagged' = FALSE
    /\ shown' = Show(feed[1])
    /\ UNCHANGED <<known, state, task, lock, call, beside>> /\ UNCHANGED files

\* After a gap the unfinished downloads are sent again, then what the channel kept.
Read ==
    /\ lagged \/ feed # <<>>
    /\ lagged' = FALSE
    /\ IF lagged
       THEN /\ shown' = [q \in Watched |-> IF q \in known /\ IsUnfinished(state[q])
                                         THEN state[q] ELSE shown[q]]
            /\ UNCHANGED feed
       ELSE /\ shown' = Show(feed[1])
            /\ feed' = Tail(feed)
    /\ UNCHANGED <<known, state, task, lock, call, beside>> /\ UNCHANGED files

\* The daemon dies and is started again; the client connects again.
Restart ==
    /\ known' = {}
    /\ state' = [q \in Quant |-> "idle"] /\ shown' = [q \in Watched |-> "idle"] /\ feed' = <<>> /\ lagged' = FALSE
    /\ task' = [q \in Quant |-> "off"] /\ beside' = {}
    /\ lock' = [q \in Quant |-> None]
    /\ call' = [c \in Caller |-> NoCall]
    /\ UNCHANGED files

-------------------------------------------------------------------------------
(* The system *)

Init ==
    /\ known = {}
    /\ state = [q \in Quant |-> "idle"] /\ shown = [q \in Watched |-> "idle"] /\ feed = <<>> /\ lagged = FALSE
    /\ task = [q \in Quant |-> "off"] /\ beside = {}
    /\ lock = [q \in Quant |-> None]
    /\ disk \in [Quant -> {0, 2}]
    /\ picked = None
    /\ call = [c \in Caller |-> NoCall]

Serve(c) ==
    \/ \E reached \in BOOLEAN : StartLook(c, reached) \/ StatusLook(c, reached)
    \/ \E room \in BOOLEAN : StartBegin(c, room)
    \/ StatusRead(c) \/ StatusTell(c) \/ Pick(c)
    \/ PauseTake(c) \/ PauseDone(c)
    \/ DeleteList(c) \/ \E q \in Quant : DeleteLock(c, q) \/ SetIdle(c, q)
    \/ Remove(c) \/ \E gone \in SUBSET Quant : RemoveFails(c, gone)
    \/ Told(c) \/ Disarmed(c)
    \/ Leave(c) \/ \E gone \in SUBSET Quant : Sweep(c, gone)

Fetch(q) ==
    \/ Work(q) \/ TaskEnds(q)
    \/ \E outcome \in {"done", "failed"} : Finish(q, outcome)

FetchOn(c) ==
    \/ TakenWork(c)
    \/ \E outcome \in {"done", "paused", "failed"} : TakenEnds(c, outcome)

Next ==
    \/ \E c \in Caller :
          \/ \E op \in Ops, q \in Quant : Request(c, op, q)
          \/ Lock(c) \/ Serve(c) \/ Close(c) \/ FetchOn(c)
    \/ \E q \in Quant : Fetch(q)
    \/ Read \/ PickOther \/ Restart

Spec == Init /\ [][Next]_vars

-------------------------------------------------------------------------------
(* Properties *)

\* A state that says a download is running has a task behind it, or a stream
\* that follows it would never end: one of `running`, or one that a pause took,
\* whether its client is there or not.  A task that is in `running` or awaited
\* shows, unless it was started beside one that a dropped pause left: that one's
\* last state (paused) is then written over it.
Behind(q) == Works(task[q]) \/ \E c \in Caller : call[c].q = q /\ call[c].task # "off"
Owned(q) == Works(task[q]) \/ \E c \in Caller : /\ call[c].q = q /\ call[c].at = "await"
                                                /\ call[c].task # "off"
TaskIsTold ==
    \A q \in Quant : /\ IsRunning(state[q]) => Behind(q)
                     /\ Owned(q) => IsRunning(state[q]) \/ q \in beside

\* A task that was taken out of `running` is the only one of its quant until the
\* pause is answered or dropped; beside one whose pause was dropped there is at
\* most the one that was started then.
TakenTasks ==
    /\ \A c \in Caller : /\ call[c].task # "off" => call[c].at \in {"await", "stray"}
                         /\ call[c].at = "await" => task[call[c].q] = "off"
    /\ \A q \in Quant : Stray(q) /\ Owned(q) => q \in beside

\* A lock is held by a request that will let it go, and a request that counts
\* on the lock of its quant has it.
Owns(c) == call[c].at \in {"locked", "begin", "read", "tell", "await"}
Deletes(c) == call[c].at \in {"folder", "remove", "idle"}
LocksAreHeld ==
    /\ \A q \in Quant : lock[q] # None => Owns(lock[q]) \/ Deletes(lock[q])
    /\ \A c \in Caller : Owns(c) => lock[call[c].q] = c
    /\ \A c \in Caller : call[c].at = "begin" => ~Live(call[c].q)

\* What a delete has locked is not downloading, from the lock to the removal of
\* the folder, but for a task that a dropped pause left; and what it still has to
\* lock comes after what it has.  (A removal whose own client left has no lock:
\* the downloads are then free to start.)
NothingRunsUnderDelete ==
    \A c \in Caller : Deletes(c) =>
        /\ \A q \in Quant : lock[q] = c =>
              /\ ~Live(q)
              /\ \A d \in Caller : call[d].q = q /\ call[d].task # "off" => call[d].at = "stray"
              /\ call[c].at = "folder" => call[c].todo # {} /\ \A p \in call[c].todo : q < p
        /\ call[c].at = "remove" => \E q \in Quant : lock[q] = c
        /\ call[c].at = "idle" => call[c].todo # {} /\ \A q \in call[c].todo : lock[q] = c

\* A quant that has no entry is idle and not locked, and nobody asks for it.
KnownFirst ==
    /\ \A q \in Quant \ known : state[q] = "idle" /\ task[q] = "off" /\ lock[q] = None
    /\ \A c \in Caller : call[c].at # "off" => call[c].q \in known /\ call[c].todo \subseteq known

\* Only a model with a Modelfile is picked.
PicksBundled ==
    \A c \in Caller : /\ call[c].at = "pick" => call[c].op = "select"
                      /\ call[c].op = "select" => call[c].q \in Bundled

\* What the client has been sent and what is on its way add up: the last change
\* of a quant is the state it has, and one with none on its way is shown as it is
\* unless it is finished, or the client will be sent everything again.
About(i, q) == feed[i] # None /\ feed[i][1] = q
ChangesAddUp ==
    \A q \in Watched :
        /\ \A i \in DOMAIN feed :
              About(i, q) /\ (\A j \in DOMAIN feed : About(j, q) => j <= i) => feed[i][2] = state[q]
        /\ (\A i \in DOMAIN feed : ~About(i, q)) /\ ~lagged /\ IsUnfinished(state[q])
              => shown[q] = state[q]

\* The states, the tasks, the locks and the requests agree.
DownloadsInv ==
    /\ TypeOK
    /\ TaskIsTold
    /\ TakenTasks
    /\ LocksAreHeld
    /\ NothingRunsUnderDelete
    /\ KnownFirst
    /\ PicksBundled
    /\ ChangesAddUp

\* An events client that has read everything shows every unfinished download
\* as it is, whatever was dropped while it was behind.
CaughtUp ==
    (feed = <<>> /\ ~lagged) =>
        \A q \in Watched : IsUnfinished(state[q]) => shown[q] = state[q]

\* No requests wait for each other's locks: whatever set of them one looks at,
\* one is not waiting for another of the set.  (Deletes lock the quants in one
\* order; a pause waits for its task with the lock held, and a task takes none.)
WaitsFor(c, holder) ==
    \/ call[c].at = "lock" /\ lock[call[c].q] = holder
    \/ call[c].at = "folder" /\ \E q \in Quant : IsNext(c, q) /\ lock[q] = holder
NoCircle == \A S \in SUBSET Caller : (\A c \in S : \E d \in S : WaitsFor(c, d)) => S = {}
===============================================================================
