------------------------------ MODULE BlobFetch ------------------------------
(***************************************************************************)
(* Downloading the files of a model (utils/hf_model_downloader).           *)
(*                                                                         *)
(* A download goes through the files of its plan, one after the other.  A  *)
(* file is fetched into a part file, under a lock, and continued where an  *)
(* earlier attempt stopped; when its hash is right the part is renamed to  *)
(* the blob.  When every blob is there the snapshot is linked to them.     *)
(* Downloads of one repository share blobs and run at the same time.       *)
(*                                                                         *)
(* What a file should hold is <<1, 2, ..., Size[f]>>; a byte that is wrong *)
(* or out of place shows as another number.  A hash is what was hashed.    *)
(***************************************************************************)
EXTENDS Integers, Sequences, FiniteSets

CONSTANTS
    Download,    \* the downloads, each of one quant of the repository
    File,        \* the blobs
    Plan,        \* Plan[d]: the files of download d, in order
    Size,        \* Size[f]: the size the hub gives for file f
    Hashed,      \* the files whose SHA-256 the hub gives
    Exact,       \* the files of which the server sends the range it is asked for, no more
    Retries,     \* RETRIES
    Corrupts,    \* whether the server or the disk may change a byte
    Buffer,      \* how many bytes the BufWriter may hold
    MaxRuns,     \* bound: MaxRuns[d] is how often d is begun
    None

ASSUME BlobFetchAssumption ==
    /\ Plan \in [Download -> Seq(File) \ {<<>>}]
    /\ Size \in [File -> Nat]
    /\ Hashed \subseteq File /\ Exact \subseteq File
    /\ Retries \in Nat /\ Buffer \in Nat
    /\ MaxRuns \in [Download -> Nat]
    /\ Corrupts \in BOOLEAN
    /\ None \notin Download /\ None \notin Seq(Nat)

VARIABLES
    blob,      \* blob[f]: the content of the blob, or None
    part,      \* part[f]: the content of the part file, or None
    old,       \* old[f]: a part file of hf-hub: absent, whole (with its footer) or cut
    linked,    \* the files that the snapshot links to
    holder,    \* holder[f]: the download that holds the lock of f, or None
    task,      \* task[d]: where download d is
    cancel,    \* cancel[d]: its token is cancelled
    runs,      \* runs[d]: how often it was begun
    trouble    \* history: something went wrong outside of this code

disk == <<blob, part, old, linked>>
vars == <<blob, part, old, linked, holder, task, cancel, runs, trouble>>

-------------------------------------------------------------------------------
(* Values *)

Content == Seq(Nat)
Right(f) == [k \in 1 .. Size[f] |-> k]
Length(c) == IF c = None THEN 0 ELSE Len(c)

\* The points of a download.  The awaits of a file: "next" looks for its blob,
\* "locking" and "waiting" want its lock, "locked" to "renaming" hold it.
Locked == {"locked", "reuse", "takeOld", "measure", "request", "stream", "retry",
           "sleep", "verify", "rename"}
Ended == {"off", "done", "paused", "failed"}
Linking == {"link", "unlink", "symlink"}
Points == Ended \union Locked \union Linking \union {"next", "locking", "waiting"}

\* pos is the server's position in the file, hash what the hasher was fed, kept
\* how long the part was when it was opened, before when the attempt began.
Task == [at : Points, n : Nat \ {0}, pos : Nat, hash : Content, kept : Nat,
         before : Nat, retries : Nat]
Fresh(point, n) == [at |-> point, n |-> n, pos |-> 0, hash |-> <<>>, kept |-> 0,
                    before |-> 0, retries |-> 0]

TypeOK ==
    /\ blob \in [File -> Content \union {None}]
    /\ part \in [File -> Content \union {None}]
    /\ old \in [File -> {"absent", "whole", "cut"}]
    /\ linked \subseteq File
    /\ holder \in [File -> Download \union {None}]
    /\ task \in [Download -> Task]
    /\ cancel \in [Download -> BOOLEAN]
    /\ runs \in [Download -> Nat]
    /\ trouble \in BOOLEAN

Running(d) == task[d].at \notin Ended
\* The file that d works on.
Now(d) == Plan[d][task[d].n]

\* is_complete: only the length is looked at.
Complete(f) == blob[f] # None /\ Len(blob[f]) = Size[f]

-------------------------------------------------------------------------------
(* Steps of a task *)

At(d, point) == task[d].at = point
Go(d, point) == task' = [task EXCEPT ![d].at = point]
Unlock(f) == holder' = [holder EXCEPT ![f] = None]
Keep == UNCHANGED <<cancel, runs>>

\* fetch_blob returns: the lock is dropped.
Leave(d, point) ==
    /\ task' = [task EXCEPT ![d] = Fresh(point, task[d].n)]
    /\ Unlock(Now(d)) /\ Keep
Fails(d) == Leave(d, "failed")

NextFile(d) ==
    task' = [task EXCEPT ![d] = IF task[d].n < Len(Plan[d]) THEN Fresh("next", task[d].n + 1)
                                                           ELSE Fresh("link", 1)]

\* A step that leaves the lock with its holder.
Quiet == UNCHANGED <<holder, trouble>> /\ Keep

-------------------------------------------------------------------------------
(* fetch_blob: the lock *)

\* The blob is there: nothing to fetch.
Look(d) ==
    /\ At(d, "next")
    /\ IF Complete(Now(d)) THEN NextFile(d) ELSE Go(d, "locking")
    /\ Quiet /\ UNCHANGED disk

TryLock(d) ==
    /\ At(d, "locking")
    /\ IF holder[Now(d)] = None
       THEN Go(d, "locked") /\ holder' = [holder EXCEPT ![Now(d)] = d]
       ELSE Go(d, "waiting") /\ UNCHANGED holder
    /\ UNCHANGED trouble /\ Keep /\ UNCHANGED disk

\* LOCK_RETRY has passed.
TryAgain(d) ==
    /\ At(d, "waiting")
    /\ Go(d, "locking")
    /\ Quiet /\ UNCHANGED disk

\* Another download may have finished it while this one waited.
Recheck(d) ==
    /\ At(d, "locked")
    /\ IF Complete(Now(d)) THEN NextFile(d) /\ Unlock(Now(d))
                           ELSE Go(d, "reuse") /\ UNCHANGED holder
    /\ UNCHANGED trouble /\ Keep /\ UNCHANGED disk

\* reuse_sync_part: a part file of hf-hub is cut to the bytes it has (at most one),
\* unless there is a part already; one that is cut is of no use.
Reuse(d) ==
    LET f == Now(d)
        take == old[f] = "whole" /\ part[f] = None
    IN  /\ At(d, "reuse")
        /\ old' = [old EXCEPT ![f] = IF take THEN "cut" ELSE "absent"]
        /\ Go(d, IF take THEN "takeOld" ELSE "measure")
        /\ Quiet /\ UNCHANGED <<blob, part, linked>>

TakeOld(d) ==
    LET f == Now(d) IN
    /\ At(d, "takeOld")
    /\ part' = [part EXCEPT ![f] = IF Size[f] = 0 THEN <<>> ELSE <<1>>]
    /\ old' = [old EXCEPT ![f] = "absent"]
    /\ Go(d, "measure")
    /\ Quiet /\ UNCHANGED <<blob, linked>>

-------------------------------------------------------------------------------
(* fetch and fetch_once *)

\* What is on disk is hashed first, so the end needs no second pass; a part
\* that is too long is removed.
Measure(d) ==
    LET f == Now(d)
        content == IF part[f] = None \/ Len(part[f]) > Size[f] THEN <<>> ELSE part[f]
    IN  /\ At(d, "measure")
        /\ part' = [part EXCEPT ![f] = IF Length(@) > Size[f] THEN None ELSE @]
        /\ task' = [task EXCEPT ![d].at = IF Len(content) = Size[f] THEN "verify" ELSE "request",
                                ![d].hash = content,
                                ![d].before = Length(part[f])]
        /\ Quiet /\ UNCHANGED <<blob, old, linked>>

\* Whether the answer can be the range: none is asked for at the start.
Answers(d) ==
    IF task[d].hash = <<>> THEN {FALSE} ELSE IF Now(d) \in Exact THEN {TRUE} ELSE BOOLEAN

\* The server's answer counts as the range, whatever it is (a mutant of Answered).
AnswerIsRange(d, ranged) ==
    LET f == Now(d) IN
    /\ At(d, "request")
    /\ part' = [part EXCEPT ![f] = IF @ = None THEN <<>> ELSE @]
    /\ task' = [task EXCEPT ![d].at = "stream",
                            ![d].pos = IF ranged THEN Len(task[d].hash) ELSE 0,
                            ![d].kept = Len(task[d].hash)]
    /\ Quiet /\ UNCHANGED <<blob, old, linked>>

\* The server answers, with the range that was asked for or with the whole
\* file: then the part is started over.
Answered(d, ranged) ==
    LET f == Now(d)
        hash == IF ranged THEN task[d].hash ELSE <<>>
    IN  /\ At(d, "request")
        /\ part' = [part EXCEPT ![f] = IF hash = <<>> \/ @ = None THEN <<>> ELSE @]
        /\ task' = [task EXCEPT ![d].at = "stream", ![d].pos = Len(hash),
                                ![d].hash = hash, ![d].kept = Len(hash)]
        /\ Quiet /\ UNCHANGED <<blob, old, linked>>

\* The bytes on the wire: the next one, or a wrong one.
Wire(d) == {task[d].pos + 1} \union IF Corrupts THEN {0} ELSE {}

\* A byte arrives; the server may send more than the file is long.
Chunk(d, byte) ==
    LET f == Now(d) IN
    /\ At(d, "stream")
    /\ task[d].pos <= IF f \in Exact THEN Size[f] - 1 ELSE Size[f]
    /\ part' = [part EXCEPT ![f] = Append(@, byte)]
    /\ task' = [task EXCEPT ![d].hash = Append(@, byte), ![d].pos = @ + 1]
    /\ trouble' = (trouble \/ byte = 0 \/ task[d].pos >= Size[f])
    /\ UNCHANGED <<holder, blob, old, linked>> /\ Keep

\* A stream that ends early counts as whole (a mutant of StreamEnds).
EndIsWhole(d) ==
    /\ At(d, "stream")
    /\ Go(d, "verify")
    /\ Quiet /\ UNCHANGED disk

\* The stream ends: the length tells whether it was whole.
StreamEnds(d) ==
    /\ At(d, "stream")
    /\ Go(d, IF Len(task[d].hash) = Size[Now(d)] THEN "verify" ELSE "retry")
    /\ trouble' = (trouble \/ Len(task[d].hash) # Size[Now(d)])
    /\ UNCHANGED holder /\ Keep /\ UNCHANGED disk

\* An error worth a retry: no connection, a server error, a stream that breaks
\* or stalls.
Breaks(d) ==
    /\ task[d].at \in {"request", "stream"}
    /\ Go(d, "retry")
    /\ trouble' = TRUE
    /\ UNCHANGED holder /\ Keep /\ UNCHANGED disk

\* How much of a part is on disk whatever happens, and what is left of it when
\* up to n bytes were not flushed.
Flushed(f) ==
    IF holder[f] # None /\ At(holder[f], "stream") THEN task[holder[f]].kept ELSE Length(part[f])
Cut(f, n) ==
    IF part[f] = None THEN None
    ELSE SubSeq(part[f], 1, IF Len(part[f]) - n < Flushed(f) THEN Flushed(f) ELSE Len(part[f]) - n)

\* A refusal, or an error of the disk: not worth a retry.
Refused(d) ==
    /\ task[d].at \in Locked \ {"locked", "retry", "sleep"}
    /\ \E n \in 0 .. Buffer : part' = [part EXCEPT ![Now(d)] = Cut(Now(d), n)]
    /\ Fails(d)
    /\ trouble' = TRUE
    /\ UNCHANGED <<blob, old, linked>>

\* An error is tried again however often (a mutant of Retry).
RetryForever(d) ==
    /\ At(d, "retry")
    /\ Go(d, "sleep")
    /\ Quiet /\ UNCHANGED disk

\* Any progress resets the retries.
Retry(d) ==
    LET count == IF Length(part[Now(d)]) > task[d].before THEN 0 ELSE task[d].retries IN
    /\ At(d, "retry")
    /\ IF count = Retries
       THEN Fails(d)
       ELSE /\ task' = [task EXCEPT ![d].at = "sleep", ![d].retries = count + 1]
            /\ UNCHANGED holder /\ Keep
    /\ UNCHANGED trouble /\ UNCHANGED disk

Wake(d) ==
    /\ At(d, "sleep")
    /\ Go(d, "measure")
    /\ Quiet /\ UNCHANGED disk

\* The hash of a file that has one must be right, or its part is removed.
Verify(d) ==
    LET f == Now(d) IN
    /\ At(d, "verify")
    /\ IF f \in Hashed /\ task[d].hash # Right(f)
       THEN part' = [part EXCEPT ![f] = None] /\ Fails(d)
       ELSE Go(d, "rename") /\ UNCHANGED <<part, holder>> /\ Keep
    /\ UNCHANGED trouble /\ UNCHANGED <<blob, old, linked>>

\* rename fails when there is no part, as for an empty file.
Rename(d) ==
    LET f == Now(d) IN
    /\ At(d, "rename")
    /\ IF part[f] = None
       THEN Fails(d) /\ UNCHANGED <<blob, part>>
       ELSE /\ blob' = [blob EXCEPT ![f] = part[f]]
            /\ part' = [part EXCEPT ![f] = None]
            /\ NextFile(d) /\ Unlock(f) /\ Keep
    /\ UNCHANGED trouble /\ UNCHANGED <<old, linked>>

-------------------------------------------------------------------------------
(* download: linking the snapshot, and cancelling *)

\* The next link, or refs/main and the end.
Linked(d) ==
    IF task[d].n < Len(Plan[d])
    THEN task' = [task EXCEPT ![d].at = "link", ![d].n = @ + 1]
    ELSE Go(d, "done")

\* An old link is left where it is (a mutant of LinkLook).
LinkAnyway(d) ==
    /\ At(d, "link")
    /\ Go(d, "symlink")
    /\ Quiet /\ UNCHANGED disk

\* link: an old link is removed first; the system calls see what other downloads did.
LinkLook(d) ==
    /\ At(d, "link")
    /\ Go(d, IF Now(d) \in linked THEN "unlink" ELSE "symlink")
    /\ Quiet /\ UNCHANGED disk

Unlink(d) ==
    /\ At(d, "unlink")
    /\ Go(d, IF Now(d) \in linked THEN "symlink" ELSE "failed")
    /\ linked' = linked \ {Now(d)}
    /\ Quiet /\ UNCHANGED <<blob, part, old>>

Symlink(d) ==
    /\ At(d, "symlink")
    /\ IF Now(d) \in linked THEN Go(d, "failed") ELSE Linked(d)
    /\ linked' = linked \union {Now(d)}
    /\ Quiet /\ UNCHANGED <<blob, part, old>>

\* The lock file or the snapshot cannot be written.
DiskFails(d) ==
    /\ task[d].at \in Linking \union {"locking"}
    /\ Go(d, "failed")
    /\ trouble' = TRUE
    /\ UNCHANGED holder /\ Keep /\ UNCHANGED disk

\* The token is looked at wherever the task waits; the writer is flushed.
Pause(d) ==
    /\ cancel[d]
    /\ \/ At(d, "waiting") /\ Go(d, "paused") /\ UNCHANGED holder /\ Keep
       \/ task[d].at \in {"request", "stream", "sleep"} /\ Leave(d, "paused")
    /\ UNCHANGED trouble /\ UNCHANGED disk

-------------------------------------------------------------------------------
(* The daemon: ModelDownload's start, pause and delete, and its end *)

Begin(d) ==
    /\ ~Running(d) /\ runs[d] < MaxRuns[d]
    /\ task' = [task EXCEPT ![d] = Fresh("next", 1)]
    /\ cancel' = [cancel EXCEPT ![d] = FALSE]
    /\ runs' = [runs EXCEPT ![d] = @ + 1]
    /\ UNCHANGED <<holder, trouble>> /\ UNCHANGED disk

Cancel(d) ==
    /\ Running(d) /\ ~cancel[d]
    /\ cancel' = [cancel EXCEPT ![d] = TRUE]
    /\ UNCHANGED <<task, holder, runs, trouble>> /\ UNCHANGED disk

\* delete: the folder of the repository, while no download of it runs.
Remove ==
    /\ \A d \in Download : ~Running(d)
    /\ blob' = [f \in File |-> None]
    /\ part' = [f \in File |-> None]
    /\ old' = [f \in File |-> "absent"]
    /\ linked' = {}
    /\ task' = [d \in Download |-> Fresh("off", 1)]
    /\ UNCHANGED <<holder, trouble>> /\ Keep

\* The daemon dies: its locks are gone, and what its writers had not flushed.
Crash ==
    /\ \E n \in 0 .. Buffer : part' = [f \in File |-> Cut(f, n)]
    /\ task' = [d \in Download |-> Fresh("off", 1)]
    /\ holder' = [f \in File |-> None]
    /\ cancel' = [d \in Download |-> FALSE]
    /\ trouble' = TRUE
    /\ UNCHANGED <<blob, old, linked, runs>>

-------------------------------------------------------------------------------
(* Specifications *)

\* The cache is new, or holds what hf-hub had begun to download.
Init ==
    /\ blob = [f \in File |-> None]
    /\ part = [f \in File |-> None]
    /\ old \in [File -> {"absent", "whole"}]
    /\ linked = {}
    /\ holder = [f \in File |-> None]
    /\ task = [d \in Download |-> Fresh("off", 1)]
    /\ cancel = [d \in Download |-> FALSE]
    /\ runs = [d \in Download |-> 0]
    /\ trouble = FALSE

\* What a download does by itself; the server's part ends with a timeout.
Work(d) ==
    \/ Look(d) \/ TryLock(d) \/ TryAgain(d) \/ Recheck(d) \/ Reuse(d) \/ TakeOld(d)
    \/ Measure(d) \/ StreamEnds(d) \/ Breaks(d) \/ Refused(d) \/ Retry(d) \/ Wake(d)
    \/ Verify(d) \/ Rename(d) \/ LinkLook(d) \/ Unlink(d) \/ Symlink(d) \/ DiskFails(d)
    \/ \E ranged \in Answers(d) : Answered(d, ranged)
    \/ \E byte \in Wire(d) : Chunk(d, byte)

Next ==
    \/ \E d \in Download : Work(d) \/ Pause(d) \/ Begin(d) \/ Cancel(d)
    \/ Remove
    \/ Crash

Spec == Init /\ [][Next]_vars

\* A task that can go on does, and select! takes either of two branches that
\* are ready, so that a cancelled token is seen in the end.
FairSpec ==
    /\ Spec
    /\ \A d \in Download : WF_vars(Work(d)) /\ SF_vars(Pause(d))

-------------------------------------------------------------------------------
(* Properties *)

\* A blob that counts as complete holds the bytes of its file in their places,
\* through pauses, crashes, ranges that are ignored and downloads that share it;
\* and the right ones, if the hub gave a hash (fetch_blob, fetch_once).
CompleteIsRight ==
    \A f \in File : Complete(f) =>
        /\ \A k \in 1 .. Size[f] : blob[f][k] \in {0, k}
        /\ f \in Hashed => blob[f] = Right(f)

\* "linked last, so `tiles run` never loads a half done snapshot": what the
\* snapshot links to is complete, and so is all of a download that links.
LinkedIsComplete ==
    /\ \A f \in linked : Complete(f)
    /\ \A d \in Download : task[d].at \in Linking \union {"done"} =>
          \A n \in DOMAIN Plan[d] : Complete(Plan[d][n])

\* The hasher has been fed what the part holds, so the end needs no second pass.
HashIsOfPart ==
    \A d \in Download : task[d].at \in {"stream", "verify", "rename"} =>
        task[d].hash = IF part[Now(d)] = None THEN <<>> ELSE part[Now(d)]

\* A download that is paused ends, whatever the server does and whoever holds
\* its lock: Job::pause awaits it and holds the job meanwhile.  And a download
\* ends by itself, where the server sends what it is asked for: the retries are
\* bounded though any progress resets them.
EveryDownloadEnds ==
    \A d \in Download :
        /\ cancel[d] ~> ~Running(d)
        /\ (\A n \in DOMAIN Plan[d] : Plan[d][n] \in Exact) => (Running(d) ~> ~Running(d))

\* Nobody has begun a download that shares a file with d.
Alone(d) == \A e \in Download \ {d} :
    runs[e] = 0 \/ \A n \in DOMAIN Plan[e], m \in DOMAIN Plan[d] : Plan[e][n] # Plan[d][m]

\* A download that shares no file with another that was begun fails only when
\* something went wrong outside of it, however often it is paused and begun anew.
\* (One that shares a file can meet the other's link: the system calls of link.)
FailsForAReason ==
    \A d \in Download : Alone(d) => (At(d, "failed") => trouble)

\* Downloads implement the abstract cache.
Cache == INSTANCE BlobCache WITH have <- {f \in File : Complete(f)}
ImplementsBlobCache == Cache!Spec

-------------------------------------------------------------------------------
(* The inductive invariant of the proofs (BlobFetchProof) *)

InPlace(c) == \A k \in 1 .. Len(c) : c[k] \in {0, k}
PartOf(f) == IF part[f] = None THEN <<>> ELSE part[f]

\* Whoever is past the lock of its file holds it, and nobody else holds one.
LockHeld ==
    /\ \A d \in Download : task[d].at \in Locked => holder[Now(d)] = d
    /\ \A f \in File : holder[f] # None =>
          task[holder[f]].at \in Locked /\ Now(holder[f]) = f

\* What is on disk is in its place, and what is renamed was verified.
DiskRight ==
    /\ \A f \in File : InPlace(PartOf(f))
    /\ \A f \in File : blob[f] # None =>
          Len(blob[f]) = Size[f] /\ InPlace(blob[f]) /\ (f \in Hashed => blob[f] = Right(f))

\* What the task that holds the lock knows of the part.
KnowsPart(d) ==
    /\ task[d].at \in {"request", "stream", "verify", "rename"} => task[d].hash = PartOf(Now(d))
    /\ At(d, "stream") =>
          /\ part[Now(d)] # None
          /\ task[d].pos = Len(task[d].hash)
          /\ task[d].kept <= Len(task[d].hash)
    /\ task[d].at \in {"verify", "rename"} => Len(task[d].hash) = Size[Now(d)]
    /\ At(d, "rename") /\ Now(d) \in Hashed => task[d].hash = Right(Now(d))

\* The files of the plan up to the one at hand are there.
PassedComplete(d) ==
    /\ task[d].n \in DOMAIN Plan[d]
    /\ Running(d) => \A n \in 1 .. task[d].n - 1 : Complete(Plan[d][n])
    /\ task[d].at \in Linking \union {"done"} =>
          \A n \in DOMAIN Plan[d] : Complete(Plan[d][n])

Inv ==
    /\ TypeOK
    /\ LockHeld
    /\ DiskRight
    /\ \A d \in Download : KnowsPart(d) /\ PassedComplete(d)
    /\ \A f \in linked : Complete(f)

\* A beginning of the file f.
Begins(c, f) == Len(c) <= Size[f] /\ \A k \in 1 .. Len(c) : c[k] = k

\* The link is as the task saw it.
LinkSeen(d) == /\ At(d, "unlink") => Now(d) \in linked
               /\ At(d, "symlink") => Now(d) \notin linked

\* While nothing went wrong outside, a part is a beginning of its file and nobody
\* has to retry; a download that is alone finds its links as it saw them.
Reasons ==
    /\ ~trouble => /\ \A f \in File : Begins(PartOf(f), f)
                   /\ \A d \in Download : task[d].at \notin {"retry", "sleep"}
    /\ \A d \in Download : runs[d] = 0 => At(d, "off")
    /\ \A d \in Download : Alone(d) => LinkSeen(d) /\ (At(d, "failed") => trouble)
=============================================================================
