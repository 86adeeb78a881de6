------------------------------- MODULE ChatSync -------------------------------
(***************************************************************************)
(* Chat sync between devices (tiles/src/core/chats.rs, core/network/mod.rs)*)
(*                                                                         *)
(* Every device keeps the chats of its own user and copies of its peers'   *)
(* chats in one SQLite database.  A chat carries a row_counter; the        *)
(* highest one a device holds of a user is the offset from which it asks   *)
(* for more.  Devices talk over a gossip topic per device ("tiles:<did>"): *)
(* one Listener process of the device owning the topic, and an Initiator   *)
(* process for every sync call of a peer.  What a process broadcasts       *)
(* reaches every other device subscribed to the topic: no message names a  *)
(* recipient or the call it belongs to.                                    *)
(*                                                                         *)
(*    initiator                               listener                     *)
(*        | -- SyncStart(lrc of listener's chats) --> |                    *)
(*        | <-- Delta(listener's chats, lrc of ours) - |                   *)
(*        | -- Delta(our chats, None) --------------> |                    *)
(*        | <-- SyncEnd ----------------------------- |                    *)
(*                                                                         *)
(* A delta travels as the hash of a blob that the receiver downloads.      *)
(***************************************************************************)
EXTENDS Integers, Sequences, FiniteSets

CONSTANTS
    Device,               \* devices, each known by the DID of its one user
    Initiator,            \* the sync calls: [dev, topic, try], see ChatSyncAssumption
    Saver,                \* the tasks of a device that save chats concurrently
    Session,              \* chat session ids
    MaxRows,              \* bound: MaxRows[u] is how many chats u writes
    MayRestart,           \* the devices whose daemon may stop and start again
    MaxDelta,             \* how many chats fit in MAX_DOWNLOADED_BYTES
    WriteFaults,          \* whether an insert can fail half way (disk full, ...)
    InitiatorStoreServed, \* whether the initiator's blobs can be downloaded
    None

ASSUME ChatSyncAssumption ==
    /\ Initiator \subseteq [dev : Device, topic : Device, try : Nat]
    /\ \A i \in Initiator : i.dev # i.topic
    /\ MaxRows \in [Device -> Nat]
    /\ MayRestart \subseteq Device
    /\ MaxDelta \in Nat
    /\ WriteFaults \in BOOLEAN
    /\ InitiatorStoreServed \in BOOLEAN
    /\ None \notin Nat /\ None \notin {"SyncSuccess", "SyncFailed"}

\* A process is the gossip loop of a device on a topic.
Listener == {[dev |-> d, topic |-> d, try |-> 0] : d \in Device}
Proc == Listener \union Initiator
IsListener(p) == p.dev = p.topic

VARIABLES
    rows,      \* rows[u]: the chats u saved on its device, in the order of their ids
    copy,      \* copy[d][u]: the chats of u in the chats table of device d
    sessions,  \* sessions[d]: the sessions table of device d
    saver,     \* saver[d][s]: the row counter a save in flight has read, or None
    call,      \* call[i]: the sync() call: its progress, and its caller channel
    inbox,     \* inbox[p]: gossip events the process has not read yet
    task,      \* task[p]: where the gossip loop of the process is
    store      \* store[p]: the blobs in the MemStore of the process

dbVars  == <<rows, copy, sessions>>
netVars == <<call, inbox, task, store>>
vars == <<rows, copy, sessions, saver, call, inbox, task, store>>

-------------------------------------------------------------------------------
(* Values *)

Row  == [rc : Nat, session : Session]
Blob == SUBSET (Device \X Nat)             \* a delta: chats by user and id
Opt  == Nat \union {None}                  \* last_row_counter: Option<i64>

Msg == [kind : {"SyncStart", "Delta", "SyncEnd", "SyncRejected"},
        from : Proc, lrc : Opt, blob : Blob]

\* at: "off" not subscribed, "joined" subscribed but the loop is not running,
\* "recv" awaits an event, "counter" and "reply" have one more database
\* operation to await before they broadcast, "apply" awaits ApplyDelta, and
\* "orphan" is an ApplyDelta whose loop was aborted while it awaited it.
Task ==
    {t \in [at : {"off", "joined", "recv", "counter", "apply", "reply", "orphan"},
           peer : Device \union {None}, lrc : Opt, blob : Blob] :
        t.at = "counter" => t.peer \in Device}

Call == [st : {"new", "joined", "waiting", "ok", "failed", "timeout", "lost"},
         event : {"SyncSuccess", "SyncFailed", None},
         mine : Nat, theirs : Nat]

Idle(at) == [at |-> at, peer |-> None, lrc |-> None, blob |-> {}]
Message(kind, p, lrc, blob) == [kind |-> kind, from |-> p, lrc |-> lrc, blob |-> blob]

TypeOK ==
    /\ rows \in [Device -> Seq(Row)]
    /\ copy \in [Device -> [Device -> SUBSET Nat]]
    /\ sessions \in [Device -> SUBSET Session]
    /\ saver \in [Device -> [Saver -> Opt]]
    /\ call \in [Initiator -> Call]
    /\ inbox \in [Proc -> Seq(Msg)]
    /\ task \in [Proc -> Task]
    /\ store \in [Proc -> SUBSET Blob]

-------------------------------------------------------------------------------
(* The chat store *)

\* get_last_row_counter: the highest counter device d holds of user u, else 0.
Watermark(d, u) ==
    LET counters == {rows[u][n].rc : n \in copy[d][u]}
    IN  IF counters = {} THEN 0
        ELSE CHOOSE c \in counters : \A e \in counters : e <= c

\* The chats past a counter, but for the first (a mutant of Delta).
DeltaOffByOne(d, lrc) == {d} \X {n \in copy[d][d] : rows[d][n].rc > lrc + 1}

\* get_delta of the user of device d: the chats of d past a counter.
Delta(d, lrc) == {d} \X {n \in copy[d][d] : rows[d][n].rc > lrc}

\* Only the session of the last chat (a mutant of DeltaSessions).
LastSession(blob) ==
    {s \in Session : \E row \in blob : /\ \A r \in blob : r[2] <= row[2]
                                       /\ rows[row[1]][row[2]].session = s
                                       /\ s \in sessions[row[1]]}

\* The sessions that fetch_delta_chats adds for the chats of a delta.
DeltaSessions(blob) ==
    {s \in Session : \E row \in blob : /\ rows[row[1]][row[2]].session = s
                                       /\ s \in sessions[row[1]]}

\* Rows that come newest first (a mutant of Prefixes: no order by id).
Suffixes(blob) == {blob} \union {{row \in blob : row[2] > r[2]} : r \in blob}

\* What is inserted of a delta when an insert fails: its rows are in the order of id.
Prefixes(blob) == {blob} \union {{row \in blob : row[2] < r[2]} : r \in blob}

\* save_chat inserts with the counter it read before: the two are not one
\* transaction, and each request has a connection of its own.
InsertRow(d, rc, s) ==
    /\ rows' = [rows EXCEPT ![d] = Append(@, [rc |-> rc, session |-> s])]
    /\ copy' = [copy EXCEPT ![d][d] = @ \union {Len(rows[d]) + 1}]

SaveReadCounter(d, s) ==
    /\ saver[d][s] = None
    /\ Len(rows[d]) < MaxRows[d]
    /\ saver' = [saver EXCEPT ![d][s] = Watermark(d, d)]
    /\ UNCHANGED <<dbVars, netVars>>

SaveInsert(d, s) ==
    /\ saver[d][s] # None
    /\ Len(rows[d]) < MaxRows[d]
    /\ \E sn \in sessions[d] : InsertRow(d, saver[d][s] + 1, sn)
    /\ saver' = [saver EXCEPT ![d][s] = None]
    /\ UNCHANGED <<sessions, netVars>>

\* save_first_chat: the session and its first chat in one transaction.  The
\* insert of the session takes the write lock, so the counter is fresh; the
\* session may exist already when two requests found it missing.
SaveFirst(d, s) ==
    /\ saver[d][s] = None
    /\ Len(rows[d]) < MaxRows[d]
    /\ \E sn \in Session :
          /\ \A e \in Device \ {d} : sn \notin sessions[e]   \* a session id is a uuid
          /\ sessions' = [sessions EXCEPT ![d] = @ \union {sn}]
          /\ InsertRow(d, Watermark(d, d) + 1, sn)
    /\ UNCHANGED <<saver, netVars>>

-------------------------------------------------------------------------------
(* The gossip topic *)

\* The processes a broadcast of p can reach: the other devices on its topic.
Audience(p) == {q \in Proc : q.topic = p.topic /\ q.dev # p.dev /\ task[q].at # "off"
                                                /\ task[q].at # "orphan"}

\* p broadcasts m, and is done with the head of its inbox (when consumed).
Broadcast(p, m, consumed) ==
    inbox' = [q \in Proc |-> IF q \in Audience(p) THEN Append(inbox[q], m)
                             ELSE IF q = p /\ consumed THEN Tail(inbox[q])
                             ELSE inbox[q]]

Consume(p) == inbox' = [inbox EXCEPT ![p] = Tail(@)]

\* p has a message of this kind to read.
Receives(p, kind) ==
    /\ task[p].at = "recv"
    /\ inbox[p] # <<>>
    /\ Head(inbox[p]).kind = kind

SetTask(p, t) == task' = [task EXCEPT ![p] = t]
AddBlob(p, b) == store' = [store EXCEPT ![p] = @ \union {b}]

-------------------------------------------------------------------------------
(* The sync() call of an initiator *)

\* subscribe_and_join, before the last row counter is read.
Join(i) ==
    /\ call[i].st = "new"
    /\ task[i].at = "off"
    /\ call' = [call EXCEPT ![i].st = "joined"]
    /\ SetTask(i, Idle("joined"))
    /\ UNCHANGED <<dbVars, saver, inbox, store>>

\* Reads the counter of the peer's chats, spawns the loop with a MemStore of
\* its own and broadcasts SyncStart.  mine and theirs are history variables:
\* what the two users had written when the sync started.
StartSync(i) ==
    /\ call[i].st = "joined"
    /\ call' = [call EXCEPT ![i].st = "waiting", ![i].mine = Len(rows[i.dev]),
                            ![i].theirs = Len(rows[i.topic])]
    /\ SetTask(i, Idle("recv"))
    /\ Broadcast(i, Message("SyncStart", i, Watermark(i.dev, i.topic), {}), FALSE)
    /\ UNCHANGED <<dbVars, saver, store>>

\* handle.abort(): the loop stops where it awaits; an ApplyDelta that the
\* database task has already been sent is still carried out.
Abort(i) ==
    /\ SetTask(i, IF task[i].at = "apply" THEN [task[i] EXCEPT !.at = "orphan"]
                  ELSE IF task[i].at = "orphan" THEN task[i]
                  ELSE Idle("off"))
    /\ inbox' = [inbox EXCEPT ![i] = <<>>]
    /\ store' = [store EXCEPT ![i] = {}]

\* The caller channel has an answer.
Return(i) ==
    /\ call[i].st = "waiting"
    /\ call[i].event # None
    /\ call' = [call EXCEPT ![i].st = IF call[i].event = "SyncSuccess" THEN "ok" ELSE "failed"]
    /\ Abort(i)
    /\ UNCHANGED <<dbVars, saver>>

\* A timer that runs in the loop (a mutant of Timeout).
TimeoutInLoop(i) ==
    /\ call[i].st = "waiting"
    /\ call[i].event = None
    /\ task[i].at = "recv"
    /\ call' = [call EXCEPT ![i].st = "timeout"]
    /\ Abort(i)
    /\ UNCHANGED <<dbVars, saver>>

\* The peer's endpoint is not found in time, or reading the delegations and the
\* counter, making the invocation or the first broadcast fails.
FailStart(i) ==
    /\ call[i].st \in {"new", "joined"}
    /\ call' = [call EXCEPT ![i].st = "failed"]
    /\ Abort(i)
    /\ UNCHANGED <<dbVars, saver>>

\* API_TIMEOUT passes without an answer.
Timeout(i) ==
    /\ call[i].st = "waiting"
    /\ call[i].event = None
    /\ call' = [call EXCEPT ![i].st = "timeout"]
    /\ Abort(i)
    /\ UNCHANGED <<dbVars, saver>>

-------------------------------------------------------------------------------
(* process_gossip_network_events: the loop of a process *)

\* A message is lost: gossip is best effort, and an error of a handler (the
\* download fails, the database or its task does not answer) is logged and the
\* loop goes on with the next event.
Lose(p) ==
    /\ task[p].at = "recv"
    /\ inbox[p] # <<>>
    /\ Consume(p)
    /\ UNCHANGED <<dbVars, saver, call, task, store>>

HandlerError(p) ==
    /\ task[p].at \in {"counter", "apply", "reply"}
    /\ SetTask(p, Idle("recv"))
    /\ UNCHANGED <<dbVars, saver, call, inbox, store>>

\* An Initiator ignores SyncStart, a Listener ignores SyncEnd and SyncRejected.
Ignore(p) ==
    /\ \/ ~IsListener(p) /\ Receives(p, "SyncStart")
       \/ IsListener(p) /\ (Receives(p, "SyncEnd") \/ Receives(p, "SyncRejected"))
    /\ Consume(p)
    /\ UNCHANGED <<dbVars, saver, call, task, store>>

\* on_sync_start_event, up to the ticket: the invocation verifies, and the
\* listener's chats past the initiator's counter become a blob.
ReceiveStart(p) ==
    /\ IsListener(p)
    /\ Receives(p, "SyncStart")
    /\ LET m == Head(inbox[p])
           b == Delta(p.dev, m.lrc)
       IN  /\ SetTask(p, [at |-> "counter", peer |-> m.from.dev, lrc |-> None, blob |-> b])
           /\ AddBlob(p, b)
    /\ Consume(p)
    /\ UNCHANGED <<dbVars, saver, call>>

\* The invocation does not verify: the delegation is missing, revoked or expired.
RejectStart(p) ==
    /\ IsListener(p)
    /\ Receives(p, "SyncStart")
    /\ Broadcast(p, Message("SyncRejected", p, None, {}), TRUE)
    /\ UNCHANGED <<dbVars, saver, call, task, store>>

\* on_sync_start_event, the rest: the counter of the initiator's chats, read
\* by a database operation of its own, and the broadcast.
SendDeltaInfo(p) ==
    /\ task[p].at = "counter"
    /\ Broadcast(p, Message("Delta", p, Watermark(p.dev, task[p].peer), task[p].blob), FALSE)
    /\ SetTask(p, Idle("recv"))
    /\ UNCHANGED <<dbVars, saver, call, store>>

\* The router of a device serves the blobs of its Listener's store only: an
\* Initiator's MemStore is its own.  A blob that is there already needs no download.
Downloadable(p, m) ==
    \/ m.blob \in store[p]
    \/ \E q \in Proc : /\ q.dev = m.from.dev
                       /\ IsListener(q) \/ (InitiatorStoreServed /\ q = m.from)
                       /\ m.blob \in store[q]

\* on_sync_send_delta_info: a delta is downloaded, and refused when too large.
\* The refusing Initiator leaves its loop and does not tell its caller.
RefuseDelta(p) ==
    /\ Receives(p, "Delta")
    /\ LET m == Head(inbox[p])
       IN  /\ Downloadable(p, m)
           /\ Cardinality(m.blob) > MaxDelta
           /\ AddBlob(p, m.blob)
           /\ SetTask(p, IF m.lrc = None THEN Idle("recv") ELSE Idle("off"))
    /\ Broadcast(p, Message("SyncRejected", p, None, {}), TRUE)
    /\ UNCHANGED <<dbVars, saver, call>>

\* A delta that fits is sent to the database task.
ReceiveDelta(p) ==
    /\ Receives(p, "Delta")
    /\ LET m == Head(inbox[p])
       IN  /\ Downloadable(p, m)
           /\ Cardinality(m.blob) <= MaxDelta
           /\ AddBlob(p, m.blob)
           /\ SetTask(p, [at |-> "apply", peer |-> m.from.dev, lrc |-> m.lrc, blob |-> m.blob])
    /\ Consume(p)
    /\ UNCHANGED <<dbVars, saver, call>>

\* apply_delta, in one transaction.  Rows and sessions that are there already
\* are skipped.  An insert that fails otherwise ends its loop only: what was
\* inserted before is committed and the operation succeeds.
ApplyDelta(p) ==
    /\ task[p].at \in {"apply", "orphan"}
    /\ \E R \in Prefixes(task[p].blob), S \in SUBSET DeltaSessions(task[p].blob) :
          /\ WriteFaults \/ (R = task[p].blob /\ S = DeltaSessions(task[p].blob))
          /\ copy' = [copy EXCEPT ![p.dev] = [u \in Device |->
                         @[u] \union {row[2] : row \in {r \in R : r[1] = u}}]]
          /\ sessions' = [sessions EXCEPT ![p.dev] = @ \union S]
    /\ SetTask(p, IF task[p].at = "orphan" THEN Idle("off") ELSE [task[p] EXCEPT !.at = "reply"])
    /\ UNCHANGED <<rows, saver, call, inbox, store>>

\* After the apply: with a counter the process answers with the chats of its
\* own user past it, without one it ends the sync.
Reply(p) ==
    /\ task[p].at = "reply"
    /\ \/ /\ task[p].lrc # None
          /\ LET b == Delta(p.dev, task[p].lrc)
             IN  AddBlob(p, b) /\ Broadcast(p, Message("Delta", p, None, b), FALSE)
       \/ /\ task[p].lrc = None
          /\ Broadcast(p, Message("SyncEnd", p, None, {}), FALSE)
          /\ UNCHANGED store
    /\ SetTask(p, Idle("recv"))
    /\ UNCHANGED <<dbVars, saver, call>>

\* A rejection reported as a success (a mutant of ReceiveEnd).
ReceiveAnyEnd(i) ==
    /\ Receives(i, "SyncEnd") \/ Receives(i, "SyncRejected")
    /\ call' = [call EXCEPT ![i].event = "SyncSuccess"]
    /\ SetTask(i, Idle("off"))
    /\ inbox' = [inbox EXCEPT ![i] = <<>>]
    /\ UNCHANGED <<dbVars, saver, store>>

\* SyncEnd and SyncRejected end the loop of an Initiator and answer its caller.
ReceiveEnd(i) ==
    /\ \E kind \in {"SyncEnd", "SyncRejected"} :
          /\ Receives(i, kind)
          /\ call' = [call EXCEPT ![i].event =
                         IF kind = "SyncEnd" THEN "SyncSuccess" ELSE "SyncFailed"]
    /\ SetTask(i, Idle("off"))
    /\ inbox' = [inbox EXCEPT ![i] = <<>>]
    /\ UNCHANGED <<dbVars, saver, store>>

\* The daemon of d stops and starts again: what is not in the database is lost.
Restart(d) ==
    /\ saver' = [saver EXCEPT ![d] = [s \in Saver |-> None]]
    /\ call' = [i \in Initiator |->
                   IF i.dev = d /\ call[i].st \in {"joined", "waiting"}
                   THEN [call[i] EXCEPT !.st = "lost"] ELSE call[i]]
    /\ inbox' = [p \in Proc |-> IF p.dev = d THEN <<>> ELSE inbox[p]]
    /\ task' = [p \in Proc |-> IF p.dev # d THEN task[p]
                               ELSE IF IsListener(p) THEN Idle("recv") ELSE Idle("off")]
    /\ store' = [p \in Proc |-> IF p.dev = d THEN {} ELSE store[p]]
    /\ UNCHANGED dbVars

-------------------------------------------------------------------------------
InitNet ==
    /\ saver = [d \in Device |-> [s \in Saver |-> None]]
    /\ call = [i \in Initiator |-> [st |-> "new", event |-> None, mine |-> 0, theirs |-> 0]]
    /\ inbox = [p \in Proc |-> <<>>]
    /\ task = [p \in Proc |-> IF IsListener(p) THEN Idle("recv") ELSE Idle("off")]
    /\ store = [p \in Proc |-> {}]

Init ==
    /\ rows = [u \in Device |-> <<>>]
    /\ copy = [d \in Device |-> [u \in Device |-> {}]]
    /\ sessions = [d \in Device |-> {}]
    /\ InitNet

Save(d, s) == SaveReadCounter(d, s) \/ SaveInsert(d, s) \/ SaveFirst(d, s)

\* A step of the loop of p, or of the database task it waits for.
Handle(p) ==
    \/ Ignore(p) \/ ReceiveStart(p) \/ SendDeltaInfo(p)
    \/ ReceiveDelta(p) \/ ApplyDelta(p) \/ Reply(p)

\* A step that keeps a sync from succeeding: loss, errors, refusals.
Fault(p) == Lose(p) \/ HandlerError(p) \/ RejectStart(p) \/ RefuseDelta(p)

CallStep(i) == Join(i) \/ StartSync(i) \/ ReceiveEnd(i) \/ Return(i)

Next ==
    \/ \E d \in Device, s \in Saver : Save(d, s)
    \/ \E p \in Proc : Handle(p) \/ Fault(p)
    \/ \E i \in Initiator : CallStep(i) \/ FailStart(i) \/ Timeout(i)
    \/ \E d \in MayRestart : Restart(d)

Spec == Init /\ [][Next]_vars

\* A call that has begun is driven by the daemon and by the timer of
\* tokio::time::timeout; nothing is assumed of the gossip loops or the peers.
Fairness == \A i \in Initiator : /\ WF_vars(StartSync(i) \/ FailStart(i))
                                 /\ WF_vars(Return(i) \/ Timeout(i))
FairSpec == Spec /\ Fairness


-------------------------------------------------------------------------------
(* Properties *)

\* No chat is skipped: the counter from which a device will ask for more of
\* a user's chats never passes a chat of that user that the device lacks
\* (get_last_row_counter is "the offset point for fetching the chat delta").
NoChatSkipped ==
    \A d, u \in Device : \A n \in 1 .. Len(rows[u]) :
        rows[u][n].rc <= Watermark(d, u) => n \in copy[d][u]

\* A copied chat is never without its session: the session travels in the
\* delta of its chats only, so it would not be sent again (fetch_delta_chats).
SessionsFollowChats ==
    \A d, u \in Device : \A n \in copy[d][u] : rows[u][n].session \in sessions[d]

\* A sync that reports success has moved, both ways, every chat that was
\* written when it started (sync() returns Ok, on_sync_send_delta_info).
SuccessMeansSynced ==
    \A i \in Initiator : call[i].st = "ok" =>
        /\ 1 .. call[i].theirs \subseteq copy[i.dev][i.topic]
        /\ 1 .. call[i].mine \subseteq copy[i.topic][i.dev]

\* A call that has begun comes to an end, whatever the loops and the peers
\* do, also when its loop exited without a word to it (API_TIMEOUT).
EveryCallReturns ==
    \A i \in Initiator : call[i].st \in {"joined", "waiting"}
                         ~> call[i].st \in {"ok", "failed", "timeout", "lost"}

\* Sync implements the abstract log: copies only grow, by catching up with
\* the log of a user from its start and without a gap.
Log == INSTANCE ChatLog WITH size <- [u \in Device |-> Len(rows[u])], held <- copy
ImplementsChatLog == Log!Spec

==============================================================================
