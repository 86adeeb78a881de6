# A verification project for Tiles

TLA+ models of [Tiles](https://github.com/tilesprivacy/tiles), checked with TLC
and, where it matters most, proved with TLAPS. In this text `chats.rs` is
`tiles/src/core/chats.rs`, `network` is `tiles/src/core/network/mod.rs`; other
paths are relative to `tiles/src/` unless they say otherwise.

## The system

Tiles runs language models on the user's machine. A daemon (axum, tokio) owns
all state; the command line, the REPL and the menu bar app are its clients over
HTTP. The daemon supervises two kinds of processes (the Pi agent and the
inference server), downloads models and engines in background jobs, and talks
to the user's other devices over iroh gossip and blobs.

| component | state | operations | talks to |
|---|---|---|---|
| Chat store and sync (`chats.rs`, `network`) | `chats`, `sessions` tables; per process: gossip events, a blob store, a database task; per call: a caller channel | save a chat, make a delta, apply a delta, the four messages of a sync, timeout | gossip topic of each device, blobs, SQLite |
| Linking and tokens (`core/account/local.rs`, `network`, `daemon/authz.rs`) | `tokens`, `users` tables on each device | create and add a token, link request, accept, reject, unlink, revoke, verify an invocation | gossip topic, UCAN library |
| Network lifecycle (`daemon/net.rs`) | `NetworkState` behind an RwLock | start, stop, status, link, sync | the listener process |
| Background jobs (`daemon/job.rs`) | a watch of the state, the running guard with its cancel token | start, pause, follow, pause when the follower leaves | SSE clients |
| Model downloads (`daemon/model/`) | one job per model and quant, the picked model | plan, start, run, pause, delete, select, status | blob fetching, config |
| Blob fetching (`utils/hf_model_downloader/`) | part, blob and lock files, snapshot links | fetch with resume, retry, check the hash, link | the hub, the disk, other processes |
| Inference server (`core/server.rs`) | pid file, lock file, the process | start, ping, stop | `server/backend` |
| Daemon lifecycle, sharing (`daemon/mod.rs`, `core/ui.rs`) | shutdown watch, remote share, UI child | serve, shutdown, share, unshare, supervise the UI | all of the above |
| Agent sessions (`daemon/agent.rs`, `daemon/session.rs`, `core/agent/pi.rs`) | the Pi child with reader and writer behind mutexes | start, prompt, stop, new session, save a chat | Pi, chat store |
| Engine install (`daemon/engine/`, `crates/tiles-engine`) | install job, engine directories | download, unpack, probe, fall back, pause, delete | GitHub releases |
| Accounts and Atmosphere login (`core/account/`, `daemon/atproto.rs`) | config file, `users`, `atproto_auth_data`, the login job | create, rename, log in, callback, cancel, log out | keyring, OAuth |
| Model server backend (`server/backend`) | the llama-server child, the loaded model | load, swap, stream, stop | llama-server |
| Menu bar app (`apps/menubar/src-tauri`) | tray, awake assertions, cached state of the daemon | poll, quit, keep awake | daemon |
| REPL, config, installer, modelfile parser | files | one user at a time | daemon |

What is hard in it: messages that name neither recipient nor call; several
loops of one device on one topic; a loop aborted while a database operation it
sent is still carried out; writes that fail in the middle of a transaction that
is committed anyway; two requests that read before either writes; jobs paused,
deleted and restarted while their task still runs; processes that crash between
writing a pid file and serving; restarts that lose everything but the disk.
`PROJECT.json` lists these under `hazards`, each at its line, with the
properties that would catch it.

What makes each component correct, in one line each:

- sync: the offset from which a device asks for more never passes a chat it
  lacks; a success that is reported has happened; every call returns.
- linking: a device accepts a request only under a delegation it gave and has
  not withdrawn, or whose code its own user has pasted back; both sides agree on being linked, or can be made to.
- jobs and downloads: at most one task runs per download; the state shown is the
  state of the job; nothing downloads into a folder that is removed; a snapshot is
  linked only when its files are complete; pausing and starting again never mixes bytes.
- engine: only a build that passed its check can run; replies keep an engine.
- inference server: one start or stop at a time over all daemons; no other program
  is signalled; a crash at any point leaves a state that the next start repairs.
- daemon: shutdown ends every child and every connection, once, the app before the
  ports; what a command reports is so.
- services: a request ends, and what it started has a handle in the state.
- agent: an answer is given to the request that asked for it.
- REPL: a turn is saved with the prompt it answers, and the chats of a session are
  one path.
- stay awake: sleep that Tiles turned off comes back.

## The modules

| module | what it is |
|---|---|
| `ChatLog` | what sync promises: every user writes a log, other devices hold a prefix of it and catch up without a gap |
| `ChatSync` | the chat store, the gossip topics, the sync calls and the loops |
| `ChatSyncInv` | the inductive invariants of `ChatSync`, and the conditions of the theorems |
| `ChatSyncProof` | theorems and proofs about `ChatSync` |
| `Linking` | the tokens table of each device, link codes, the link messages, revocation, and its inductive invariant |
| `LinkingProof` | theorems and proofs about `Linking` |
| `BlobCache` | what downloading promises: blobs appear whole, and only blobs that are there are linked |
| `BlobFetch` | the downloads of a repository, their part files, locks, hashes and links, and the inductive invariant |
| `BlobFetchProof` | theorems and proofs about `BlobFetch` |
| `ModelDownloads` | the download jobs of a repository's quants, their requests, the events client, and the inductive invariant |
| `ModelDownloadsProof` | theorems and proofs about `ModelDownloads` |
| `EngineChoice` | which engines suit a computer, as operators |
| `EngineInstall` | the install of an engine: job, folders, marks, fallback, and the inductive invariant |
| `EngineInstallProof` | theorems and proofs about both |
| `InferenceServer` | the Python server under its file lock, its llama-server, and the inductive invariant |
| `InferenceServerProof` | theorems and proofs about `InferenceServer` |
| `AgentCalls` | the one Pi of the daemon, the requests that use it, and the inductive invariant |
| `Repl` | `tiles run`: loading a model, the loop around a Pi, what is saved, and the inductive invariant |
| `AgentProof` | theorems and proofs about `AgentCalls` and `Repl` |
| `FaultBudget` | the faults of a behaviour, for the modules that count them together |
| `DaemonLife` | daemons, the commands that start and stop them, their app, and the inductive invariant |
| `ServiceCalls` | what the daemon's request handlers have in common |
| `NetworkSwitch`, `RemoteShare`, `SignIn`, `InferenceSwitch` | the network, the remote share, the sign in, and the app's switch of the inference server |
| `RemoteProxy` | what passes a share: a client, the proxies of peer and host, the server |
| `DaemonServices` | the five behind one router, their fairness and their properties |
| `StayAwake` | the app's session that keeps the machine awake, sleep with the lid closed, and the inductive invariant |
| `DaemonProof` | theorems and proofs about `DaemonServices`, `DaemonLife` and `StayAwake` |
| `MCChatSync`, `MCLinking`, `MCBlobFetch`, `MCModelDownloads`, `MCEngineInstall`, `MCInferenceServer`, `MCAgentCalls` | instances for TLC |

Some definitions stand directly before the action they vary and say "a mutant of": no
action uses them. Each is the action with a plausible mistake in it, under which a
property of the module fails in its run (`mutants` in `PROJECT.json`).

### ChatSync

**State.** `rows[u]` is what user `u` wrote, in the order of the ids (UUID v7),
each with its `row_counter` and session; `copy[d][u]` says which of them are in
the `chats` table of device `d`; `sessions[d]` is its `sessions` table. A row is
immutable in the code (nothing updates the `chats` table), so the content is
left out. `saver` holds what `save_chat` has read before it inserts. `call` is
`sync()` and its caller channel, `task` where the gossip loop of a process is,
`inbox` the events it has not read, `store` its `MemStore`.

**Processes.** A process is a gossip loop, `[dev, topic, try]`: the `Listener` of
a device is on its own topic, an `Initiator` on a peer's; `try` tells the calls
of one device to one peer apart. `Audience` is who receives a broadcast: every
process on the topic that is on another device. No message names a recipient.

**Atomicity.** One action is what the code does between two awaits that other
tasks can see: `ReceiveStart` ends where `fetch_last_row_counter` is awaited,
`SendDeltaInfo` is the rest; `ReceiveDelta` ends where `ApplyDelta` is awaited,
`Reply` is the rest. `save_chat` is two actions, since its read and its insert
are two statements without a transaction; `save_first_chat` is one, since
`create_session` takes SQLite's write lock before the counter is read.

**Faults.** `Lose` and `HandlerError` are the errors the loop logs and survives
(undecodable message, failed download, database error) and the loss of a gossip
message. `RejectStart` is an invocation that does not verify. `RefuseDelta` is a
delta beyond `MAX_DOWNLOADED_BYTES`. With `WriteFaults` an insert of
`apply_delta` may fail: `Prefixes` is what the code then commits. `Restart` is a
daemon that stops and starts again: the database stays, everything else is lost.
`Abort` keeps an `ApplyDelta` that was already sent (task state `"orphan"`).

**External.** Gossip (`Broadcast`, `Audience`) is best effort and keeps the order
of one sender's messages to one receiver; the models lose messages but do not
duplicate them, because every message carries a nonce and iroh drops a message
it has seen. Blobs are named by their hash: `Downloadable` says from which store
one can be had.

**Properties.**

- `NoChatSkipped`: the offset `get_last_row_counter` never passes a chat that the
  device lacks. This is the property everything else serves: an offset that
  passes a chat loses it silently and for good.
- `SessionsFollowChats`: a copied chat is not without its session, which would
  not be sent again.
- `SuccessMeansSynced`: when `sync()` returns Ok, what either user had written
  before the call is on the other device.
- `EveryCallReturns`: a call ends, whatever the peer does.
- `ImplementsChatLog`: the protocol implements `ChatLog`.
- `Inv`, `Exchanges` (in `ChatSyncInv`): the inductive invariants, for the proofs.

| run | question | result |
|---|---|---|
| `sync_one_call` | one call, three chats to fetch and one to send back, messages lost, deltas of more than two refused, both daemons may restart | success means synced, no chat without its session, the call ends |
| `sync_two_calls` | two calls, either in both directions or one repeated while the first is under way; inserts fail half way | no chat is skipped, `ChatLog` is implemented |

Two chats are enough for an offset to pass one and name another; two calls are
enough for one to meet what the other left (`TwoCallsMade` keeps `sync_two_calls` to
two of its three calls). `InitiatorStoreServed` is FALSE in the code, where no router
serves the `MemStore` of an initiator (`network:663` against `713-717`), so the second
half of a sync never arrives. The runs set it to TRUE, under which more can happen,
and the theorems hold for both values.

**Where the properties end.** Outside the assumptions of the runs the model, as the
code, behaves otherwise. These were found by TLC:

- Two savers at once: both read the counter before either inserts (`chats.rs:92`), two
  chats get one counter, and a delta taken between the inserts makes the offset pass
  the second.
- Two devices that call a third: a delta made for one is broadcast to the topic and applied by
  the other (`network:882`), which may lack what comes before it: a gap.
- A failing insert in `apply_delta` leaves the loop, what was inserted before is
  committed and Ok is returned (`chats.rs:265-270`, whose comment says that the sync
  is aborted), so `sync()` reports success for a delta cut short. The chats that are
  missing are sent again by the next sync; a session whose insert fails after its chats
  (`chats.rs:299`) is not, and `SessionsFollowChats` fails with `WriteFaults = TRUE`.
- A sync that has something to send back does not succeed with the store that `sync()`
  really uses: the peer cannot fetch the blob.
- A call repeated while the first is under way: `SyncEnd` names no call, and one call of
  a device takes that of another (`SuccessMeansSynced` fails with `Initiator <- Retry`).

**Fairness.** `FairSpec` assumes of a call only that the daemon goes on with it
and that `tokio::time::timeout` fires; of the gossip loop and of the peer it
assumes nothing.

**Deadlock** is not checked: calls and chats run out.

### Linking

**State.** `minted` is every UCAN delegation ever signed, named by its place (the
code names it by its hash); `held[d][<<i, a>>]` is the row of the `tokens` table of
device `d` for issuer `i` and audience `a`, of which the unique index
`did_aud_type` allows one. `shown` are the delegations given to a user as a link
code. `join[j]` is a run of `tiles link join`: the request that adds the code, then
`link_device` and `initiate_device_linking`, with the code and the reverse
delegation it sends. `up[d]` is `NetworkState::Started`; `request[d]` holds the
`LinkRequest`s on their way to the listener of `d`, `checked[d]` and `valid[d]` the
one whose tokens it has read and not yet acted on; `answer[j]` is what the gossip
loop of a join has received; `revoking[d]` the revocations between their two
DELETEs. `agreed`, `withdrawn` and `accepted` are history: no action reads them.

**Atomicity.** `FindReverse` and `CreateReverse` are two actions, for `create_token`
is awaited between them; so are `Check` and `Accept` or `Reject`, around the await
of the UCAN check; so are the two DELETEs of `revoke_token`, which have no
transaction. `tiles link join` is two HTTP requests, `JoinAdd` and what follows it.
The hand-over from loop to channel to caller is one step (`Answered`): nothing else
sees what is between.

**Faults.** `LoseRequest` is a lost or undecodable message; `Reject` also stands for
a listener that cannot read its keys or its database; `JoinFails` is a network
that is not started or a `create_token` or `subscribe_and_join` that fails;
`SyncMessage` is a sync broadcast on the topic, at which a loop started for
linking exits without a word; an answer may miss any of those who wait
(`receivers`); `Restart` keeps the tables only.

**Abstractions.** Only delegations of type `linked` (capability `All`) are modelled,
and they do not expire (a year in the code). The UCAN library is
`Verifies`: the proof is in the issuer's table and its audience signed the
invocation. The proof chain, DIDs and nicknames are left out. A broadcast does not come
back to the device that makes it (iroh-gossip, external), so a device that joins a code
of its own, which nothing keeps it from, gets no request and no answer.

**Properties.**

- `StaysWithdrawn`: a delegation that was replaced or revoked is not honoured again,
  whatever the peers still hold and send back, until the issuer's own user pastes its
  code on the issuer: that takes it out of `withdrawn`, and a later replacement or
  revocation puts it there again.
- `OnlyByAgreement`: devices are listed or honoured only where the user asked for it.
- `SuccessWasAccepted`: a join reports success only after a request of the device
  was accepted.
- `EveryJoinReturns`: link-device answers, whatever becomes of the loop.
- `Inv`: the inductive invariant, for the proofs.

**Run.** `link_agreement`: three devices, one join, three delegations, all faults, and
the daemon of one device restarts. `Codes` names who makes codes for whom: one device for
itself and for a second, the second for the first and for a third; any device joins any
of them. All the properties hold. Three delegations are
enough for a code, a second code that replaces it and a reverse delegation; three
devices are enough for a code to be pasted on the wrong one and for an answer to reach
a stranger. With one join no answer reaches another join: that case, in which `SuccessWasAccepted`
can fail, is for the theorem, which names its condition, and for the next list, as are
several joins at once in general.

**Where the properties end**, as found by TLC with other constants:

- The user of a device pastes one of its own codes on the device itself: `add_token` does
  not look at who issued it (`daemon/authz.rs:90`, `core/account/local.rs:610`), stores it
  in the place of the one that had replaced it, or anew after it was revoked, and the
  device honours it again. A join that is made with it signs a delegation from the device
  to itself, finds nobody to send it to and fails by its timeout; the device is listed
  among its own linked devices.
- A join that fails after its first request leaves the code in the table: the peer is
  listed as linked, while it cannot be revoked, since there is no delegation of one's
  own to withdraw (`core/account/local.rs:677`, `daemon/authz.rs:244`, `main.rs:452`).
- Two devices join the codes of a third at once: `LinkAccepted` names neither and is
  broadcast to the topic, so `SuccessWasAccepted` fails for the one whose request has
  not been looked at.
- Two joins of one device both make a reverse delegation; the second replaces the
  first, and the issuer may store them the other way round. One direction of the link
  then does not verify.
- One join at a time and no fault: both devices can reach each other in the end.

**Fairness.** `FairSpec` assumes that the daemon goes on with a link request, or
fails it, and that the sixty seconds pass; nothing of the peer or of the loop.

### BlobFetch

**State.** `blob[f]` and `part[f]` are the files of a blob in `blobs/`, `old[f]` what
hf-hub left of it (`.sync.part`), `linked` the links of the snapshot. `holder[f]` is
who holds the `flock` of its lock file. `task[d]` is where a download is: `at` the
await it is at, `n` the file of its plan, `hash` what its hasher has been fed, `pos`
where the server is in the file, `kept` how long the part was when it was opened,
`before` and `retries` the locals of `fetch`. `cancel[d]` is its token, `runs[d]`
counts how often it was begun (a bound), `trouble` is history.

**Content.** The right content of a file is `<<1, ..., Size[f]>>`; a byte that is wrong
or out of place shows as another number, so that mixing bytes of two answers, or
skipping some, can be seen. A hash is the content that was hashed: two contents have
one SHA-256 only if they are equal. `Hashed` are the files for which the hub gives a
hash; for others the length is all that is checked, and `CompleteIsRight` says what
that is worth. `Exact` are the files of which the server sends the range it is asked
for and no more; of others it may send all of the file, or too much.

**Atomicity.** One action is what a download does between two awaits that others can
see. Under the lock of a file only its holder touches the part, so `Measure` is
`file_len`, the removal of a part that is too long and the hashing of what is there;
`Answered` is the answer, the look at its status and the opening of the part. What
has no lock is split at each system call: `LinkLook`, `Unlink` and `Symlink` are the
three calls of `link`; `Look` and `Recheck` are before and after the lock.

**Faults.** `Breaks` is an error that is retried (connection, stalled or broken stream,
server error, 429), `StreamEnds` with too few or too many bytes another; `Refused` is
one that is not (a refusal, an error of the disk at any step under the lock), and may
leave up to `Buffer` received bytes unwritten; `DiskFails` is an error of the disk
elsewhere. With `Corrupts` a byte may arrive wrong. `Crash` is the daemon killed at any
point: the kernel drops its locks, and up to `Buffer` bytes of every writer are lost.
A loss of power, after which a file may have holes, is not modelled.

**The daemon.** `Begin` is `ModelDownload::start`, `Cancel` the first half of
`Job::pause`, `Remove` is `delete`. `delete` refuses while a quant it knows of runs,
and holds their locks; that a quant it does not know of may be begun meanwhile is
looked at in `ModelDownloads`.

**Properties.**

- `CompleteIsRight`: what counts as complete, by its length, has every byte in its
  place, and is right if the hub gave a hash.
- `FailsForAReason`: a download that shares no file with another fails only when the
  world failed, however often it is begun.
- `EveryDownloadEnds`: a download ends if its server keeps to the ranges, and one that is
  cancelled ends whatever the server does.
- `ImplementsBlobCache`: downloads implement `BlobCache`.
- `Inv`: the inductive invariant, with `LinkedIsComplete` and `HashIsOfPart`: for the proofs;
  `Reasons`: what it takes to prove `FailsForAReason`.

**Run.** `blob_fetch`: two quants share the mtp head, which has a hash; the first also
has a file of its own, without a hash, from a server that may ignore ranges. The
files have two bytes, so a part can be empty, begun, whole or (of the second) too
long; the first download is begun twice, the second once. `RETRIES` is 2 (5 in the code). All
the properties hold. Two bytes are enough for a part to be continued and for bytes to
be out of place, two downloads to wait for a lock and to find a part of the other.

Three observations are worth knowing though no run is kept for them.
`FailsForAReason` fails without its premise: two downloads that link a shared file at
the same time meet between the system calls of `link`, and one is reported as failed
with all its blobs in place (begun again, it succeeds); the comment in `fetch_blob`
and the test `a_file_another_download_holds_is_waited_for` mean such downloads to
work. `EveryDownloadEnds` fails for a server that ignores ranges and breaks off now sooner,
now later: every second attempt is progress over the part that the one before left,
which resets the retries, so they are not bounded. A file of size 0 cannot be downloaded: it is whole before there is a
part, and renaming the part fails.

**Fairness.** A download that can take a step does (`WF`), as tokio schedules tasks
that are ready; a server that sends nothing is ended by the timeouts of the client,
which is `Breaks`. `Pause` has strong fairness: the token is looked at together
with the chunk or the sleep in a `select!`, which polls its branches in a random
order, so a cancelled token that is seen again and again is taken in the end.

### ModelDownloads

**State.** One repository with its quants, numbered in the order of their names. `known` is the map `downloads`, `state[q]`
the watch of a job, `task[q]` the task in `running`, `lock[q]` who holds
`running`, `disk[q]` what `from_disk` would find, `picked` the model in the
configuration, `call[c]` a request, with the task that a pause has taken out of `running` (which is
how a task comes to be cancelled). `feed`, `lagged` and `shown` are the broadcast channel
of an events client and what it was last sent. What a task does to files is `BlobFetch`.

**Atomicity.** Each await of a request is a step: the lock, the look at the disk, the
start of the task, the wait for a paused one. A delete lists the quants it knows of
(`call[c].todo`), locks one after the other in their order (`IsNext`), removes the folder,
which may stop half way (`RemoveFails`), and sets one after the other idle. A client that leaves a followed download
pauses it (`Close`), for the `PauseOnClose` guard is disarmed only after the last state.
A client may also leave at any await of a handler (`Leave`): the handler is dropped and its locks with
it, and what it waited for goes on. That is the task of a pause, which no request sees any more
(`"stray"`: `TakenWork`, `TakenEnds`), and the removal of a delete in its blocking thread (`"sweep"`:
`Sweep`). A start may then begin a task beside the one, or into the folder of the other; `beside` has
the quants of the former. A pause that `PauseOnClose` spawned has no client to leave it.
`Restart` is a daemon that dies and is started again.

**Properties.** `DownloadsInv`: a state that says a download runs has a task behind it, in `running` or
taken out by a pause, dropped or not, so that a stream which follows it ends; and a task that is in
`running` or awaited shows as running, unless it was started beside one that a dropped pause left
(`TaskIsTold`). A task is the only one of its quant but for such a pair (`TakenTasks`). Nothing that is
in `running`, or awaited, downloads into a folder that is being removed with its locks held
(`NothingRunsUnderDelete`): the tasks of dropped pauses and the removals of dropped deletes are exempt,
since these do what the property rules out. With what it rests on, `DownloadsInv` is inductive. `CaughtUp`: an events client that has read
everything shows every unfinished download as it is, whatever it missed. `NoCircle`: no set
of requests wait for each other's locks.

**Run.** `model_downloads`: two quants of one repository, q4 and q8; one request is a pull, a delete or
a select of q8, the other a start or pause of q8, a status or a delete of q4; the events client watches
q8, through a channel of one change (`CHANGES_KEPT`), so that it falls behind at once. Two requests are
enough for each pair of handlers to interleave, two quants for a delete to hold one lock and wait for
another; a dropped pause beside a new task, and a dropped removal beside a download, occur in it.
2.7 million states. Safety only.

**Observations.** `Job::pause` takes the task out of `running` and then awaits it (`daemon/job.rs:68-70`),
and `delete` holds its guards over the await of a blocking thread (`daemon/model/download.rs:271`): a
client that leaves there drops the guards, though the comment on `lock` says that nothing else starts
meanwhile. After a dropped pause a start finds `running` empty, and two tasks of one quant are at work
(the file lock of `BlobFetch` keeps them from writing one part at once); the last state of the older
one, paused, stays over the newer one's until that tells its progress, and a stream that follows the
download ends there. After a dropped pause or delete a download may also go on in a folder that is removed.

`status` reads the disk before it stores the state and may overwrite Done
with a stale Paused (`daemon/model/download.rs:183-188`). `CaughtUp` says unfinished: after a
gap a download that became done is not sent again. `from_disk` says Done when the bytes are
there and the snapshot is not linked. `select` looks at the state, releases the lock and then
picks, while `delete` looks at the pick before it takes any lock: between them, the model that
chats use may be deleted.

### EngineInstall

**State.** `EngineChoice` translates `detect`, `choices`, `auto` and `engine_to_run` of
`crates/tiles-engine`: `Answers` is what the sources of a computer tell, `Nothing` a source
that does not answer. `dirs` are the engine folders, with the build they hold and whether it
passed its check (history), `staging` the one being unpacked, `files` the archives, `failed`
is `failed.json`, `pick` the configuration. `state`, `task`, `lock` are the job's: `task[None]` is the
install in `running`, `task[c]` the one that the pause `c` has taken out and cancelled;
its `todo` are the engines still to be tried, of which the first in the one order of the code
(`Rank`, `Foremost`) is the one being tried (`Now`), `picking` the lock of a pick. `beside` records
that an install or a delete has begun beside an install whose pause was dropped, or an install beside a delete.

**Atomicity and faults.** A step of the install is what lies between two awaits or two
changes of the disk: `Move` and each removal of `Sweep` are steps of their own, since `Crash`,
a daemon that dies and is started again, may come between any two. A download may fail or be
paused, a check may say no, a delete may fail half way. A client may leave at an await (`Leave`): a
pause that is dropped leaves its install at work (`Stray`), a delete its removal (`"left"`), and the
lock is free for the next request. The two installs, or the install and the delete, then share the
folders: `Fetched` needs the downloads folder, `Unpacked` may find the staging folder gone or make it again,
`Move` gives its own name to what is staged, `Sweep` and `DeleteDone` leave what was put there
after they listed it. That `failed.json` can be written is assumed.

**Properties.** `EngineInv`: one install is at work, and none while the folders are deleted
(`OneAtWork`), and what lies in an engine folder has passed its check (`OnlyChecked`), both until an
install or delete has begun beside what a dropped request left (`~beside`); a state that says an
install runs always has one behind it (`TaskIsTold`). With what these rest on, it is inductive.
`KeepsAnEngine`: only a delete leaves a computer without an engine, unless two installs were at work at
once. `Settles`: an install that nobody picked an engine for, and whose pause was not dropped, ends with
the one Tiles would run, so that none is offered again.

**Run.** `engine_install`: three computers (an NVIDIA card with driver 13, without the Vulkan loader; one of driver 12
that only the kernel tells of, without the Vulkan loader; a known card of another vendor),
so that each engine is the first, the second or no choice somewhere; two requests; one file
per engine; an older Vulkan build or none. 3.6 million states, in which installs run beside one another,
and beside deletes. Safety only.

**Observations.** `Job::pause` and `Engines::delete` await with the lock held, and free it when their
client leaves (`daemon/job.rs:68-70`, `daemon/engine/install.rs:362-373`). A second install may then run
beside the first, or beside a delete, in one staging folder: what one unpacked and did not check
may be moved into place by the other, and two that sweep at once may each remove the engine of the other, after
which the computer has none.

A start chooses its list before it takes the job's lock, so an install may
try, and install, what the one before has marked as failed (`Settles` leaves that engine's
mark out). Between the move and the sweep two engines of one build are there, and
`installed` may find either. A build that installs does not clear its older mark.

### InferenceServer

**State.** `proc[p]` is what the process `p` is, `file` the pid file, `foreign` another
program on the port, `flock` and `call[c]` the starts and stops, of two daemons. Inside a
Python server: `llama[p]` its llama-server, `loaded[p]` the model it thinks it runs, `ensure[p]`
its `_ensure_lock`, `req[r]` the requests for a model. Time does not show: every timeout may
pass at any time, and a ping may go unanswered (`"slow"` in `Faults`).

**Atomicity and faults.** The read of the pid file and its removal are two steps, as are
signal, wait, kill and clean up, and a server's bind, the write of its file, the end of its
llama-server, its exit and its removal of the file. `Crash` kills a server at any point and
leaves its llama-server behind; `DaemonDies` ends the daemon's calls and frees its lock;
`Reuse` gives a pid to another program, which is excluded while a stop waits for just that
pid. `Init` may have a pid file left over from before.

**Properties.** `ServerInv`: no other program is ever signalled, one start or stop runs at a time,
and what a server thinks is loaded is what its llama-server was started for; it is inductive.
`StopMeansStopped`:
when a stop has waited, the process is gone, and so is the llama-server of one that had to be
killed. `ReadyIsLoaded`: when a model is reported ready it is the one that answers, unless
another server's llama-server is still there.

**Run.** `inference_server`: two pids, two callers of two daemons, two requests for two
models, all faults. Two of each are what it takes for a stop to meet a start, and for a second
server to meet the first's leftovers. `SYMMETRY` permutes requests and models, which no
definition orders; the properties are safety.

**Observations.** A stop during a start answers that nothing runs, and the server comes up. A
stop that reads the file of a server that is gone may remove the file of a newer one between
its two steps (`core/server.rs:265`); that one cannot be stopped any more. The llama-server of
a crashed Python server keeps the port and answers `/health` for the next one's, which is the
premise of `ReadyIsLoaded`. Replies are streamed after `_ensure_lock` is released, so another
model may be loaded under a reply.

### AgentCalls

**State.** `agent` is `AppState.agent` with Pi's model, session, what it works on and its two
pipes (`in`, `out`), `agentModel` the name that messages are saved with, `picked` the model of
the configuration, `queue` the agent's mutex, which tokio hands over in order, `calls[c]` a
request: where it is, what it wants, the line it holds, the channel to its client.

**Atomicity and faults.** Each await is a step: a line read, a line sent into the bounded
channel, a command written, its answer read. A client may leave at any of them (`ClientLeaves`):
its prompt's task sends an abort and reads on to the end of the reply, under the mutex. Pi may
print a line that does not parse, answer too late, die or not start; each is counted by `Faults`.

**Properties.** `AgentInv`, which is inductive: a Pi that is there is the one whose name is saved
(`ModelIsThePis`), commands lie only with a Pi that is there (`InputNeedsPi`), the mutex has one
holder, and what asks or reads has it (`OneAtATime`), each kind of request takes its own steps
(`StepsFit`), what is in the pipes was written by a request of its kind (`LinesAreOfCalls`), what
is under way of a reply is of the prompt that has the mutex, as long as none was given up half
way (`ReplyIsRead`), and a session that is being made is the last thing in the pipes, a session
that was made the only one (`SessionIsMade`). `OwnReply`: a client is sent the reply to its own prompt. `SessionIsNew`: a session that
is handed out is the one Pi is in, nobody else's, and nothing of an older reply is left in the
pipe for it. `EveryCallEnds`.

**Run.** `agent_calls`: three requests of any kind, a channel of one line (32 in the code), so
that sends have to wait, two models and two faults. Three requests let one leave something in
the pipe, a second pass it on, and a third receive it.

**Fairness.** Handlers go on, clients that stay read, and a live Pi reads its commands and ends
its replies.

**Observations.** `OwnReply` has a premise: a reply given up at a line that does not parse (the
call ends `"broken"`) leaves its rest in the pipe, and later prompts are sent it until a new session. A client that
leaves while `agent_settled` is held for it leaves a task that drains a Pi with nothing left to
say, with the mutex (`Stuck`, exempted in `EveryCallEnds`): every later call waits for ever.
`end_session` takes the mutex, so it cannot stop a reply that runs, contrary to the doc
of `handle_graceful_exit` (`core/agent/pi.rs:93`). A dead Pi is replaced only when another
model is picked. Prompts name no session.

### Repl

**State.** `pc` is where `tiles run` is (loading, downloading, reading the user or Pi, saving),
`repl` its `ReplSession`, `pi` the Pi of its own with both pipes, `interrupted` the flag of the
Ctrl-C handler, `ended` the turn being saved, `chats` and `snapshots` the database, `cache` the
model on disk.

**Atomicity and faults.** A line of Pi is a step; the three statements that save a turn are three
(`SaveUser`, `SaveReply`, `SaveSnapshot`), each of which may fail. The user may press Ctrl-C at
any time, resume a session, and start `tiles run` again. Pi may err, retry, print junk or die;
loading and downloads may fail.

**Properties.** `ReplInv`: the chats of a session are one path, across resumes, failures and runs
(`OnePath`), and a snapshot is of its own session's saved turns (`SnapshotIsOfItsSession`); with why:
the REPL appends to the end of its session (`AppendsToTheEnd`), and one exchange with Pi at most is
under way (`AnswerIsTheNext`).
`AnswersWhatWasAsked`: while Pi and the REPL are in step, the saved turn is the one the user waits
for, and at the input the level that is shown is Pi's, if it is one Tiles knows. `EveryWaitEnds`: loading ends, and every wait for Pi.

**Run.** `repl`: three inputs, two runs, two of the faults, each once. Two inputs make a
conversation, the third comes after a fault or a resume.

**Fairness.** The process goes on and a live Pi works; nobody has to type.

**Observations.** Ctrl-C is seen with the next line, which is dropped unread (`repl.rs:460-467`):
if it is the `agent_end` that the comment at `repl.rs:504` wants processed, the loop waits for a
line that does not come (`Hung`, exempted), and the turn is not saved. A Pi that retries after an
error prints two `agent_end`, and from then on the REPL is one reply behind (`InStep`). Resuming
an unknown session panics. Pi may report a level Tiles does not parse (one its model clamps to): at
the start the REPL then shows `low` (`repl.rs:227`), later what it showed before (`repl.rs:711`), and
nothing is persisted. Errors that leave the loop, and a dead Pi, leave the inference server
running. That one process at a time writes to a session is assumed.

### DaemonLife

**State.** `commands[c]` is a command (`start` or `stop`), `daemons[d]` a daemon process: its phase,
its two listeners, how many `shutdown_all` run in it and how far they are, and the supervisor of
`core/ui.rs` with its two permits; `apps[a]` the copies of the menu bar app, of which one is
started by hand.

**Atomicity.** A ping, a POST and a poll of a command are steps, and each reaches whatever daemon
listens then. The parts of the teardown before the app (agent, server, network, share) are one
step, `Worked`.

**Faults.** Crashes of daemons and apps, signals, a launch that fails, and the user quitting or
launching the app, at any step, `Faults` of them.

**Properties.** `LifeInv`: one daemon answers, one app shows, and a daemon closes its ports only after
its app is gone (`ClosedInOrder`); with what a supervisor and a command may rely on (`Supervised`,
`CommandsRight`). `OkMeansSo`: what a command reports is true when it reports it. `NoRelaunch`: a
stopping daemon does not launch its app again. `EverythingSettles`: commands return, daemons that
were asked to stop exit, and the daemon that serves has its app shown.

**Run.** `daemon_life`: two commands, an old daemon or none, three daemons at most, one ping after
a spawn (five in the code), two faults. A start that replaces a daemon while another command does
the same needs two commands and three daemons.

**Fairness.** Each process that can take a step of its own takes it; timeouts pass, faults and the
user need not act.

**Observations.** The teardown may take 25 s in all (5, 5 and 10 before the app, 5 for it), longer
than `DAEMON_STOP_TIMEOUT` of 20 s: a stop may fail though the daemon then ends. Of two daemons that
start at once one may take the web UI's port and the other the API's: the first ends, and the second
serves without the web UI until it is restarted. A start whose POST reaches a newer daemon than
its ping stops that one. The check of the version is `!=`, so an older command replaces a newer
daemon. A launch of the app that fails ends the supervisor for good (`sup = "off"`).

### DaemonServices

`ServiceCalls` is what handlers share: a request arrives, goes from await to await, and is dropped
where it stands if its client leaves. The services share no state, so `DaemonServices`
composes them by choosing one in `Init`: a behaviour is about the requests to one of them.

- `NetworkSwitch` (`daemon/net.rs`): `network` is the state behind the RwLock, whose queue
  (`netLock`) is fair, `nets[c]` the network that request `c` started. `start` holds the lock until
  the confirmation.
- `RemoteShare` (`daemon/mod.rs`, `remote.rs` of the app): `remote` are the ticket, the flag and the
  sender under their three mutexes, stored in three steps; `loops[c]` the loop that accepts peers for
  share `c`; `panel` the app's switch, with its request and its poll.
- `RemoteProxy` (`share` and `connect` of `network`): one client of the peer's listener. `pipes` are
  the six directions of its connection, of the stream between the devices and of the connection to
  the server, each with what is in it, its end and whether it is still read; `copies` the four
  `copy` futures, `proxies` the two tasks that `select!` over them. A part of a request or a reply
  is counted, not told apart (`Parts`).
- `SignIn` (`daemon/atproto.rs`, `core/account/atproto.rs`): `slot` and `signLock` are the login in
  `AppState` and its mutex, `tasks[c]` the task of a login, `port` who listens for the browser,
  `browser` the callbacks on their way, `accounts` the table. The browser may come back for any url,
  at any time, or never.
- `InferenceSwitch` (`inference.rs` of the app): `server` is the inference server with four states
  (`InferenceServer` says more), `switch` what the app shows and still wants, `poll` the
  supervisor's poll, `turn` the one start or stop in flight, `asked` the last tap and what came
  across it (history), `poll.during` the starts and stops in flight since the ping (history).

**Properties.** `Inv`: the network that runs is the one the state names, so that a stop reaches it;
one sign in stands. `OwnAuthorization`: an account is logged in by its own authorization only.
`EveryRequestEnds`: so does every request, and what it started but the network and the share.
`ServicesSettle`: in the end no endpoint accepts peers but the one whose sender the state holds, the
panel shows what the daemon says, and the server is as the last tap asked; once the server behind a
share has closed, both proxies end, and the client has its whole reply (`ProxySettles`).
The server need not be as the last tap asked in the cases that `Excuses` names, each a fact that is recorded
when it happens, whatever comes of it: the poll that took the tap for settled had pinged before
the opposite start or stop ended, or before the server did (`"ping"`); the app gave the tap up after 45 s
or lost the daemon (`"given up"`); the server ended by itself (`"died"`); for an Off, some start timed
out (`"timeout"`).

**Run.** `daemon_services`: three requests to one service, two faults, two accounts; a request and a reply
of two parts through the proxies. Two requests race; the third meets what they left. Two parts are
enough for one to arrive and one to be still on its way when something ends.

**Fairness.** Handlers, tasks, the panel's timer and the server go on; requests, faults, the browser
and the user need not.

**Observations.**

- `stop_network` leaves the handles in the state, so link and sync go on using a network that has
  stopped (`daemon/net.rs:150`). A client that leaves between the confirmation and its receipt leaves
  a network up that no stop reaches (`daemon/net.rs:110`, exempted in `NetworkIsKnown`). A start right
  after a stop overlaps the closing of an endpoint with the same key.
- Two shares at once pass the check: the ticket of one and the sender of the other may remain. An
  unshare while a share awaits its endpoint leaves the machine shared. The accept loop may end by an
  error and leave `remote_running` true. Connections outlive the unshare. That `endpoint.online()`,
  which has no timeout, ends is assumed.
- A server that answers and closes before it has read the whole request: the host's task ends with
  the reply and drops the stream, the peer's copy of the request fails on it, and that ends the
  peer's `select!` though its reply may not be copied yet: the client sees it cut short
  (`network:1175-1184`). `ProxySettles` is about servers that read the whole request.
- A callback for an older url ends the sign in that listens now, with an error. The write of a logout
  may undo a newer sign in. The exchange with the account's server has no timeout; that it ends is
  assumed.
- An ask of the switch may be dropped before the server agrees, contrary to the comment at
  `inference.rs:168-172` of the app. No fault is needed: the poll pings a server that is up, the user taps
  Off and, while the server stops, On; the poll goes by its older ping, takes the On for settled, and the
  server stays down. So does an On that is tapped before the Off has reached the daemon. Likewise an
  Off while a start takes longer than `READY_TIMEOUT`, or after a start that timed out, is settled by a
  server that still boots, which then comes up. The property exempts both, by the facts above, since in the
  code it is false there.

### StayAwake

**State.** `off` is `SleepDisabled` and whose it is, `marker` the file that tells of it, `sentinel[n]`
the helper process of each launch, which resets the setting when the app's end of a pipe closes,
`orphans` the `pmset` processes that outlive the app, `app` the launch that is up, `held` what it holds
(caffeinate, the lid, the session), `work` how far its worker is, `powered` the power source.

**Atomicity.** A pass of the worker is cut at each touch of the Mac: the marker, the spawn, `pmset`,
the wait for the sentinel. Commands and the power change in between.

**Faults.** `AppKilled`, `SentinelDies`, `Reboot`, a `pmset` or spawn that fails, and a setting
changed from outside (`OtherSets`).

**Properties.** Two things that the code does not survive are kept in the history `amiss` and named by
the properties: `"cut"`, an app was killed while its own `pmset` turned sleep off, and `"overlap"`, an app
was launched while a sentinel or a `pmset` of the one before still ran. `AwakeInv`: in histories with
neither, sleep that Tiles turned off is marked at all times, for the next launch and the boot guard to
find it (`NeverStranded`); and while nothing fails a lid the panel says is held is held (`HeldHolds`);
with why (`MarkedFirst`, `LetsGoFirst`). `SleepComesBack`: after one fault at most that is no `"cut"`,
sleep is off in the end only for a session that runs. `FollowsSession`: caffeinate and the hold follow
the session.

**Run.** `stay_awake`: three launches, four commands or changes of power, three faults. A launch that
arms, a second that finds its marker and a third that finds the second's leftovers are three.

**Fairness.** The worker is woken by every tick, sentinels and `pmset` run on.

**Observations.** One kill can leave sleep off for good, contrary to the comments at `lid.rs:2` and
`lid.rs:217`: the app is killed while its `pmset ... 1` runs (`TurnOff` not done, `"cut"`), the sentinel
resets the setting and removes the marker, and the orphaned `pmset` lands last (`OrphanEnds`). No marker,
no sentinel and no app is left that would turn sleep on again. The specification reaches this state;
both properties above exempt the histories with such a kill, because in them they are false. A launch
that overlaps the reset of the one before may lose its marker (`"overlap"`, exempted in `NeverStranded`
only). A setting of another program that was made while the hold was on is reset with it.
The display that stays lit when the lid was opened and shut between two passes is left out.

## What is proved

`ChatSyncProof` proves, for every number of devices, chats and calls unless said
otherwise:

- `TypeCorrect`: `Spec => []TypeOK`. It needs `TInv`: that `Watermark` is a number
  rests on every counter being at most the number of chats (`CountersBounded`)
  and on copies and deltas naming chats that were written.
- `NeverSkipped`: `Spec => []NoChatSkipped`, for devices with one saver each
  (`OneSaver`) that are called by at most one other, any number of times
  (`OneCallerPerTopic`, which any two devices satisfy).
- `SyncImplementsLog`: `Spec => Log!Spec`, under the same assumptions.
- `SessionsComeWithChats`: `Spec => []SessionsFollowChats`, for any savers and calls, if
  no insert of `apply_delta` fails half way (`WholeWrites`).
- `SuccessIsSynced`: `Spec /\ [][StartsSilent]_vars => []SuccessMeansSynced`, under the same
  assumptions and if no insert fails half way. A device may be called any number of times;
  `StartsSilent` says that each call starts when the ones before it have left nothing on the
  topic: no loop of another call runs, no message waits, the Listener works on none.

The assumptions are needed: two callers of one device, two savers, a failing insert and a
call repeated too soon have the counterexamples above. The inductive invariant `Inv` says what a message
or a task promises the one that will use it: a delta addressed to a device has no
gap beyond what that device *holds already* (`Fits`), and the counter in a message
is one its sender *has reached* (`Holds`). Both are monotone in the copies, which
never shrink, so a promise survives every interleaving, delay and retry
(`PromisesKept`); this is the heart of the proof. That a broadcast reaches only
the peer it was made for is where one caller is needed (`OnePeer`, `InvLoop`); that a
counter is the next one is where one saver is needed (`InvSave`). `InvApply` shows
that a delta cut short by a failing insert still fits, because rows come in the
order of their ids.

`SessionsFollowChats` is inductive with what a device says of its own chats
(`OwnChatsHeld`), once `fetch_delta_chats` is known to read the sessions of its rows.
`SuccessIsSynced` needs that the parties tell each other how far the exchange is.
`Exchange` says it of every place where something may lie: a delta brings what its receiver
lacked when the call began, a delta that comes back means that the host has what the
caller had, and `SyncEnd` means both (`Told`). Whose message it is, no message says; so one
loop at a time may run on a topic (`OneRunning`), and it must not find what another has left.
This is a condition on when the user syncs again, which the code does not check: a call that
follows a timed-out one too soon can report a success it has not had (see the behaviours above).

`LinkingProof` proves, for any set of devices and joins, any number of delegations
and any `MayRestart`, and from `LinkingAssumption` alone:

- `LinkingInvariant`: `Spec => []Inv`;
- `LinkingTypes`, `WithdrawnForGood` and `AgreedOnly`: `[]TypeOK`,
  `[]StaysWithdrawn` and `[]OnlyByAgreement`, which are parts of `Inv`;
- `AcceptedWhenSuccessful`: `Spec /\ []OneJoinerPerIssuer => []SuccessWasAccepted`, about the
  behaviours in which no two other devices ever have a join with one issuer. An answer names no join
  (see above); what is inductive is that one that was heard, or believed, is about a join
  of the same device (`AnswersRight`).

`StaysWithdrawn` is not inductive: a device stores delegations in four places, and
must be known to store of its own only fresh ones and those its user has pasted back.
`RowsRight` says that a row holds a delegation between the devices it names, `JoinRight`
that a reverse delegation was issued by the joining device or the code's audience,
`SentTo` that a request lies with the issuer of its code, which is not who joins. So what
`Accept` stores was issued by another device (`AddKeeps`), what `Create` and
`CreateReverse` store has a new name (`MintKeeps`), what `JoinAdd` stores is withdrawn no
more, and all are instances of one fact about a write of the table (`StoreKeeps`).

`BlobFetchProof` proves, for any downloads, plans, sizes, servers, buffers and number
of crashes, from `BlobFetchAssumption` alone:

- `InvHolds`: `Spec => []Inv`;
- `TypeCorrect`, `CompleteBlobsAreRight`, `LinkedBlobsAreComplete` and
  `HashesAreOfParts`: `[]TypeOK`, `[]CompleteIsRight`, `[]LinkedIsComplete` and
  `[]HashIsOfPart`;
- `DownloadsImplementBlobCache`: `Spec => Cache!Spec`;
- `FailuresHaveAReason`: `Spec => []FailsForAReason`, if no file is empty (`NoEmptyFile`: an
  empty file cannot be downloaded, see above).

`CompleteIsRight` is not inductive: a blob is a part that was renamed, so the part must
be in place (`DiskRight`), and what was hashed must be what is in it (`KnowsPart`), at
every point between measuring and renaming. That nobody else writes the part meanwhile
is the lock (`LockHeld`): `LockKeeps` shows that a step releases or takes one lock only,
`OthersKeep` that what a download knows of its part survives the steps of others, and
`StepKeeps` that a step keeps the invariant if it keeps what concerns its own file;
each action is then an instance. `CutFacts` shows that what a crash leaves of a part
is a beginning of it. Complete blobs are never lost but by `Remove`, which runs alone;
this is why a download that links has passed all of its files (`PassedComplete`).

`FailsForAReason` needs more than `Inv`: what a failure can come from. `Reasons` says that while
nothing went wrong outside, every part is a beginning of its file and no task is at a retry, so a
hash that is wrong (`WholeIsRight`, `VerifyReasons`) and retries that are used up had a reason; and
that a download that is alone with its files finds their links as it saw them, so that
`Unlink` and `Symlink` do not fail. The premise is used in `ReasonsKeep`: a step of another
download that was begun concerns another file.

`ModelDownloadsProof` proves, for any number of quants, any requests and any channel, from
`DownloadsAssumption` alone, `[]DownloadsInv` (`InvHolds`), `[]TypeOK`, `[]CaughtUp` and `[]NoCircle`:

- That nothing downloads under a delete is inductive with what a delete knows of the locks it
  holds: their quants are not running, for only a request with the lock starts one
  (`LocksAreHeld`), a task that a pause took out is awaited with the lock or left by it (`TakenTasks`), and what it has still to lock comes later in the order. `ElsewhereHolds`
  shows that a step of one request leaves what another knows; `DeleteStep` has the steps of the
  delete itself.
- `CaughtUp` is about an empty channel; what is inductive is `ChangesAddUp`, about a channel with
  anything in it: the last change of a quant that is still on its way is the state it has now.
  `SetAddsUp` shows it for a change that is sent, also when it pushes an old one out.
- `NoCircle` follows from `DownloadsInv` without induction. Of a set of requests that wait for each other,
  those that hold a lock and wait for another are deletes (a request that waits for its first lock
  holds none), and each waits for a quant beyond all it holds: the one that waits for the last
  quant of all waits for a holder outside the set.

`InferenceServerProof` proves, for any pids, callers, daemons, models and requests, from the
module's assumption alone, `[]ServerInv`, `[]TypeOK`, `StopMeansStopped` and `ReadyIsLoaded`. That a
stop signals no other program (`StopsOurs`) rests on what a pid can become while a stop has it:
`PidsStay` says that a step turns a pid of ours into an ended one at most, `ServeTurn` that only the
holder of the file lock takes a step of a start or stop. `ReadyIsLoaded` rests on the request that
waits having the lock of its server (`RequestsAreServed`), so that what it compared or spawned is
still what is loaded (`LoadedIsRunning`).

`EngineInstallProof` proves, for any callers, requests and numbers of files and on every computer
that can be detected, from `EngineAssumption` alone, `[]EngineInv`,
`[]TypeOK`, `KeepsAnEngine` and `Settles`:

- That an engine folder holds a checked build rests on what the staging folder holds at each
  point of the install (`OnlyChecked`, `OwnChecked`), and on nobody else touching it (`OneAtWork`): a
  start and a delete look at `running` under its lock, and an install that a pause took out of it is
  awaited under that lock or left, and then what begins beside it is recorded (`LocksAreHeld`,
  `RequestStep`).
- `KeepsAnEngine` follows: the folder of the new engine is there before the others are removed.
- `Settles` needs that the engines still to be tried are, but for those that failed, all that suit
  the computer (`TriesAll`), from the choice of a start to the last step of its install, while
  other installs mark what fails (`GoodStays`, `TodoStays`). `AutoTriesAll` is the fact about the
  choice that this begins with: what comes after the engine that is chosen and can run suits the
  computer as well, so trying the rest in order loses none.

`AgentProof` proves of `AgentCalls`, for any number of requests, any models, faults and any channel,
from the assumptions on the constants alone, `[]AgentInv`, `[]TypeOK`, `[]OwnReply` and `SessionIsNew`:

- A step advances, ends, queues or begins one call, or none (`TurnSteps`); from this the mutex
  keeps its one holder (`TurnKeeps`) and what has written stays so (`WrittenStays`).
- A client is sent its own reply because the pipes hold one reply at most. `Whole` says it of the
  pipes alone: a prompt in the one, Pi's work, and what is printed in the other belong to the
  prompts that are `Live`, and the last line is the last. One lemma has each thing that may happen
  to a pipe (`WriteWhole`, `TakeWhole`, `StartWhole`, `PlainWhole`, `EventWhole`, `LastWhole`,
  `ReadWhole`, `LastRead`); an action is two or three of them. A cancelled prompt stays live until
  it has drained the last line, which is why the drain is needed.
- `SessionIsNew` holds without that premise. A new session is asked for last, so its answer comes
  last, and what an older reply left is skipped before it (`Asked`); then the only line in either
  pipe is the question about that session or its answer (`Told`), and only that answer ends the
  call well (`OnlyStateRead`). That Pi's new session is nobody's is `FreshFacts`, by counting.

`DaemonProof` proves of `DaemonServices`, for any number of requests and faults and any accounts, from
the assumptions on the constants alone, `[]Inv`, which holds `TypeOK`, `NetworkIsKnown` and
`OneSignInStands`, and `[]OwnAuthorization`. `ServicesInv` is inductive: the service that a behaviour is
about keeps its invariant, the others are as they began.

- The network is known because a start that creates or waits for one holds the lock and no other
  runs meanwhile (`NetInv`). For that a request that leaves the queue, wherever it stands, must
  leave another at its head (`WithoutFacts`, `QueueKeeps`); `NetStepKeeps` then says what a step
  of one request owes the others.
- One sign in stands because whoever awaits the one it replaces holds the mutex, with the slot
  empty (`SignInv`). `OwnAuthorization` rests on the exchange: what is saved was the task's own
  (`OwnStays`). The end of a task is one lemma for the six actions that may end it (`FinishKeeps`).
- That no pipe of a share holds more than `Parts` is part of the type, and is a fact about all
  six: what is in the pipes of a direction and what was read were sent (`ProxyInv`). A copy moves
  a part from one pipe to the next (`CopiedKeeps`), a cut loses what was there (`CutFacts`).

It proves of `DaemonLife`, for any number of commands, daemons, polls and faults, `[]LifeInv`,
`OkMeansSo` and `NoRelaunch`:

- What an Ok says is a fact about a daemon that others may start and stop meanwhile.
  `CommandsRight` keeps what the command has learned that stays true: who it asked to stop has left
  the phases before serving for good, and once the old daemon did not answer a start it never will.
- Several teardowns of one daemon end in one order: ports close after the app because a
  supervisor that has an app waits for it (`Supervised`), and the permit by which it says that it
  ended is not given before (`done`).
- `GoesOn` is what a daemon may become in a step, whoever takes it; `AloneKeeps` shows that a step
  which changes one daemon that way keeps the invariant, and each of the daemon's actions is an
  instance.

And of `StayAwake`, for any number of launches, commands and faults, `[]AwakeInv`, in which the marks are
those of histories without the two things of `amiss`. That sleep which is
turned off is marked needs to be known of every place where a marker may go: the worker removes it
after the reset has been waited for, a sentinel after its own, and the worker writes it before the
spawn and the `pmset` (`MarkedFirst`). That a kill in between leaves a marker is then no case of its
own. `HeldHolds` rests on the hold that lets go of what it owns before the next one arms
(`LetsGoFirst`): a sentinel that could reset belongs to the launch that waits for it.

`AgentProof` also proves of `Repl`, for any number of inputs, runs and faults, `[]ReplInv` and
`[]AnswersWhatWasAsked`:

- `OnePath` looks at the parent of each chat; what is inductive is that the REPL appends to the
  end of its session (`AppendsToTheEnd`). A resume takes the last of what is there, a save moves
  the end along (`AddKeepsPath`), and a save that was cut off between its statements leaves an end
  as well, since a new run has a session of its own that nobody has begun.
- `AnswersWhatWasAsked` rests on the two pipes. At most one command that has an answer, or its
  turn in Pi, or the line that ends its wait is under way (`OneWait`), it is of the last input
  (`Fits`), and when the loop goes back to the user there is none left (`NothingAwaited`). An abort, which
  the REPL sends without waiting for the answer, makes no such line: it ends what Pi works on, which is then
  what is awaited (`EndsAnswer`), or nothing. A retry of Pi is where this ends, and the premise
  `InStep`.

All the safety and action properties that the runs check are proved, under the premises named
above. The theorems also state `TypeOK`, `Inv`, `LinkedIsComplete` and `HashIsOfPart` of the first
three modules, which the runs do not repeat.

Model-checked only, each for the instance of its run: what must eventually happen, since the provers
do not reason about fairness. These are `EveryCallReturns`, `EveryJoinReturns`, `EveryDownloadEnds`,
`EveryCallEnds`, `EveryWaitEnds`, `EverythingSettles`, `EveryRequestEnds`, `ServicesSettle`,
`SleepComesBack` and `FollowsSession`.

## Bounds

Every bound is a constant of its module, marked so where it is declared, and has its value in
the `.cfg` of the run. The bounds of messages, requests and faults are guards of the actions
that take one (`left > 0`); `TwoCallsMade` is the only state constraint. The waits, timeouts
and sizes of the code are smaller or gone: a timeout may pass whenever the wait is open, a
channel has one place so that it is full at once, a file two bytes, a retry one or two. Deadlock
is checked where requests may come again (`model_downloads`, `engine_install`,
`inference_server`); in the other runs requests, commands, faults and inputs run out, and a
system that has served all it may be asked rests; there `EveryRequestEnds` and its like say
that nothing is left hanging.

## Not modelled

- Chat sync: the content of chats; the migration that numbers old rows; chats without
  a session from old versions; the death of the database task after a delta that cannot be
  decoded (`chats.rs:352`), for which every delta of the model can be decoded; relaying of
  gossip by a third device, which `is_did_valid` refuses (a loss).
- Linking: delegations of single commands (type `peer`), expiry, nicknames, `unlink` (nothing
  calls it), `core/network/ticket.rs`.
- Downloading: the choice of files and the requests to the hub (`plan.rs`, `hub.rs`), progress
  events, `refs/main`, the name of the commit, a loss of power.
- Engines: the bytes of archives and their hashes, what detection reads, as text.
- Inference server: servers started by hand; the adapters of requests and replies and the
  parsing of GGUF files (`server/backend`), which are text transformations.
- Daemon: launchd (`core/service.rs`), and a daemon whose listener fails while it serves.
- Atmosphere login: the OAuth exchange (a library's), publishing a record, the profile.
- Accounts: creating the root user and its profile, single statements on one row.
- Menu bar app: tray, panel, profile and session lists, which show what they read.
- Command line: commands that are one request each, and printing.
- Configuration, install and uninstall, the Modelfile parser and key storage: files of one
  process, a pure parser and calls of the keyring, with no interleaving to check.

The hazards of `PROJECT.json` without a property are those whose bad outcome the code reaches, which
the observations above describe, and the death of the database task.

## Plan

Done: the modules of the table, each with its run, and proofs of every safety property that a run
checks.

Left are parts of components that are otherwise modelled: expiry and tokens of type `peer` in `Linking`,
with `RejectStart` of `ChatSync` refined by `Verifies`; the death of the database task; launchd.
