----------------------------- MODULE ChatSyncInv -----------------------------
(***************************************************************************)
(* The inductive invariants of ChatSync: why devices that save one chat at *)
(* a time never skip one, whatever is lost, cut short or repeated, and why *)
(* a sync that reports success has moved the chats.  A delta is made past  *)
(* a counter that its receiver had reached, and copies never shrink, so    *)
(* however late it is applied it leaves no gap.                            *)
(***************************************************************************)
EXTENDS ChatSync

-------------------------------------------------------------------------------
(* Type correctness needs to know that the chats a device holds, or that a
   delta names, have been written, and that a counter never passes the number
   of chats: else the highest counter would not be a number.               *)

Written(blob) == \A r \in blob : r[2] \in 1 .. Len(rows[r[1]])

CopiesWritten == \A d, u \in Device : copy[d][u] \subseteq 1 .. Len(rows[u])

CountersBounded ==
    /\ \A u \in Device : \A n \in 1 .. Len(rows[u]) : rows[u][n].rc \in 1 .. n
    /\ \A d \in Device, s \in Saver : saver[d][s] = None \/ saver[d][s] <= Len(rows[d])

DeltasWritten ==
    \A p \in Proc : /\ Written(task[p].blob)
                    /\ \A j \in 1 .. Len(inbox[p]) : Written(inbox[p][j].blob)

TInv ==
    /\ TypeOK
    /\ CopiesWritten
    /\ CountersBounded
    /\ DeltasWritten

-------------------------------------------------------------------------------
(* No gap, for devices with one saver each that one other device calls *)

\* The two conditions of the theorems.  When two devices call one, a delta
\* reaches a device it was not made for; with two savers a counter is used twice.
\* Two devices alone meet the first, however many calls they make.
OneCallerPerTopic == \A i, j \in Initiator : i.topic = j.topic => i.dev = j.dev
OneSaver == \A s, t \in Saver : s = t

\* Device d holds the first k chats of u.
Holds(d, u, k) == 1 .. k \subseteq copy[d][u]

\* Applying (a prefix of) the delta on device d leaves no gap.
Fits(d, blob) ==
    \E u \in Device : \A r \in blob :
        /\ r[1] = u
        /\ r[2] \in 1 .. Len(rows[u])
        /\ \A m \in 1 .. r[2] : m \in copy[d][u] \/ <<u, m>> \in blob

RowCountersAreIds == \A u \in Device : \A n \in 1 .. Len(rows[u]) : rows[u][n].rc = n

OwnChatsHeld == \A u \in Device : copy[u][u] = 1 .. Len(rows[u])

NoGap == \A d, u \in Device : \A n \in copy[d][u] : n \in 1 .. Len(rows[u]) /\ Holds(d, u, n)

SaverFresh == \A d \in Device, s \in Saver : saver[d][s] \in {None, Len(rows[d])}

\* What message m promises the process q that is about to read it.
MsgSafe(q, m) ==
    /\ m.from.topic = q.topic
    /\ m.from.dev # q.dev
    /\ m.kind = "SyncStart" => m.lrc # None /\ Holds(m.from.dev, q.topic, m.lrc)
    /\ m.kind = "Delta" => /\ Fits(q.dev, m.blob)
                           /\ m.lrc # None => Holds(m.from.dev, q.dev, m.lrc)

MessagesSafe == \A q \in Proc : \A j \in 1 .. Len(inbox[q]) : MsgSafe(q, inbox[q][j])

\* What the loop of p relies on between two awaits.
TaskSafe(p, t) ==
    /\ t.at \in {"counter", "apply", "reply"} =>
          /\ t.peer \in Device \ {p.dev}
          /\ \E r \in Proc : r.topic = p.topic /\ r.dev = t.peer
    /\ t.at = "counter" => Fits(t.peer, t.blob)
    /\ t.at \in {"apply", "orphan"} => Fits(p.dev, t.blob)
    /\ t.at \in {"apply", "reply"} /\ t.lrc # None => Holds(t.peer, p.dev, t.lrc)

TasksSafe == \A p \in Proc : TaskSafe(p, task[p])

IInv ==
    /\ RowCountersAreIds
    /\ OwnChatsHeld
    /\ NoGap
    /\ SaverFresh
    /\ MessagesSafe
    /\ TasksSafe

\* The inductive invariant: a message or a task in flight promises what its
\* reader relies on, so that no delta ever leaves a gap in a copy.
Inv == TInv /\ IInv

-------------------------------------------------------------------------------
(* Success means synced.  No message names the call it belongs to, so a call
   can only trust what it hears when nothing of another call is left on its
   topic; then every step of the exchange tells the next one what has been
   moved so far.                                                            *)

\* The Listener that answers call i.
Host(i) == [dev |-> i.topic, topic |-> i.topic, try |-> 0]

\* The loop of call i reads events, or works on one.
Running(i) == task[i].at \notin {"off", "joined", "orphan"}

\* Nothing of another call is left on the topic of i: no message waits, the
\* Listener works on none, and no other loop runs.
Silent(i) ==
    /\ inbox[i] = <<>> /\ inbox[Host(i)] = <<>>
    /\ task[Host(i)].at \notin {"counter", "apply", "reply"}
    /\ \A j \in Initiator : j.topic = i.topic => ~Running(j)

\* The conditions of the theorem: a delta is written as a whole, and a call
\* starts when the calls before it on its topic have left nothing there.  (A
\* call can take the answers to the call before for its own.)
WholeWrites == WriteFaults = FALSE
StartsSilent == \A i \in Initiator : StartSync(i) => Silent(i)

\* What was written when the sync started has come to the caller, and to its peer.
Got(i) == 1 .. call[i].theirs \subseteq copy[i.dev][i.topic]
Given(i) == 1 .. call[i].mine \subseteq copy[i.topic][i.dev]

\* ... or comes with this delta.
Brings(d, u, k, blob) == \A n \in 1 .. k : n \in copy[d][u] \/ <<u, n>> \in blob
BringsTheirs(i, blob) == Brings(i.dev, i.topic, call[i].theirs, blob)
BringsMine(i, blob) == Brings(i.topic, i.dev, call[i].mine, blob)

\* What a message tells the caller, and its peer.
TellsCaller(i, m) ==
    /\ m.kind = "Delta" => m.lrc # None /\ BringsTheirs(i, m.blob)
    /\ m.kind = "SyncEnd" => Got(i) /\ Given(i)

TellsHost(i, m) ==
    m.kind = "Delta" => m.lrc = None /\ Got(i) /\ BringsMine(i, m.blob)

\* What the two loops know between two awaits.
CallerKnows(i, t) ==
    /\ t.at # "counter"
    /\ t.at \in {"apply", "reply"} => t.lrc # None
    /\ t.at = "apply" => BringsTheirs(i, t.blob)
    /\ t.at = "reply" => Got(i)

HostKnows(i, t) ==
    /\ t.at = "counter" => BringsTheirs(i, t.blob)
    /\ t.at = "apply" => t.lrc = None /\ Got(i) /\ BringsMine(i, t.blob)
    /\ t.at = "reply" => t.lrc = None /\ Got(i) /\ Given(i)

\* While the loop of i runs, all that is under way on its topic tells of i.
Told(i) ==
    /\ \A j \in 1 .. Len(inbox[i]) : TellsCaller(i, inbox[i][j])
    /\ \A j \in 1 .. Len(inbox[Host(i)]) : TellsHost(i, inbox[Host(i)][j])
    /\ CallerKnows(i, task[i])
    /\ HostKnows(i, task[Host(i)])

Exchange(i) ==
    /\ call[i].mine <= Len(rows[i.dev]) /\ call[i].theirs <= Len(rows[i.topic])
    /\ call[i].st \in {"new", "joined"} => ~Running(i) /\ call[i].event = None
    /\ Running(i) => Told(i)
    /\ call[i].event = "SyncSuccess" \/ call[i].st = "ok" => Got(i) /\ Given(i)

OneRunning == \A i, j \in Initiator : i.topic = j.topic /\ Running(i) /\ Running(j) => i = j

Exchanges == OneRunning /\ \A i \in Initiator : Exchange(i)

==============================================================================
