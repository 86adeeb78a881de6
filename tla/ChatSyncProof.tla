---------------------------- MODULE ChatSyncProof ----------------------------
(***************************************************************************)
(* Theorems about ChatSync: type correctness and that no chat comes        *)
(* without its session; for devices that save one chat at a time and are   *)
(* called by one other each, that no chat is skipped and that sync         *)
(* implements the abstract log ChatLog; and, when each call starts on a    *)
(* silent topic, that a reported success means synced.                     *)
(***************************************************************************)
EXTENDS ChatSyncInv, WellFoundedInduction, TLAPS

-------------------------------------------------------------------------------
(* Lemmas about the operators of the model *)

\* A process belongs to a device and a topic.
LEMMA ProcType ==
    /\ \A p \in Proc : p.dev \in Device /\ p.topic \in Device
    /\ Initiator \subseteq Proc
    /\ \A i \in Initiator : ~IsListener(i)
    /\ \A p \in Proc : ~IsListener(p) => p \in Initiator
  BY ChatSyncAssumption DEF Proc, Listener, IsListener

\* Besides a process one device speaks on its topic: the one that calls, or is called.
LEMMA OnePeer ==
    ASSUME OneCallerPerTopic, NEW p \in Proc, NEW q \in Proc, NEW r \in Proc,
           q.topic = p.topic, r.topic = p.topic, q.dev # p.dev, r.dev # p.dev
    PROVE  q.dev = r.dev
<1>1. \A x \in Proc : x \in Initiator \/ x.dev = x.topic
  BY DEF Proc, Listener
<1>2. CASE p \in Initiator
  BY <1>1, <1>2 DEF OneCallerPerTopic
<1>3. CASE p.dev = p.topic
  BY <1>1, <1>3 DEF OneCallerPerTopic
<1> QED
  BY <1>1, <1>2, <1>3

LEMMA IdleType == \A at \in {"off", "joined", "recv"} : Idle(at) \in Task
  BY DEF Idle, Task, Opt, Blob

\* A nonempty set of counters with an upper bound has a largest one.
LEMMA MaxExists ==
    ASSUME NEW S, S \subseteq Nat, S # {}, NEW b \in Nat, \A n \in S : n <= b
    PROVE  \E c \in S : \A e \in S : e <= c
<1> DEFINE T == {k \in Nat : \A n \in S : n <= k}
<1>1. T # {} /\ T \subseteq Nat
  OBVIOUS
<1>2. PICK k \in T : \A j \in T : ~(<<j, k>> \in OpToRel(<, Nat))
  <2>1. IsWellFoundedOn(OpToRel(<, Nat), Nat)
    BY NatLessThanWellFounded
  <2> QED
    BY <1>1, <2>1, WFMin
<1>3. \A j \in T : ~(j < k)
  BY <1>2 DEF OpToRel
<1>4. k \in S
  <2>1. SUFFICES ASSUME k \notin S PROVE FALSE
    OBVIOUS
  <2>2. \A n \in S : n < k
    BY <2>1
  <2>3. PICK n \in S : TRUE
    OBVIOUS
  <2>4. k - 1 \in T
    BY <2>2, <2>3
  <2> QED
    BY <1>3, <2>4
<1> QED
  BY <1>4

\* get_last_row_counter returns a number, at most the number of chats.
LEMMA WatermarkType ==
    ASSUME TInv, NEW d \in Device, NEW u \in Device
    PROVE  Watermark(d, u) \in 0 .. Len(rows[u])
<1> DEFINE counters == {rows[u][n].rc : n \in copy[d][u]}
<1>1. Len(rows[u]) \in Nat
  BY DEF TInv, TypeOK
<1>2. counters \subseteq 0 .. Len(rows[u])
  BY <1>1 DEF TInv, CopiesWritten, CountersBounded
<1>3. CASE counters = {}
  BY <1>1, <1>3 DEF Watermark
<1>4. CASE counters # {}
  <2>1. \E c \in counters : \A e \in counters : e <= c
    <3>1. counters \subseteq Nat /\ \A n \in counters : n <= Len(rows[u])
      BY <1>1, <1>2
    <3> HIDE DEF counters
    <3> QED
      BY <1>1, <1>4, <3>1, MaxExists
  <2>2. Watermark(d, u) = CHOOSE c \in counters : \A e \in counters : e <= c
    BY <1>4 DEF Watermark
  <2> QED
    BY <1>2, <2>1, <2>2
<1> QED
  BY <1>3, <1>4

\* A delta names chats that have been written.
LEMMA DeltaType ==
    ASSUME TInv, NEW d \in Device, NEW lrc
    PROVE  Delta(d, lrc) \in Blob /\ Written(Delta(d, lrc))
  BY DEF TInv, TypeOK, CopiesWritten, Delta, Blob, Written

\* Saving appends one chat to the user's own log and nothing else.
LEMMA InsertRowType ==
    ASSUME TypeOK, NEW d \in Device, NEW rc \in Nat, NEW sn \in Session, InsertRow(d, rc, sn)
    PROVE  /\ rows' \in [Device -> Seq(Row)]
           /\ copy' \in [Device -> [Device -> SUBSET Nat]]
           /\ \A u \in Device : Len(rows[u]) \in Nat
           /\ Len(rows'[d]) = Len(rows[d]) + 1
           /\ \A n \in 1 .. Len(rows[d]) : rows'[d][n] = rows[d][n]
           /\ rows'[d][Len(rows[d]) + 1].rc = rc
           /\ \A u \in Device \ {d} : rows'[u] = rows[u]
           /\ \A e, u \in Device : copy'[e][u] = copy[e][u] \union
                                 (IF e = d /\ u = d THEN {Len(rows[d]) + 1} ELSE {})
<1> DEFINE row == [rc |-> rc, session |-> sn]
<1>1. row \in Row
  BY DEF Row
<1>2. \A u \in Device : rows[u] \in Seq(Row) /\ Len(rows[u]) \in Nat
  BY DEF TypeOK
<1>3. rows' = [rows EXCEPT ![d] = Append(rows[d], row)] /\ rows \in [Device -> Seq(Row)]
  BY DEF InsertRow, TypeOK
<1>4. Append(rows[d], row) \in Seq(Row)
  BY <1>1, <1>2
<1>5. /\ Len(Append(rows[d], row)) = Len(rows[d]) + 1
      /\ \A n \in 1 .. Len(rows[d]) : Append(rows[d], row)[n] = rows[d][n]
      /\ Append(rows[d], row)[Len(rows[d]) + 1] = row
  BY <1>1, <1>2
<1>6. rows' \in [Device -> Seq(Row)] /\ rows'[d] = Append(rows[d], row)
      /\ \A u \in Device \ {d} : rows'[u] = rows[u]
  BY <1>3, <1>4
<1>7. /\ copy' \in [Device -> [Device -> SUBSET Nat]]
      /\ \A e, u \in Device : copy'[e][u] = copy[e][u] \union
                              (IF e = d /\ u = d THEN {Len(rows[d]) + 1} ELSE {})
  BY <1>2 DEF InsertRow, TypeOK
<1> QED
  BY <1>2, <1>5, <1>6, <1>7

\* What is in an inbox or a task is well formed.
LEMMA EventType ==
    ASSUME TypeOK, NEW p \in Proc
    PROVE  /\ task[p] \in Task /\ task[p].blob \in Blob
           /\ inbox[p] \in Seq(Msg) /\ Len(inbox[p]) \in Nat
           /\ \A j \in 1 .. Len(inbox[p]) : inbox[p][j] \in Msg /\ inbox[p][j].blob \in Blob
           /\ inbox[p] # <<>> => Head(inbox[p]) \in Msg /\ Head(inbox[p]) = inbox[p][1]
                               /\ 1 \in 1 .. Len(inbox[p])
<1>1. task[p] \in Task /\ inbox[p] \in Seq(Msg)
  BY DEF TypeOK
<1>2. \A m \in Msg : m.blob \in Blob
  BY DEF Msg
<1>3. \A t \in Task : t.blob \in Blob
  BY DEF Task
<1>4. Len(inbox[p]) \in Nat /\ \A j \in 1 .. Len(inbox[p]) : inbox[p][j] \in Msg
  BY <1>1
<1>5. inbox[p] # <<>> => Head(inbox[p]) = inbox[p][1] /\ 1 \in 1 .. Len(inbox[p])
  BY <1>1
<1> QED
  BY <1>1, <1>2, <1>3, <1>4, <1>5

\* A broadcast leaves well formed inboxes, and adds the message only.
LEMMA BroadcastType ==
    ASSUME TypeOK, NEW p \in Proc, NEW m \in Msg, NEW consumed \in BOOLEAN,
           consumed => inbox[p] # <<>>,
           Broadcast(p, m, consumed)
    PROVE  /\ inbox' \in [Proc -> Seq(Msg)]
           /\ \A q \in Proc : \A j \in 1 .. Len(inbox'[q]) :
                 \/ inbox'[q][j] = m /\ q \in Audience(p)
                 \/ \E k \in 1 .. Len(inbox[q]) : inbox'[q][j] = inbox[q][k]
<1> DEFINE next(q) == IF q \in Audience(p) THEN Append(inbox[q], m)
                      ELSE IF q = p /\ consumed THEN Tail(inbox[q])
                      ELSE inbox[q]
<1>1. inbox' = [q \in Proc |-> next(q)]
  BY DEF Broadcast
<1>2. ASSUME NEW q \in Proc
      PROVE  /\ next(q) \in Seq(Msg)
             /\ \A j \in 1 .. Len(next(q)) :
                   \/ next(q)[j] = m /\ q \in Audience(p)
                   \/ \E k \in 1 .. Len(inbox[q]) : next(q)[j] = inbox[q][k]
  <2>1. inbox[q] \in Seq(Msg) /\ Len(inbox[q]) \in Nat
    BY DEF TypeOK
  <2>2. CASE q \in Audience(p)
    BY <2>1, <2>2
  <2>3. CASE q \notin Audience(p) /\ q = p /\ consumed
    BY <2>1, <2>3
  <2>4. CASE q \notin Audience(p) /\ ~(q = p /\ consumed)
    BY <2>1, <2>4
  <2> QED
    BY <2>2, <2>3, <2>4
<1> QED
  BY <1>1, <1>2

LEMMA ConsumeType ==
    ASSUME TypeOK, NEW p \in Proc, inbox[p] # <<>>, Consume(p)
    PROVE  /\ inbox' \in [Proc -> Seq(Msg)]
           /\ \A q \in Proc : \A j \in 1 .. Len(inbox'[q]) :
                 \E k \in 1 .. Len(inbox[q]) : inbox'[q][j] = inbox[q][k]
<1>1. \A q \in Proc : inbox[q] \in Seq(Msg) /\ Len(inbox[q]) \in Nat
  BY DEF TypeOK
<1>2. inbox' = [inbox EXCEPT ![p] = Tail(@)]
  BY DEF Consume
<1>3. ASSUME NEW q \in Proc, q # p
      PROVE  inbox'[q] = inbox[q]
  BY <1>2, <1>3 DEF TypeOK
<1>4. /\ inbox'[p] = Tail(inbox[p])
      /\ inbox'[p] \in Seq(Msg)
      /\ \A j \in 1 .. Len(inbox'[p]) : inbox'[p][j] = inbox[p][j + 1] /\ j + 1 \in 1 .. Len(inbox[p])
  BY <1>1, <1>2 DEF TypeOK
<1> QED
  BY <1>1, <1>2, <1>3, <1>4 DEF TypeOK

\* The deltas that are under way after a step: those of before, or written ones.
LEMMA NetTInv ==
    ASSUME TInv, UNCHANGED <<dbVars, saver>>,
           call' \in [Initiator -> Call], store' \in [Proc -> SUBSET Blob],
           task' \in [Proc -> Task], inbox' \in [Proc -> Seq(Msg)],
           \A q \in Proc : Written(task'[q].blob),
           \A q \in Proc : \A j \in 1 .. Len(inbox'[q]) : Written(inbox'[q][j].blob)
    PROVE  TInv'
  BY DEF TInv, TypeOK, CopiesWritten, CountersBounded, DeltasWritten, Written, dbVars

LEMMA SetTaskType ==
    ASSUME TInv, NEW p \in Proc, NEW t \in Task, SetTask(p, t), Written(t.blob)
    PROVE  task' \in [Proc -> Task] /\ \A q \in Proc : Written(task'[q].blob)
  BY DEF TInv, TypeOK, DeltasWritten, SetTask

LEMMA IdleWritten == \A at : Written(Idle(at).blob)
  BY DEF Written, Idle

-------------------------------------------------------------------------------
(* Type correctness *)

LEMMA TInvInit == Init => TInv
<1> SUFFICES ASSUME Init PROVE TInv
  OBVIOUS
<1>1. TypeOK
  <2>1. \A p \in Proc : (IF IsListener(p) THEN Idle("recv") ELSE Idle("off")) \in Task
    BY IdleType
  <2>2. [st |-> "new", event |-> None, mine |-> 0, theirs |-> 0] \in Call
    BY DEF Call
  <2> QED
    BY <2>1, <2>2 DEF Init, InitNet, TypeOK, Opt
<1>2. CopiesWritten /\ CountersBounded
  BY DEF Init, InitNet, CopiesWritten, CountersBounded
<1>3. DeltasWritten
  BY IdleWritten DEF Init, InitNet, DeltasWritten
<1> QED
  BY <1>1, <1>2, <1>3 DEF TInv

\* Saving a chat.
LEMMA TInvSave ==
    ASSUME TInv, NEW d \in Device, NEW s \in Saver, Save(d, s)
    PROVE  TInv'
<1> USE DEF TInv, TypeOK, dbVars, netVars
<1>1. CASE SaveReadCounter(d, s)
  <2>1. Watermark(d, d) \in 0 .. Len(rows[d]) /\ Len(rows[d]) \in Nat
    BY WatermarkType
  <2> QED
    BY <1>1, <2>1 DEF SaveReadCounter, Opt, CopiesWritten, CountersBounded, DeltasWritten, Written
<1>2. ASSUME NEW rc \in 1 .. Len(rows[d]) + 1, NEW sn \in Session, InsertRow(d, rc, sn),
             saver' \in [Device -> [Saver -> Opt]],
             \A e \in Device, t \in Saver : saver'[e][t] \in {saver[e][t], None},
             sessions' \in [Device -> SUBSET Session], UNCHANGED netVars
      PROVE  TInv'
  <2>1. /\ rows' \in [Device -> Seq(Row)] /\ copy' \in [Device -> [Device -> SUBSET Nat]]
        /\ \A u \in Device : Len(rows[u]) \in Nat
        /\ Len(rows'[d]) = Len(rows[d]) + 1
        /\ \A n \in 1 .. Len(rows[d]) : rows'[d][n] = rows[d][n]
        /\ rows'[d][Len(rows[d]) + 1].rc = rc
        /\ \A u \in Device \ {d} : rows'[u] = rows[u]
        /\ \A e, u \in Device : copy'[e][u] = copy[e][u] \union
                              (IF e = d /\ u = d THEN {Len(rows[d]) + 1} ELSE {})
    BY <1>2, InsertRowType
  <2>2. \A u \in Device : /\ Len(rows[u]) <= Len(rows'[u]) /\ Len(rows'[u]) \in Nat
                          /\ 1 .. Len(rows[u]) \subseteq 1 .. Len(rows'[u])
    <3>1. ASSUME NEW u \in Device PROVE Len(rows'[u]) \in Nat /\ Len(rows[u]) <= Len(rows'[u])
      <4>1. CASE u = d
        BY <2>1, <4>1
      <4>2. CASE u # d
        BY <2>1, <4>2
      <4> QED
        BY <4>1, <4>2
    <3> QED
      BY <2>1, <3>1
  <2>3. CopiesWritten'
    BY <2>1, <2>2 DEF CopiesWritten
  <2>4. CountersBounded'
    <3>1. ASSUME NEW u \in Device, NEW n \in 1 .. Len(rows'[u])
          PROVE  rows'[u][n].rc \in 1 .. n
      <4>1. CASE u = d /\ n = Len(rows[d]) + 1
        BY <2>1, <4>1
      <4>2. CASE u # d \/ n \in 1 .. Len(rows[d])
        BY <2>1, <4>2 DEF CountersBounded
      <4> QED
        BY <2>1, <4>1, <4>2
    <3>2. ASSUME NEW e \in Device, NEW t \in Saver
          PROVE  saver'[e][t] = None \/ saver'[e][t] <= Len(rows'[e])
      <4>1. saver[e][t] = None \/ saver[e][t] \in 0 .. Len(rows[e])
        BY <2>1 DEF CountersBounded, Opt
      <4> QED
        BY <1>2, <2>1, <2>2, <4>1
    <3> QED
      BY <3>1, <3>2 DEF CountersBounded
  <2>5. DeltasWritten'
    <3>1. ASSUME NEW b \in Blob, Written(b) PROVE Written(b)'
      BY <2>2, <3>1 DEF Written, Blob
    <3> QED
      BY <1>2, <3>1, EventType DEF DeltasWritten, Written
  <2> QED
    BY <1>2, <2>1, <2>2, <2>3, <2>4, <2>5
<1>3. CASE SaveInsert(d, s)
  <2>1. PICK sn \in sessions[d] : InsertRow(d, saver[d][s] + 1, sn)
    BY <1>3 DEF SaveInsert
  <2>2. saver[d][s] + 1 \in 1 .. Len(rows[d]) + 1 /\ sn \in Session
    BY <1>3 DEF SaveInsert, Opt, CountersBounded
  <2> QED
    BY <1>2, <1>3, <2>1, <2>2 DEF SaveInsert, Opt
<1>4. CASE SaveFirst(d, s)
  <2>1. PICK sn \in Session : /\ sessions' = [sessions EXCEPT ![d] = @ \union {sn}]
                              /\ InsertRow(d, Watermark(d, d) + 1, sn)
    BY <1>4 DEF SaveFirst
  <2>2. Watermark(d, d) + 1 \in 1 .. Len(rows[d]) + 1
    BY WatermarkType
  <2> QED
    BY <1>2, <1>4, <2>1, <2>2 DEF SaveFirst
<1> QED
  BY <1>1, <1>3, <1>4 DEF Save

\* What is left of an inbox, and what a broadcast of a written delta adds to it.
LEMMA ConsumeWritten ==
    ASSUME TInv, NEW p \in Proc, inbox[p] # <<>>, Consume(p)
    PROVE  /\ inbox' \in [Proc -> Seq(Msg)]
           /\ \A q \in Proc : \A j \in 1 .. Len(inbox'[q]) : Written(inbox'[q][j].blob)
  BY ConsumeType DEF TInv, DeltasWritten

LEMMA BroadcastWritten ==
    ASSUME TInv, NEW p \in Proc, NEW m \in Msg, Written(m.blob), NEW consumed \in BOOLEAN,
           consumed => inbox[p] # <<>>, Broadcast(p, m, consumed)
    PROVE  /\ inbox' \in [Proc -> Seq(Msg)]
           /\ \A q \in Proc : \A j \in 1 .. Len(inbox'[q]) : Written(inbox'[q][j].blob)
  BY BroadcastType DEF TInv, DeltasWritten

LEMMA MessageType ==
    ASSUME NEW kind \in {"SyncStart", "Delta", "SyncEnd", "SyncRejected"}, NEW p \in Proc,
           NEW lrc \in Opt, NEW blob \in Blob
    PROVE  Message(kind, p, lrc, blob) \in Msg /\ Message(kind, p, lrc, blob).blob = blob
  BY DEF Message, Msg

LEMMA EmptyBlob == {} \in Blob /\ Written({})
  BY DEF Blob, Written

LEMMA AddBlobType ==
    ASSUME TypeOK, NEW p \in Proc, NEW b \in Blob, AddBlob(p, b)
    PROVE  store' \in [Proc -> SUBSET Blob]
  BY DEF TypeOK, AddBlob

\* The gossip loop of a process.
LEMMA TInvLoop ==
    ASSUME TInv, NEW p \in Proc, Handle(p) \/ Fault(p)
    PROVE  TInv'
<1>1. TypeOK /\ task[p] \in Task /\ Written(task[p].blob) /\ DeltasWritten
  BY DEF TInv, TypeOK, DeltasWritten
<1>2. inbox[p] # <<>> => /\ Head(inbox[p]) \in Msg /\ Head(inbox[p]).blob \in Blob
                         /\ Written(Head(inbox[p]).blob)
  BY <1>1, EventType DEF DeltasWritten
<1>3. p.dev \in Device
  BY ProcType
<1>4. CASE Lose(p)
  BY <1>1, <1>4, ConsumeWritten, NetTInv DEF Lose, TypeOK, DeltasWritten
<1>5. CASE HandlerError(p)
  <2>1. task' \in [Proc -> Task] /\ \A q \in Proc : Written(task'[q].blob)
    BY <1>5, IdleType, IdleWritten, SetTaskType DEF HandlerError
  <2> QED
    BY <1>1, <1>5, <2>1, NetTInv DEF HandlerError, TypeOK, DeltasWritten
<1>6. CASE Ignore(p)
  BY <1>1, <1>6, ConsumeWritten, NetTInv DEF Ignore, Receives, TypeOK, DeltasWritten
<1>7. CASE ReceiveStart(p)
  <2> DEFINE m == Head(inbox[p])
             b == Delta(p.dev, m.lrc)
             t == [at |-> "counter", peer |-> m.from.dev, lrc |-> None, blob |-> b]
  <2>1. inbox[p] # <<>> /\ SetTask(p, t) /\ AddBlob(p, b) /\ Consume(p)
    BY <1>7 DEF ReceiveStart, Receives
  <2>2. b \in Blob /\ Written(b)
    BY <1>3, DeltaType
  <2>3. m.from \in Proc
    BY <1>2, <2>1 DEF Msg
  <2>4. t \in Task /\ t.blob = b
    BY <2>2, <2>3, ProcType DEF Task, Opt
  <2>5. task' \in [Proc -> Task] /\ \A q \in Proc : Written(task'[q].blob)
    BY <2>1, <2>2, <2>4, SetTaskType
  <2>6. store' \in [Proc -> SUBSET Blob]
    BY <1>1, <2>1, <2>2, AddBlobType
  <2> HIDE DEF t, b, m
  <2> QED
    BY <1>1, <1>7, <2>1, <2>5, <2>6, ConsumeWritten, NetTInv DEF ReceiveStart, TypeOK
<1>8. CASE RejectStart(p)
  <2> DEFINE m == Message("SyncRejected", p, None, {})
  <2>1. m \in Msg /\ Written(m.blob)
    BY MessageType, EmptyBlob DEF Opt
  <2>2. inbox[p] # <<>> /\ Broadcast(p, m, TRUE)
    BY <1>8 DEF RejectStart, Receives
  <2> HIDE DEF m
  <2> QED
    BY <1>1, <1>8, <2>1, <2>2, BroadcastWritten, NetTInv DEF RejectStart, TypeOK, DeltasWritten
<1>9. CASE SendDeltaInfo(p)
  <2> DEFINE m == Message("Delta", p, Watermark(p.dev, task[p].peer), task[p].blob)
  <2>1. m \in Msg /\ Written(m.blob)
    <3>1. task[p].peer \in Device
      BY <1>1, <1>9 DEF SendDeltaInfo, Task
    <3>2. Watermark(p.dev, task[p].peer) \in Opt
      <4>1. Watermark(p.dev, task[p].peer) \in 0 .. Len(rows[task[p].peer])
        BY <1>3, <3>1, WatermarkType
      <4>2. Len(rows[task[p].peer]) \in Nat
        BY <1>1, <3>1 DEF TypeOK
      <4> QED
        BY <4>1, <4>2 DEF Opt
    <3>3. task[p].blob \in Blob
      BY <1>1 DEF Task
    <3> QED
      BY <1>1, <3>2, <3>3, MessageType
  <2>2. task' \in [Proc -> Task] /\ \A q \in Proc : Written(task'[q].blob)
    BY <1>9, IdleType, IdleWritten, SetTaskType DEF SendDeltaInfo
  <2>3. Broadcast(p, m, FALSE)
    BY <1>9 DEF SendDeltaInfo
  <2> HIDE DEF m
  <2> QED
    BY <1>1, <1>9, <2>1, <2>2, <2>3, BroadcastWritten, NetTInv DEF SendDeltaInfo, TypeOK
<1>10. CASE RefuseDelta(p)
  <2> DEFINE m == Message("SyncRejected", p, None, {})
  <2>1. m \in Msg /\ Written(m.blob)
    BY MessageType, EmptyBlob DEF Opt
  <2>2. inbox[p] # <<>> /\ Broadcast(p, m, TRUE)
    BY <1>10 DEF RefuseDelta, Receives
  <2>3. task' \in [Proc -> Task] /\ \A q \in Proc : Written(task'[q].blob)
    BY <1>10, IdleType, IdleWritten, SetTaskType DEF RefuseDelta
  <2>4. store' \in [Proc -> SUBSET Blob]
    BY <1>1, <1>2, <1>10, <2>2, AddBlobType DEF RefuseDelta
  <2> HIDE DEF m
  <2> QED
    BY <1>1, <1>10, <2>1, <2>2, <2>3, <2>4, BroadcastWritten, NetTInv DEF RefuseDelta, TypeOK
<1>11. CASE ReceiveDelta(p)
  <2> DEFINE m == Head(inbox[p])
             t == [at |-> "apply", peer |-> m.from.dev, lrc |-> m.lrc, blob |-> m.blob]
  <2>1. inbox[p] # <<>> /\ SetTask(p, t) /\ AddBlob(p, m.blob) /\ Consume(p)
    BY <1>11 DEF ReceiveDelta, Receives
  <2>2. m.from \in Proc /\ m.lrc \in Opt
    BY <1>2, <2>1 DEF Msg
  <2>3. t \in Task /\ t.blob = m.blob
    BY <1>2, <2>1, <2>2, ProcType DEF Task
  <2>4. task' \in [Proc -> Task] /\ \A q \in Proc : Written(task'[q].blob)
    BY <1>2, <2>1, <2>3, SetTaskType
  <2>5. store' \in [Proc -> SUBSET Blob]
    BY <1>1, <1>2, <2>1, AddBlobType
  <2> HIDE DEF t, m
  <2> QED
    BY <1>1, <1>11, <2>1, <2>4, <2>5, ConsumeWritten, NetTInv DEF ReceiveDelta, TypeOK
<1>12. CASE ApplyDelta(p)
  <2> DEFINE t == IF task[p].at = "orphan" THEN Idle("off") ELSE [task[p] EXCEPT !.at = "reply"]
  <2>1. t \in Task /\ Written(t.blob)
    BY <1>1, IdleType, IdleWritten DEF Task
  <2>2. SetTask(p, t) /\ UNCHANGED <<rows, saver, call, inbox, store>>
    BY <1>12 DEF ApplyDelta
  <2>3. task' \in [Proc -> Task] /\ \A q \in Proc : Written(task'[q].blob)
    BY <2>1, <2>2, SetTaskType
  <2>4. PICK R \in Prefixes(task[p].blob), S \in SUBSET DeltaSessions(task[p].blob) :
          /\ copy' = [copy EXCEPT ![p.dev] = [u \in Device |->
                         @[u] \union {row[2] : row \in {r \in R : r[1] = u}}]]
          /\ sessions' = [sessions EXCEPT ![p.dev] = @ \union S]
    BY <1>12 DEF ApplyDelta
  <2>5. R \subseteq task[p].blob
    BY DEF Prefixes
  <2>6. S \subseteq Session
    BY DEF DeltaSessions
  <2>7. sessions' \in [Device -> SUBSET Session]
    BY <1>1, <1>3, <2>4, <2>6 DEF TypeOK
  <2>8. \A u \in Device : /\ {row[2] : row \in {r \in R : r[1] = u}} \subseteq 1 .. Len(rows[u])
                          /\ Len(rows[u]) \in Nat
    BY <1>1, <2>5 DEF Written, TypeOK
  <2>9. /\ copy' \in [Device -> [Device -> SUBSET Nat]]
        /\ \A d, u \in Device : copy'[d][u] \subseteq 1 .. Len(rows[u])
    <3> DEFINE new(u) == {row[2] : row \in {r \in R : r[1] = u}}
    <3>1. \A u \in Device : new(u) \subseteq 1 .. Len(rows[u]) /\ Len(rows[u]) \in Nat
      BY <2>8
    <3>2. copy' = [copy EXCEPT ![p.dev] = [u \in Device |-> copy[p.dev][u] \union new(u)]]
      BY <1>1, <1>3, <2>4 DEF TypeOK
    <3>3. copy \in [Device -> [Device -> SUBSET Nat]] /\ CopiesWritten
      BY DEF TInv, TypeOK
    <3> HIDE DEF new
    <3>4. \A u \in Device : new(u) \subseteq Nat
      BY <3>1
    <3>5. [u \in Device |-> copy[p.dev][u] \union new(u)] \in [Device -> SUBSET Nat]
      BY <1>3, <3>3, <3>4
    <3> QED
      BY <1>3, <3>1, <3>2, <3>3, <3>5 DEF CopiesWritten
  <2>10. TypeOK'
    BY <1>1, <2>2, <2>3, <2>7, <2>9 DEF TypeOK
  <2>11. CopiesWritten' /\ CountersBounded' /\ DeltasWritten'
    BY <2>2, <2>3, <2>9 DEF TInv, CopiesWritten, CountersBounded, DeltasWritten, Written
  <2> QED
    BY <2>10, <2>11 DEF TInv
<1>13. CASE Reply(p)
  <2>1. task' \in [Proc -> Task] /\ \A q \in Proc : Written(task'[q].blob)
    BY <1>13, IdleType, IdleWritten, SetTaskType DEF Reply
  <2>2. CASE task[p].lrc # None
    <3> DEFINE b == Delta(p.dev, task[p].lrc)
               m == Message("Delta", p, None, b)
    <3>1. b \in Blob /\ Written(b)
      BY <1>3, DeltaType
    <3>2. m \in Msg /\ Written(m.blob)
      BY <3>1, MessageType DEF Opt
    <3>3. AddBlob(p, b) /\ Broadcast(p, m, FALSE)
      BY <1>13, <2>2 DEF Reply
    <3>4. store' \in [Proc -> SUBSET Blob]
      BY <1>1, <3>1, <3>3, AddBlobType
    <3> HIDE DEF m, b
    <3>5. inbox' \in [Proc -> Seq(Msg)]
          /\ \A q \in Proc : \A j \in 1 .. Len(inbox'[q]) : Written(inbox'[q][j].blob)
      BY <3>2, <3>3, BroadcastWritten
    <3>6. UNCHANGED <<dbVars, saver, call>>
      BY <1>13 DEF Reply
    <3> QED
      BY <1>1, <2>1, <3>4, <3>5, <3>6, NetTInv DEF TypeOK
  <2>3. CASE task[p].lrc = None
    <3> DEFINE m == Message("SyncEnd", p, None, {})
    <3>1. m \in Msg /\ Written(m.blob)
      BY MessageType, EmptyBlob DEF Opt
    <3>2. Broadcast(p, m, FALSE) /\ UNCHANGED store
      BY <1>13, <2>3 DEF Reply
    <3> HIDE DEF m
    <3>3. inbox' \in [Proc -> Seq(Msg)]
          /\ \A q \in Proc : \A j \in 1 .. Len(inbox'[q]) : Written(inbox'[q][j].blob)
      BY <3>1, <3>2, BroadcastWritten
    <3>4. UNCHANGED <<dbVars, saver, call>>
      BY <1>13 DEF Reply
    <3> QED
      BY <1>1, <2>1, <3>2, <3>3, <3>4, NetTInv DEF TypeOK
  <2> QED
    BY <2>2, <2>3
<1> QED
  BY <1>4, <1>5, <1>6, <1>7, <1>8, <1>9, <1>10, <1>11, <1>12, <1>13 DEF Handle, Fault

\* What is left when a loop is aborted.
LEMMA AbortType ==
    ASSUME TInv, NEW i \in Proc, Abort(i)
    PROVE  /\ task' \in [Proc -> Task] /\ \A q \in Proc : Written(task'[q].blob)
           /\ inbox' \in [Proc -> Seq(Msg)]
           /\ \A q \in Proc : \A j \in 1 .. Len(inbox'[q]) : Written(inbox'[q][j].blob)
           /\ store' \in [Proc -> SUBSET Blob]
<1> DEFINE t == IF task[i].at = "apply" THEN [task[i] EXCEPT !.at = "orphan"]
                ELSE IF task[i].at = "orphan" THEN task[i]
                ELSE Idle("off")
<1>1. task[i] \in Task /\ Written(task[i].blob)
  BY DEF TInv, TypeOK, DeltasWritten
<1>2. t \in Task /\ Written(t.blob)
  BY <1>1, IdleType, IdleWritten DEF Task
<1>3. SetTask(i, t)
  BY DEF Abort
<1>4. task' \in [Proc -> Task] /\ \A q \in Proc : Written(task'[q].blob)
  BY <1>2, <1>3, SetTaskType
<1>5. ASSUME NEW q \in Proc
      PROVE  inbox'[q] \in Seq(Msg) /\ \A j \in 1 .. Len(inbox'[q]) : Written(inbox'[q][j].blob)
  <2>1. CASE inbox'[q] = <<>>
    BY <2>1
  <2>2. CASE inbox'[q] = inbox[q]
    BY <2>2 DEF TInv, TypeOK, DeltasWritten
  <2> QED
    BY <2>1, <2>2 DEF Abort, TInv, TypeOK
<1>6. inbox' \in [Proc -> Seq(Msg)]
  BY DEF Abort, TInv, TypeOK
<1>7. store' \in [Proc -> SUBSET Blob]
  BY DEF Abort, TInv, TypeOK
<1> QED
  BY <1>4, <1>5, <1>6, <1>7

\* A step of a sync call.
LEMMA TInvCall ==
    ASSUME TInv, NEW i \in Initiator, CallStep(i) \/ FailStart(i) \/ Timeout(i)
    PROVE  TInv'
<1>1. TypeOK /\ DeltasWritten /\ i \in Proc /\ i.dev \in Device /\ i.topic \in Device
  BY ProcType DEF TInv
<1>2. call[i] \in Call /\ call \in [Initiator -> Call]
  BY <1>1 DEF TypeOK
<1>3. CASE Join(i)
  <2>1. task' \in [Proc -> Task] /\ \A q \in Proc : Written(task'[q].blob)
    BY <1>1, <1>3, IdleType, IdleWritten, SetTaskType DEF Join
  <2>2. call' \in [Initiator -> Call]
    BY <1>2, <1>3 DEF Join, Call
  <2> QED
    BY <1>1, <1>3, <2>1, <2>2, NetTInv DEF Join, TypeOK, DeltasWritten
<1>4. CASE StartSync(i)
  <2> DEFINE m == Message("SyncStart", i, Watermark(i.dev, i.topic), {})
  <2>1. Len(rows[i.dev]) \in Nat /\ Len(rows[i.topic]) \in Nat
    BY <1>1 DEF TypeOK
  <2>2. Watermark(i.dev, i.topic) \in Opt
    BY <1>1, <2>1, WatermarkType DEF Opt
  <2>3. m \in Msg /\ Written(m.blob)
    BY <1>1, <2>2, MessageType, EmptyBlob
  <2>4. task' \in [Proc -> Task] /\ \A q \in Proc : Written(task'[q].blob)
    BY <1>1, <1>4, IdleType, IdleWritten, SetTaskType DEF StartSync
  <2>5. call' \in [Initiator -> Call]
    BY <1>2, <1>4, <2>1 DEF StartSync, Call
  <2>6. Broadcast(i, m, FALSE)
    BY <1>4 DEF StartSync
  <2> HIDE DEF m
  <2> QED
    BY <1>1, <1>4, <2>3, <2>4, <2>5, <2>6, BroadcastWritten, NetTInv DEF StartSync, TypeOK
<1>5. CASE ReceiveEnd(i)
  <2>1. call' \in [Initiator -> Call]
    BY <1>2, <1>5 DEF ReceiveEnd, Call
  <2>2. task' \in [Proc -> Task] /\ \A q \in Proc : Written(task'[q].blob)
    BY <1>1, <1>5, IdleType, IdleWritten, SetTaskType DEF ReceiveEnd
  <2>3. inbox' \in [Proc -> Seq(Msg)]
    BY <1>1, <1>5 DEF ReceiveEnd, TypeOK
  <2>4. ASSUME NEW q \in Proc, NEW j \in 1 .. Len(inbox'[q])
        PROVE  Written(inbox'[q][j].blob)
    <3>1. inbox'[q] = inbox[q] \/ inbox'[q] = <<>>
      BY <1>1, <1>5 DEF ReceiveEnd, TypeOK
    <3> QED
      BY <1>1, <3>1 DEF DeltasWritten
  <2> QED
    BY <1>1, <1>5, <2>1, <2>2, <2>3, <2>4, NetTInv DEF ReceiveEnd, TypeOK
<1>6. CASE Return(i)
  <2>1. call' \in [Initiator -> Call]
    BY <1>2, <1>6 DEF Return, Call
  <2>2. Abort(i)
    BY <1>6 DEF Return
  <2> QED
    BY <1>1, <1>6, <2>1, <2>2, AbortType, NetTInv DEF Return
<1>7. CASE Timeout(i)
  <2>1. call' \in [Initiator -> Call]
    BY <1>2, <1>7 DEF Timeout, Call
  <2>2. Abort(i)
    BY <1>7 DEF Timeout
  <2> QED
    BY <1>1, <1>7, <2>1, <2>2, AbortType, NetTInv DEF Timeout
<1>8. CASE FailStart(i)
  <2>1. call' \in [Initiator -> Call]
    BY <1>2, <1>8 DEF FailStart, Call
  <2>2. Abort(i)
    BY <1>8 DEF FailStart
  <2> QED
    BY <1>1, <1>8, <2>1, <2>2, AbortType, NetTInv DEF FailStart
<1> QED
  BY <1>3, <1>4, <1>5, <1>6, <1>7, <1>8 DEF CallStep

LEMMA TInvRestart ==
    ASSUME TInv, NEW d \in Device, Restart(d)
    PROVE  TInv'
<1> USE DEF TInv, TypeOK
<1>1. \A p \in Proc : (IF IsListener(p) THEN Idle("recv") ELSE Idle("off")) \in Task
  BY IdleType
<1>2. task' \in [Proc -> Task]
  BY <1>1 DEF Restart
<1>3. call' \in [Initiator -> Call]
  <2>1. \A i \in Initiator : [call[i] EXCEPT !.st = "lost"] \in Call
    BY DEF Call
  <2> QED
    BY <2>1 DEF Restart
<1>4. inbox' \in [Proc -> Seq(Msg)] /\ store' \in [Proc -> SUBSET Blob]
  BY DEF Restart
<1>5. saver' \in [Device -> [Saver -> Opt]]
  BY DEF Restart, Opt
<1>6. CopiesWritten' /\ CountersBounded'
  BY DEF Restart, CopiesWritten, CountersBounded, dbVars
<1>7. DeltasWritten'
  <2>1. \A p \in Proc : inbox'[p] \in {inbox[p], <<>>}
    BY DEF Restart
  <2>2. \A p \in Proc : task'[p] \in {task[p], Idle("recv"), Idle("off")}
    BY DEF Restart
  <2>3. rows' = rows
    BY DEF Restart, dbVars
  <2>4. ASSUME NEW p \in Proc PROVE Written(task'[p].blob)
    BY <2>2, IdleWritten DEF DeltasWritten
  <2>5. ASSUME NEW p \in Proc, NEW j \in 1 .. Len(inbox'[p]) PROVE Written(inbox'[p][j].blob)
    <3>1. CASE inbox'[p] = <<>>
      BY <3>1
    <3>2. CASE inbox'[p] = inbox[p]
      BY <3>2 DEF DeltasWritten
    <3> QED
      BY <2>1, <3>1, <3>2
  <2> QED
    BY <2>3, <2>4, <2>5 DEF DeltasWritten, Written
<1> QED
  BY <1>2, <1>3, <1>4, <1>5, <1>6, <1>7 DEF Restart, dbVars

LEMMA TInvStep == TInv /\ [Next]_vars => TInv'
<1> SUFFICES ASSUME TInv, [Next]_vars PROVE TInv'
  OBVIOUS
<1>1. CASE UNCHANGED vars
  BY <1>1 DEF vars, TInv, TypeOK, CopiesWritten, CountersBounded, DeltasWritten, Written
<1>2. CASE Next
  BY <1>2, TInvSave, TInvLoop, TInvCall, TInvRestart, ChatSyncAssumption DEF Next
<1> QED
  BY <1>1, <1>2

\* Every variable keeps its type, in every behaviour: in particular the offset
\* from which chats are asked for (get_last_row_counter) is always a number, at
\* most the number of chats its user wrote.
THEOREM TypeCorrect == Spec => []TypeOK
<1>1. Spec => []TInv
  BY TInvInit, TInvStep, PTL DEF Spec
<1> QED
  BY <1>1, PTL DEF TInv

-------------------------------------------------------------------------------
(* No chat is skipped.  Inv is inductive for devices that save one chat at a
   time and are called by one other each.  Copies only grow, so what a message or a task was promised when it
   was made still holds when it is used.                                    *)

Grows ==
    \A u \in Device : /\ Len(rows[u]) <= Len(rows'[u])
                      /\ \A d \in Device : copy[d][u] \subseteq copy'[d][u]

\* A device holds exactly the chats up to its offset.
LEMMA WatermarkIs ==
    ASSUME TInv, RowCountersAreIds, NoGap, NEW d \in Device, NEW u \in Device
    PROVE  copy[d][u] = 1 .. Watermark(d, u) /\ Holds(d, u, Watermark(d, u))
<1> DEFINE counters == {rows[u][n].rc : n \in copy[d][u]}
<1>1. Len(rows[u]) \in Nat
  BY DEF TInv, TypeOK
<1>2. copy[d][u] \subseteq 1 .. Len(rows[u])
  BY DEF TInv, CopiesWritten
<1>3. counters = copy[d][u]
  BY <1>2 DEF RowCountersAreIds
<1>4. CASE counters = {}
  BY <1>3, <1>4 DEF Watermark, Holds
<1>5. CASE counters # {}
  <2>1. \E c \in counters : \A e \in counters : e <= c
    <3>1. copy[d][u] \subseteq Nat /\ \A n \in copy[d][u] : n <= Len(rows[u])
      BY <1>1, <1>2
    <3> HIDE DEF counters
    <3>2. copy[d][u] # {}
      BY <1>3, <1>5
    <3>3. \E c \in copy[d][u] : \A e \in copy[d][u] : e <= c
      BY <1>1, <3>1, <3>2, MaxExists
    <3> QED
      BY <1>3, <3>3
  <2>2. Watermark(d, u) \in counters /\ \A e \in counters : e <= Watermark(d, u)
    <3>1. Watermark(d, u) = CHOOSE c \in counters : \A e \in counters : e <= c
      BY <1>5 DEF Watermark
    <3> HIDE DEF counters
    <3> QED
      BY <2>1, <3>1
  <2> HIDE DEF counters
  <2>3. 1 .. Watermark(d, u) \subseteq copy[d][u]
    BY <1>3, <2>2 DEF NoGap, Holds
  <2>4. copy[d][u] \subseteq 1 .. Watermark(d, u)
    BY <1>1, <1>2, <1>3, <2>2
  <2> QED
    BY <2>3, <2>4 DEF Holds
<1> QED
  BY <1>4, <1>5

\* The chats past a counter that a device has reached leave no gap in its copy.
LEMMA DeltaFits ==
    ASSUME TInv, RowCountersAreIds, OwnChatsHeld, NEW d \in Device, NEW e \in Device,
           NEW lrc \in Nat, Holds(e, d, lrc)
    PROVE  Fits(e, Delta(d, lrc))
<1>1. Len(rows[d]) \in Nat /\ copy[d][d] = 1 .. Len(rows[d])
  BY DEF TInv, TypeOK, OwnChatsHeld
<1>2. Delta(d, lrc) = {d} \X {n \in 1 .. Len(rows[d]) : n > lrc}
  BY <1>1 DEF Delta, RowCountersAreIds
<1>3. ASSUME NEW r \in Delta(d, lrc)
      PROVE  /\ r[1] = d
             /\ r[2] \in 1 .. Len(rows[d])
             /\ \A m \in 1 .. r[2] : m \in copy[e][d] \/ <<d, m>> \in Delta(d, lrc)
  <2>1. r[1] = d /\ r[2] \in 1 .. Len(rows[d])
    BY <1>2
  <2>2. ASSUME NEW m \in 1 .. r[2], m > lrc PROVE <<d, m>> \in Delta(d, lrc)
    <3>1. m \in {n \in 1 .. Len(rows[d]) : n > lrc}
      BY <1>1, <2>1, <2>2
    <3> QED
      BY <1>2, <3>1
  <2>3. ASSUME NEW m \in 1 .. r[2], ~(m > lrc) PROVE m \in copy[e][d]
    BY <2>1, <2>3, <1>1 DEF Holds
  <2> QED
    BY <2>1, <2>2, <2>3
<1> QED
  BY <1>3 DEF Fits

\* What was promised keeps holding.
LEMMA PromisesKept ==
    ASSUME TInv, TInv', Grows
    PROVE  /\ \A d, u \in Device : \A k : Holds(d, u, k) => Holds(d, u, k)'
           /\ \A d \in Device : \A b : Fits(d, b) => Fits(d, b)'
<1>1. \A u \in Device : 1 .. Len(rows[u]) \subseteq 1 .. Len(rows'[u])
  BY DEF TInv, TypeOK, Grows
<1> QED
  BY <1>1 DEF Holds, Fits, Grows

\* Messages and tasks stay safe when the new ones are safe in the old state.
LEMMA NetSafe ==
    ASSUME TInv, TInv', Grows, MessagesSafe, TasksSafe,
           \A q \in Proc : TaskSafe(q, task'[q]),
           \A q \in Proc : \A j \in 1 .. Len(inbox'[q]) : MsgSafe(q, inbox'[q][j])
    PROVE  MessagesSafe' /\ TasksSafe'
<1>1. ASSUME NEW q \in Proc, NEW m \in Msg, MsgSafe(q, m)
      PROVE  MsgSafe(q, m)'
  <2>1. m.from.dev \in Device /\ q.dev \in Device /\ q.topic \in Device
    BY ProcType DEF Msg
  <2> QED
    BY <1>1, <2>1, PromisesKept DEF MsgSafe
<1>2. ASSUME NEW q \in Proc, NEW t \in Task, TaskSafe(q, t)
      PROVE  TaskSafe(q, t)'
  <2>1. q.dev \in Device
    BY ProcType
  <2> QED
    BY <1>2, <2>1, PromisesKept DEF TaskSafe
<1>3. \A q \in Proc : /\ task'[q] \in Task
                      /\ \A j \in 1 .. Len(inbox'[q]) : inbox'[q][j] \in Msg
  BY EventType DEF TInv, TypeOK
<1>4. MessagesSafe'
  BY <1>1, <1>3 DEF MessagesSafe
<1>5. TasksSafe'
  BY <1>2, <1>3 DEF TasksSafe
<1> QED
  BY <1>4, <1>5

\* A step of the network only.
LEMMA NetInv ==
    ASSUME Inv, TInv', UNCHANGED <<dbVars, saver>>,
           \A q \in Proc : TaskSafe(q, task'[q]),
           \A q \in Proc : \A j \in 1 .. Len(inbox'[q]) : MsgSafe(q, inbox'[q][j])
    PROVE  Inv'
<1>1. Grows
  BY DEF Grows, dbVars, Inv, TInv, TypeOK
<1>2. MessagesSafe' /\ TasksSafe'
  BY <1>1, NetSafe DEF Inv, IInv
<1>3. RowCountersAreIds' /\ OwnChatsHeld' /\ NoGap' /\ SaverFresh'
  BY DEF Inv, IInv, RowCountersAreIds, OwnChatsHeld, NoGap, SaverFresh, Holds, dbVars
<1> QED
  BY <1>2, <1>3 DEF Inv, IInv

LEMMA SetTaskSafe ==
    ASSUME Inv, NEW p \in Proc, NEW t, SetTask(p, t), TaskSafe(p, t)
    PROVE  \A q \in Proc : TaskSafe(q, task'[q])
  BY DEF Inv, IInv, TInv, TypeOK, TasksSafe, SetTask

LEMMA IdleSafe == \A p, at : at \in {"off", "joined", "recv"} => TaskSafe(p, Idle(at))
  BY DEF TaskSafe, Idle

LEMMA ConsumeSafe ==
    ASSUME Inv, NEW p \in Proc, inbox[p] # <<>>, Consume(p)
    PROVE  \A q \in Proc : \A j \in 1 .. Len(inbox'[q]) : MsgSafe(q, inbox'[q][j])
<1>1. TypeOK /\ MessagesSafe
  BY DEF Inv, IInv, TInv
<1>2. \A q \in Proc : \A j \in 1 .. Len(inbox'[q]) :
        \E k \in 1 .. Len(inbox[q]) : inbox'[q][j] = inbox[q][k]
  BY <1>1, ConsumeType
<1> QED
  BY <1>1, <1>2 DEF MessagesSafe

LEMMA BroadcastSafe ==
    ASSUME Inv, NEW p \in Proc, NEW m \in Msg, NEW consumed \in BOOLEAN,
           consumed => inbox[p] # <<>>, Broadcast(p, m, consumed),
           \A q \in Audience(p) : MsgSafe(q, m)
    PROVE  \A q \in Proc : \A j \in 1 .. Len(inbox'[q]) : MsgSafe(q, inbox'[q][j])
<1>1. TypeOK /\ MessagesSafe
  BY DEF Inv, IInv, TInv
<1> SUFFICES ASSUME NEW q \in Proc, NEW j \in 1 .. Len(inbox'[q])
             PROVE  MsgSafe(q, inbox'[q][j])
  OBVIOUS
<1>2. \/ inbox'[q][j] = m /\ q \in Audience(p)
      \/ \E k \in 1 .. Len(inbox[q]) : inbox'[q][j] = inbox[q][k]
  BY <1>1, BroadcastType
<1> QED
  BY <1>1, <1>2 DEF MessagesSafe

LEMMA IInvInit == Init => IInv
<1> SUFFICES ASSUME Init PROVE IInv
  OBVIOUS
<1>1. RowCountersAreIds /\ OwnChatsHeld /\ NoGap /\ SaverFresh
  BY DEF Init, InitNet, RowCountersAreIds, OwnChatsHeld, NoGap, SaverFresh
<1>2. MessagesSafe
  BY DEF Init, InitNet, MessagesSafe
<1>3. TasksSafe
  BY IdleSafe DEF Init, InitNet, TasksSafe
<1> QED
  BY <1>1, <1>2, <1>3 DEF IInv

\* Saving a chat, one at a time: its counter is the next one.
LEMMA InvSave ==
    ASSUME OneSaver, Inv, TInv', NEW d \in Device, NEW s \in Saver, Save(d, s)
    PROVE  Inv'
<1>1. TInv /\ TypeOK /\ IInv
  BY DEF Inv, TInv
<1>2. Watermark(d, d) = Len(rows[d]) /\ Len(rows[d]) \in Nat
  <2>1. Len(rows[d]) \in Nat /\ Watermark(d, d) \in 0 .. Len(rows[d])
    BY <1>1, WatermarkType DEF TypeOK
  <2>2. 1 .. Watermark(d, d) = 1 .. Len(rows[d])
    BY <1>1, WatermarkIs DEF IInv, OwnChatsHeld
  <2> QED
    BY <2>1, <2>2
<1>3. CASE SaveReadCounter(d, s)
  <2>1. UNCHANGED <<dbVars, netVars>> /\ SaverFresh'
    BY <1>1, <1>2, <1>3 DEF SaveReadCounter, IInv, SaverFresh, TypeOK, dbVars
  <2>2. Grows
    BY <1>1, <2>1 DEF Grows, dbVars, TypeOK
  <2>3. MessagesSafe' /\ TasksSafe'
    BY <1>1, <2>1, <2>2, NetSafe DEF IInv, netVars, MessagesSafe, TasksSafe
  <2>4. RowCountersAreIds' /\ OwnChatsHeld' /\ NoGap'
    BY <1>1, <2>1 DEF IInv, RowCountersAreIds, OwnChatsHeld, NoGap, Holds, dbVars
  <2> QED
    BY <2>1, <2>3, <2>4 DEF Inv, IInv
<1>4. ASSUME NEW sn \in Session, InsertRow(d, Len(rows[d]) + 1, sn),
             \A t \in Saver : saver'[d][t] = None,
             \A e \in Device \ {d} : saver'[e] = saver[e],
             UNCHANGED netVars
      PROVE  Inv'
  <2>1. /\ \A u \in Device : Len(rows[u]) \in Nat
        /\ Len(rows'[d]) = Len(rows[d]) + 1
        /\ \A n \in 1 .. Len(rows[d]) : rows'[d][n] = rows[d][n]
        /\ rows'[d][Len(rows[d]) + 1].rc = Len(rows[d]) + 1
        /\ \A u \in Device \ {d} : rows'[u] = rows[u]
        /\ \A e, u \in Device : copy'[e][u] = copy[e][u] \union
                              (IF e = d /\ u = d THEN {Len(rows[d]) + 1} ELSE {})
    BY <1>1, <1>2, <1>4, InsertRowType
  <2>2. Grows
    <3>1. \A u \in Device : Len(rows[u]) <= Len(rows'[u])
      <4>1. Len(rows[d]) <= Len(rows'[d])
        BY <1>2, <2>1
      <4>2. \A u \in Device \ {d} : Len(rows[u]) <= Len(rows'[u])
        BY <2>1
      <4> QED
        BY <4>1, <4>2
    <3> QED
      BY <2>1, <3>1 DEF Grows
  <2>3. MessagesSafe' /\ TasksSafe'
    BY <1>1, <1>4, <2>2, NetSafe DEF IInv, netVars, MessagesSafe, TasksSafe
  <2>4. RowCountersAreIds'
    <3>1. ASSUME NEW n \in 1 .. Len(rows'[d]) PROVE rows'[d][n].rc = n
      BY <1>1, <1>2, <2>1, <3>1 DEF IInv, RowCountersAreIds
    <3>2. ASSUME NEW u \in Device \ {d}, NEW n \in 1 .. Len(rows'[u]) PROVE rows'[u][n].rc = n
      BY <1>1, <2>1, <3>2 DEF IInv, RowCountersAreIds
    <3> QED
      BY <3>1, <3>2 DEF RowCountersAreIds
  <2>5. OwnChatsHeld'
    <3>1. copy'[d][d] = 1 .. Len(rows'[d])
      <4>1. copy'[d][d] = 1 .. Len(rows[d]) \union {Len(rows[d]) + 1}
        BY <1>1, <2>1 DEF IInv, OwnChatsHeld
      <4>2. 1 .. Len(rows[d]) \union {Len(rows[d]) + 1} = 1 .. Len(rows[d]) + 1
        BY <1>2
      <4> QED
        BY <2>1, <4>1, <4>2
    <3>2. \A u \in Device \ {d} : copy'[u][u] = 1 .. Len(rows'[u])
      BY <1>1, <2>1 DEF IInv, OwnChatsHeld
    <3> QED
      BY <3>1, <3>2 DEF OwnChatsHeld
  <2>6. NoGap'
    <3>1. ASSUME NEW n \in copy'[d][d] PROVE n \in 1 .. Len(rows'[d]) /\ 1 .. n \subseteq copy'[d][d]
      BY <1>2, <2>1, <2>5, <3>1 DEF OwnChatsHeld
    <3>2. ASSUME NEW e \in Device, NEW u \in Device, ~(e = d /\ u = d), NEW n \in copy'[e][u]
          PROVE  n \in 1 .. Len(rows'[u]) /\ 1 .. n \subseteq copy'[e][u]
      <4>1. copy'[e][u] = copy[e][u]
        <5>1. copy'[e][u] = copy[e][u] \union {}
          BY <2>1, <3>2
        <5> QED
          BY <5>1
      <4>2. n \in 1 .. Len(rows[u]) /\ 1 .. n \subseteq copy[e][u]
        BY <1>1, <3>2, <4>1 DEF IInv, NoGap, Holds
      <4>3. Len(rows[u]) <= Len(rows'[u]) /\ Len(rows[u]) \in Nat /\ Len(rows'[u]) \in Nat
        BY <2>1, <2>2 DEF Grows, TInv, TypeOK
      <4> QED
        BY <4>1, <4>2, <4>3
    <3> QED
      BY <3>1, <3>2 DEF NoGap, Holds
  <2>7. SaverFresh'
    BY <1>1, <1>4, <2>1 DEF IInv, SaverFresh
  <2> QED
    BY <2>3, <2>4, <2>5, <2>6, <2>7 DEF Inv, IInv
<1>5. CASE SaveInsert(d, s)
  <2>1. saver[d][s] = Len(rows[d])
    BY <1>1, <1>5 DEF SaveInsert, IInv, SaverFresh
  <2>2. PICK sn \in sessions[d] : InsertRow(d, Len(rows[d]) + 1, sn)
    BY <1>5, <2>1 DEF SaveInsert
  <2>3. sn \in Session
    BY <1>1 DEF TypeOK
  <2> QED
    BY <1>1, <1>4, <1>5, <2>2, <2>3 DEF SaveInsert, OneSaver, TypeOK
<1>6. CASE SaveFirst(d, s)
  <2>1. PICK sn \in Session : InsertRow(d, Len(rows[d]) + 1, sn)
    BY <1>2, <1>6 DEF SaveFirst
  <2> QED
    BY <1>1, <1>4, <1>6, <2>1 DEF SaveFirst, OneSaver, TypeOK
<1> QED
  BY <1>3, <1>5, <1>6 DEF Save

\* What a delta brings leaves no gap, also when it is cut short.
LEMMA InvApply ==
    ASSUME Inv, TInv', NEW p \in Proc, ApplyDelta(p)
    PROVE  Inv' /\ Grows /\ \E U \in Device : \A d, u \in Device :
                                d # p.dev \/ u # U => copy'[d][u] = copy[d][u]
<1> DEFINE d == p.dev
           blob == task[p].blob
           t == IF task[p].at = "orphan" THEN Idle("off") ELSE [task[p] EXCEPT !.at = "reply"]
<1>1. TInv /\ TypeOK /\ IInv /\ d \in Device /\ task[p] \in Task /\ TaskSafe(p, task[p])
  BY ProcType DEF Inv, TInv, TypeOK, IInv, TasksSafe
<1>2. PICK R \in Prefixes(blob) :
         copy' = [copy EXCEPT ![d] = [u \in Device |->
                     @[u] \union {row[2] : row \in {r \in R : r[1] = u}}]]
  BY <1>1 DEF ApplyDelta
<1> DEFINE new(u) == {row[2] : row \in {r \in R : r[1] = u}}
<1>3. SetTask(p, t) /\ UNCHANGED <<rows, saver, call, inbox, store>>
  BY DEF ApplyDelta
<1>4. PICK U \in Device : \A r \in blob :
        /\ r[1] = U
        /\ r[2] \in 1 .. Len(rows[U])
        /\ \A m \in 1 .. r[2] : m \in copy[d][U] \/ <<U, m>> \in blob
  BY <1>1 DEF ApplyDelta, TaskSafe, Fits
<1>5. Len(rows[U]) \in Nat
  BY <1>1 DEF TypeOK
<1>6. R \subseteq blob /\ \A r \in R : \A m \in 1 .. r[2] : <<U, m>> \in blob => <<U, m>> \in R
  <2>1. CASE R = blob
    BY <2>1
  <2>2. ASSUME NEW x \in blob, R = {row \in blob : row[2] < x[2]}
        PROVE  R \subseteq blob /\ \A r \in R : \A m \in 1 .. r[2] : <<U, m>> \in blob => <<U, m>> \in R
    <3>1. x[2] \in Nat /\ \A r \in blob : r[2] \in Nat
      BY <1>4, <1>5
    <3>2. ASSUME NEW r \in R, NEW m \in 1 .. r[2], <<U, m>> \in blob PROVE <<U, m>> \in R
      <4>1. r \in blob /\ r[2] < x[2]
        BY <2>2
      <4>2. m < x[2]
        BY <3>1, <4>1
      <4> QED
        BY <2>2, <3>2, <4>2
    <3> QED
      BY <2>2, <3>2
  <2> QED
    BY <2>1, <2>2 DEF Prefixes
<1>7. \A u \in Device : copy'[d][u] = copy[d][u] \union new(u)
  BY <1>1, <1>2 DEF TypeOK
<1>8. \A e \in Device \ {d} : copy'[e] = copy[e]
  BY <1>1, <1>2 DEF TypeOK
<1>9. \A n \in new(U) : <<U, n>> \in R /\ n \in 1 .. Len(rows[U])
  <2>1. \A r \in blob : r = <<r[1], r[2]>>
    BY <1>1 DEF Task, Blob
  <2> QED
    BY <1>4, <1>6, <2>1
<1>10. \A u \in Device : u # U => copy'[d][u] = copy[d][u]
  <2>1. \A u \in Device : u # U => new(u) = {}
    BY <1>4, <1>6
  <2> HIDE DEF new
  <2> QED
    BY <1>7, <2>1
<1> HIDE DEF d, blob
<1>11. \A m : <<U, m>> \in R => m \in new(U)
  OBVIOUS
<1> HIDE DEF new
<1>12. \A e, u \in Device : e # d \/ u # U => copy'[e][u] = copy[e][u]
  BY <1>8, <1>10
<1>13. Grows
  <2>1. \A e, u \in Device : copy[e][u] \subseteq copy'[e][u]
    BY <1>7, <1>8
  <2>2. \A u \in Device : Len(rows'[u]) = Len(rows[u]) /\ Len(rows[u]) \in Nat
    BY <1>1, <1>3 DEF TypeOK
  <2> QED
    BY <2>1, <2>2 DEF Grows
<1>14. NoGap'
  <2>1. ASSUME NEW e \in Device, NEW u \in Device, NEW n \in copy'[e][u]
        PROVE  n \in 1 .. Len(rows[u]) /\ 1 .. n \subseteq copy'[e][u]
    <3>1. CASE n \in copy[e][u]
      BY <1>1, <1>13, <3>1 DEF IInv, NoGap, Holds, Grows
    <3>2. CASE n \notin copy[e][u]
      <4>1. e = d /\ u = U
        BY <1>12, <2>1, <3>2
      <4>2. n \in new(U)
        BY <1>1, <1>7, <2>1, <3>2, <4>1
      <4>3. <<U, n>> \in R /\ n \in 1 .. Len(rows[U])
        BY <1>9, <4>2
      <4>4. ASSUME NEW m \in 1 .. n PROVE m \in copy'[d][U]
        <5>1. m \in 1 .. <<U, n>>[2] /\ <<U, n>> \in blob
          BY <1>6, <4>3
        <5>2. m \in copy[d][U] \/ <<U, m>> \in blob
          BY <1>4, <4>3, <5>1
        <5>3. <<U, m>> \in blob => m \in new(U)
          BY <1>6, <1>11, <4>3, <5>1
        <5> QED
          BY <1>7, <5>2, <5>3
      <4> QED
        BY <4>1, <4>3, <4>4
    <3> QED
      BY <3>1, <3>2
  <2> QED
    BY <1>3, <2>1 DEF NoGap, Holds
<1>15. OwnChatsHeld'
  BY <1>1, <1>3, <1>13, <1>14 DEF IInv, OwnChatsHeld, NoGap, Grows
<1>16. RowCountersAreIds' /\ SaverFresh'
  BY <1>1, <1>3 DEF IInv, RowCountersAreIds, SaverFresh
<1>17. TaskSafe(p, t)
  <2>1. CASE task[p].at = "orphan"
    BY <2>1, IdleSafe
  <2>2. CASE task[p].at = "apply"
    BY <1>1, <2>2 DEF TaskSafe, Task
  <2> QED
    BY <2>1, <2>2 DEF ApplyDelta
<1> HIDE DEF t
<1>18. MessagesSafe' /\ TasksSafe'
  <2>1. \A q \in Proc : TaskSafe(q, task'[q])
    BY <1>3, <1>17, SetTaskSafe
  <2> QED
    BY <1>1, <1>3, <1>13, <2>1, NetSafe DEF IInv, MessagesSafe
<1> QED
  BY <1>12, <1>13, <1>14, <1>15, <1>16, <1>18 DEF Inv, IInv, d

\* The gossip loop of a process.  That the audience of a process is the peer
\* that it answers is where one caller for each device is needed.
LEMMA InvLoop ==
    ASSUME OneCallerPerTopic, Inv, TInv', NEW p \in Proc, Handle(p) \/ Fault(p)
    PROVE  Inv'
<1>1. TInv /\ TypeOK /\ IInv /\ task[p] \in Task /\ TaskSafe(p, task[p]) /\ p.dev \in Device
  BY ProcType DEF Inv, TInv, TypeOK, IInv, TasksSafe
<1>2. inbox[p] # <<>> => Head(inbox[p]) \in Msg /\ MsgSafe(p, Head(inbox[p]))
  BY <1>1, EventType DEF IInv, MessagesSafe
<1>3. \A q \in Audience(p) : q \in Proc /\ q.topic = p.topic /\ q.dev # p.dev /\ q.dev \in Device
  BY ProcType DEF Audience
<1>4. ASSUME NEW e \in Device \ {p.dev}, \E r \in Proc : r.topic = p.topic /\ r.dev = e
      PROVE  \A q \in Audience(p) : q.dev = e
  BY <1>1, <1>3, <1>4, OnePeer
<1>5. ASSUME UNCHANGED <<task, inbox>> PROVE \A q \in Proc : TaskSafe(q, task'[q])
  BY <1>1, <1>5 DEF IInv, TasksSafe
<1>6. CASE Lose(p)
  BY <1>1, <1>6, ConsumeSafe, NetInv DEF Lose, IInv, TasksSafe
<1>7. CASE HandlerError(p)
  <2>1. \A q \in Proc : TaskSafe(q, task'[q])
    BY <1>7, IdleSafe, SetTaskSafe DEF HandlerError
  <2> QED
    BY <1>1, <1>7, <2>1, NetInv DEF HandlerError, IInv, MessagesSafe
<1>8. CASE Ignore(p)
  BY <1>1, <1>8, ConsumeSafe, NetInv DEF Ignore, Receives, IInv, TasksSafe
<1>9. CASE ReceiveStart(p)
  <2> DEFINE m == Head(inbox[p])
             b == Delta(p.dev, m.lrc)
             t == [at |-> "counter", peer |-> m.from.dev, lrc |-> None, blob |-> b]
  <2>1. inbox[p] # <<>> /\ SetTask(p, t) /\ Consume(p) /\ m.kind = "SyncStart" /\ p.dev = p.topic
        /\ UNCHANGED <<dbVars, saver, call>>
    BY <1>9 DEF ReceiveStart, Receives, IsListener
  <2>2. /\ m.from.dev \in Device \ {p.dev} /\ m.lrc \in Nat /\ Holds(m.from.dev, p.dev, m.lrc)
        /\ m.from \in Proc /\ m.from.topic = p.topic
    BY <1>2, <2>1, ProcType DEF MsgSafe, Msg, Opt
  <2>3. Fits(m.from.dev, b)
    BY <1>1, <2>2, DeltaFits DEF IInv
  <2> HIDE DEF b
  <2>4. TaskSafe(p, t)
    BY <2>2, <2>3 DEF TaskSafe
  <2> HIDE DEF t, m
  <2>5. \A q \in Proc : TaskSafe(q, task'[q])
    BY <2>1, <2>4, SetTaskSafe
  <2> QED
    BY <2>1, <2>5, ConsumeSafe, NetInv
<1>10. CASE RejectStart(p)
  <2> DEFINE m == Message("SyncRejected", p, None, {})
  <2>1. m \in Msg
    BY MessageType, EmptyBlob DEF Opt
  <2>2. \A q \in Audience(p) : MsgSafe(q, m)
    BY <1>3 DEF MsgSafe, Message
  <2>3. inbox[p] # <<>> /\ Broadcast(p, m, TRUE)
    BY <1>10 DEF RejectStart, Receives
  <2> HIDE DEF m
  <2> QED
    BY <1>1, <1>10, <2>1, <2>2, <2>3, BroadcastSafe, NetInv DEF RejectStart, IInv, TasksSafe
<1>11. CASE SendDeltaInfo(p)
  <2> DEFINE m == Message("Delta", p, Watermark(p.dev, task[p].peer), task[p].blob)
  <2>1. Broadcast(p, m, FALSE) /\ SetTask(p, Idle("recv")) /\ UNCHANGED <<dbVars, saver, call, store>>
    BY <1>11 DEF SendDeltaInfo
  <2>2. /\ task[p].peer \in Device \ {p.dev} /\ Fits(task[p].peer, task[p].blob)
        /\ \E r \in Proc : r.topic = p.topic /\ r.dev = task[p].peer
    BY <1>1, <1>11 DEF SendDeltaInfo, TaskSafe
  <2>3. Holds(p.dev, task[p].peer, Watermark(p.dev, task[p].peer))
    BY <1>1, <2>2, WatermarkIs DEF IInv
  <2>4. m \in Msg
    <3>1. Len(rows[task[p].peer]) \in Nat
      BY <1>1, <2>2 DEF TypeOK
    <3>2. Watermark(p.dev, task[p].peer) \in Opt
      BY <1>1, <2>2, <3>1, WatermarkType DEF Opt
    <3>3. task[p].blob \in Blob
      BY <1>1 DEF Task
    <3> QED
      BY <3>2, <3>3, MessageType
  <2>5. \A q \in Audience(p) : MsgSafe(q, m)
    BY <1>3, <1>4, <2>2, <2>3 DEF MsgSafe, Message
  <2> HIDE DEF m
  <2>6. \A q \in Proc : TaskSafe(q, task'[q])
    BY <2>1, IdleSafe, SetTaskSafe
  <2> QED
    BY <2>1, <2>4, <2>5, <2>6, BroadcastSafe, NetInv
<1>12. CASE RefuseDelta(p)
  <2> DEFINE m == Message("SyncRejected", p, None, {})
  <2>1. m \in Msg
    BY MessageType, EmptyBlob DEF Opt
  <2>2. \A q \in Audience(p) : MsgSafe(q, m)
    BY <1>3 DEF MsgSafe, Message
  <2>3. inbox[p] # <<>> /\ Broadcast(p, m, TRUE)
    BY <1>12 DEF RefuseDelta, Receives
  <2> HIDE DEF m
  <2>4. \A q \in Proc : TaskSafe(q, task'[q])
    BY <1>12, IdleSafe, SetTaskSafe DEF RefuseDelta
  <2> QED
    BY <1>1, <1>12, <2>1, <2>2, <2>3, <2>4, BroadcastSafe, NetInv DEF RefuseDelta
<1>13. CASE ReceiveDelta(p)
  <2> DEFINE m == Head(inbox[p])
             t == [at |-> "apply", peer |-> m.from.dev, lrc |-> m.lrc, blob |-> m.blob]
  <2>1. inbox[p] # <<>> /\ SetTask(p, t) /\ Consume(p) /\ m.kind = "Delta"
        /\ UNCHANGED <<dbVars, saver, call>>
    BY <1>13 DEF ReceiveDelta, Receives
  <2>2. m.from.dev \in Device \ {p.dev} /\ MsgSafe(p, m) /\ m.from \in Proc
    BY <1>2, <2>1, ProcType DEF MsgSafe, Msg
  <2> HIDE DEF m
  <2>3. TaskSafe(p, t)
    BY <2>1, <2>2 DEF TaskSafe, MsgSafe
  <2> HIDE DEF t
  <2>4. \A q \in Proc : TaskSafe(q, task'[q])
    BY <2>1, <2>3, SetTaskSafe
  <2> QED
    BY <2>1, <2>4, ConsumeSafe, NetInv
<1>14. CASE ApplyDelta(p)
  BY <1>14, InvApply
<1>15. CASE Reply(p)
  <2>1. \A q \in Proc : TaskSafe(q, task'[q])
    BY <1>15, IdleSafe, SetTaskSafe DEF Reply
  <2>2. CASE task[p].lrc # None
    <3> DEFINE b == Delta(p.dev, task[p].lrc)
               m == Message("Delta", p, None, b)
    <3>1. task[p].peer \in Device \ {p.dev} /\ Holds(task[p].peer, p.dev, task[p].lrc)
          /\ task[p].lrc \in Nat
          /\ \E r \in Proc : r.topic = p.topic /\ r.dev = task[p].peer
      BY <1>1, <1>15, <2>2 DEF Reply, TaskSafe, Task, Opt
    <3>2. Fits(task[p].peer, b)
      BY <1>1, <3>1, DeltaFits DEF IInv
    <3>3. b \in Blob
      BY <1>1, DeltaType
    <3>4. m \in Msg
      BY <3>3, MessageType DEF Opt
    <3>5. Broadcast(p, m, FALSE)
      BY <1>15, <2>2 DEF Reply
    <3> HIDE DEF b
    <3>6. \A q \in Audience(p) : MsgSafe(q, m)
      BY <1>3, <1>4, <3>1, <3>2 DEF MsgSafe, Message
    <3> HIDE DEF m
    <3> QED
      BY <1>15, <2>1, <3>4, <3>5, <3>6, BroadcastSafe, NetInv DEF Reply
  <2>3. CASE task[p].lrc = None
    <3> DEFINE m == Message("SyncEnd", p, None, {})
    <3>1. m \in Msg
      BY MessageType, EmptyBlob DEF Opt
    <3>2. \A q \in Audience(p) : MsgSafe(q, m)
      BY <1>3 DEF MsgSafe, Message
    <3>3. Broadcast(p, m, FALSE)
      BY <1>15, <2>3 DEF Reply
    <3> HIDE DEF m
    <3> QED
      BY <1>15, <2>1, <3>1, <3>2, <3>3, BroadcastSafe, NetInv DEF Reply
  <2> QED
    BY <2>2, <2>3
<1> QED
  BY <1>6, <1>7, <1>8, <1>9, <1>10, <1>11, <1>12, <1>13, <1>14, <1>15 DEF Handle, Fault

\* A step of a sync call.
LEMMA InvCall ==
    ASSUME Inv, TInv', NEW i \in Initiator, CallStep(i) \/ FailStart(i) \/ Timeout(i)
    PROVE  Inv'
<1>1. TInv /\ TypeOK /\ IInv /\ i \in Proc /\ i.dev \in Device /\ i.topic \in Device
  BY ProcType DEF Inv, TInv
<1>2. ASSUME Abort(i)
      PROVE  /\ \A q \in Proc : TaskSafe(q, task'[q])
             /\ \A q \in Proc : \A j \in 1 .. Len(inbox'[q]) : MsgSafe(q, inbox'[q][j])
  <2> DEFINE t == IF task[i].at = "apply" THEN [task[i] EXCEPT !.at = "orphan"]
                  ELSE IF task[i].at = "orphan" THEN task[i]
                  ELSE Idle("off")
  <2>1. TaskSafe(i, task[i]) /\ task[i] \in Task
    BY <1>1 DEF IInv, TasksSafe, TypeOK
  <2>2. TaskSafe(i, t)
    <3>1. CASE task[i].at = "apply"
      BY <2>1, <3>1 DEF TaskSafe, Task
    <3>2. CASE task[i].at = "orphan"
      BY <2>1, <3>2
    <3>3. CASE task[i].at \notin {"apply", "orphan"}
      BY <3>3, IdleSafe
    <3> QED
      BY <3>1, <3>2, <3>3
  <2>3. SetTask(i, t)
    BY <1>2 DEF Abort
  <2> HIDE DEF t
  <2>4. \A q \in Proc : TaskSafe(q, task'[q])
    BY <1>1, <2>2, <2>3, SetTaskSafe
  <2>5. ASSUME NEW q \in Proc, NEW j \in 1 .. Len(inbox'[q]) PROVE MsgSafe(q, inbox'[q][j])
    <3>1. CASE inbox'[q] = <<>>
      BY <3>1
    <3>2. CASE inbox'[q] = inbox[q]
      BY <1>1, <3>2 DEF IInv, MessagesSafe
    <3> QED
      BY <1>1, <1>2, <3>1, <3>2 DEF Abort, TypeOK
  <2> QED
    BY <2>4, <2>5
<1>3. CASE Join(i)
  <2>1. \A q \in Proc : TaskSafe(q, task'[q])
    BY <1>1, <1>3, IdleSafe, SetTaskSafe DEF Join
  <2> QED
    BY <1>1, <1>3, <2>1, NetInv DEF Join, IInv, MessagesSafe
<1>4. CASE StartSync(i)
  <2> DEFINE m == Message("SyncStart", i, Watermark(i.dev, i.topic), {})
  <2>1. Broadcast(i, m, FALSE) /\ SetTask(i, Idle("recv")) /\ UNCHANGED <<dbVars, saver>>
    BY <1>4 DEF StartSync
  <2>2. Len(rows[i.topic]) \in Nat /\ Watermark(i.dev, i.topic) \in 0 .. Len(rows[i.topic])
    BY <1>1, WatermarkType DEF TypeOK
  <2>3. m \in Msg
    BY <1>1, <2>2, MessageType, EmptyBlob DEF Opt
  <2>4. \A q \in Audience(i) : MsgSafe(q, m)
    <3>1. Holds(i.dev, i.topic, Watermark(i.dev, i.topic)) /\ Watermark(i.dev, i.topic) # None
      BY <1>1, <2>2, WatermarkIs, ChatSyncAssumption DEF IInv
    <3>2. m.kind = "SyncStart" /\ m.from = i /\ m.lrc = Watermark(i.dev, i.topic)
      BY DEF Message
    <3>3. \A q \in Audience(i) : q.topic = i.topic /\ q.dev # i.dev
      BY DEF Audience
    <3> HIDE DEF m
    <3> QED
      BY <3>1, <3>2, <3>3 DEF MsgSafe
  <2> HIDE DEF m
  <2>5. \A q \in Proc : TaskSafe(q, task'[q])
    BY <1>1, <2>1, IdleSafe, SetTaskSafe
  <2> QED
    BY <1>1, <2>1, <2>3, <2>4, <2>5, BroadcastSafe, NetInv
<1>5. CASE ReceiveEnd(i)
  <2>1. \A q \in Proc : TaskSafe(q, task'[q])
    BY <1>1, <1>5, IdleSafe, SetTaskSafe DEF ReceiveEnd
  <2>2. ASSUME NEW q \in Proc, NEW j \in 1 .. Len(inbox'[q]) PROVE MsgSafe(q, inbox'[q][j])
    <3>1. CASE inbox'[q] = <<>>
      BY <3>1
    <3>2. CASE inbox'[q] = inbox[q]
      BY <1>1, <3>2 DEF IInv, MessagesSafe
    <3> QED
      BY <1>1, <1>5, <3>1, <3>2 DEF ReceiveEnd, TypeOK
  <2> QED
    BY <1>5, <2>1, <2>2, NetInv DEF ReceiveEnd
<1>6. CASE Return(i)
  BY <1>2, <1>6, NetInv DEF Return, Abort
<1>7. CASE Timeout(i)
  BY <1>2, <1>7, NetInv DEF Timeout, Abort
<1>8. CASE FailStart(i)
  BY <1>2, <1>8, NetInv DEF FailStart, Abort
<1> QED
  BY <1>3, <1>4, <1>5, <1>6, <1>7, <1>8 DEF CallStep

LEMMA InvRestart ==
    ASSUME Inv, TInv', NEW d \in Device, Restart(d)
    PROVE  Inv'
<1>1. TInv /\ TypeOK /\ IInv /\ UNCHANGED dbVars
  BY DEF Inv, TInv, Restart
<1>2. \A q \in Proc : TaskSafe(q, task'[q])
  <2>1. \A q \in Proc : task'[q] \in {task[q], Idle("recv"), Idle("off")}
    BY DEF Restart
  <2> QED
    BY <1>1, <2>1, IdleSafe DEF IInv, TasksSafe
<1>3. ASSUME NEW q \in Proc, NEW j \in 1 .. Len(inbox'[q]) PROVE MsgSafe(q, inbox'[q][j])
  <2>1. CASE inbox'[q] = <<>>
    BY <2>1
  <2>2. CASE inbox'[q] = inbox[q]
    BY <1>1, <2>2 DEF IInv, MessagesSafe
  <2> QED
    BY <2>1, <2>2 DEF Restart
<1>4. Grows
  BY <1>1 DEF Grows, dbVars, TypeOK
<1>5. MessagesSafe' /\ TasksSafe'
  BY <1>1, <1>2, <1>3, <1>4, NetSafe DEF IInv
<1>6. RowCountersAreIds' /\ OwnChatsHeld' /\ NoGap'
  BY <1>1 DEF IInv, RowCountersAreIds, OwnChatsHeld, NoGap, Holds, dbVars
<1>7. SaverFresh'
  BY <1>1 DEF Restart, IInv, SaverFresh, TypeOK, dbVars
<1> QED
  BY <1>5, <1>6, <1>7 DEF Inv, IInv

LEMMA InvStep ==
    ASSUME OneCallerPerTopic, OneSaver
    PROVE  Inv /\ [Next]_vars => Inv'
<1> SUFFICES ASSUME Inv, [Next]_vars PROVE Inv'
  OBVIOUS
<1>1. TInv'
  BY TInvStep DEF Inv
<1>2. CASE UNCHANGED vars
  BY <1>1, <1>2 DEF vars, Inv, IInv, RowCountersAreIds, OwnChatsHeld, NoGap, SaverFresh,
        MessagesSafe, MsgSafe, TasksSafe, TaskSafe, Fits, Holds
<1>3. CASE Next
  BY <1>1, <1>3, InvSave, InvLoop, InvCall, InvRestart, ChatSyncAssumption DEF Next
<1> QED
  BY <1>2, <1>3

\* The invariant, on every behaviour.
LEMMA Invariance ==
    ASSUME OneCallerPerTopic, OneSaver
    PROVE  Spec => []Inv
<1>1. Init => Inv
  BY TInvInit, IInvInit DEF Inv
<1>2. Inv /\ [Next]_vars => Inv'
  BY InvStep
<1> QED
  BY <1>1, <1>2, PTL DEF Spec

\* Devices that save one chat at a time, each called by at most one other (any
\* number of calls), never skip a chat: the offset from
\* which a device asks for more chats of a user never passes one it lacks,
\* whatever messages are lost or handled late, however often a call is repeated
\* after a timeout, whoever restarts and wherever a write of apply_delta fails.
THEOREM NeverSkipped ==
    ASSUME OneCallerPerTopic, OneSaver
    PROVE  Spec => []NoChatSkipped
<1>1. Inv => NoChatSkipped
  <2> SUFFICES ASSUME Inv, NEW d \in Device, NEW u \in Device, NEW n \in 1 .. Len(rows[u]),
                      rows[u][n].rc <= Watermark(d, u)
               PROVE  n \in copy[d][u]
    BY DEF NoChatSkipped
  <2>1. TInv /\ IInv /\ Len(rows[u]) \in Nat
    BY DEF Inv, TInv, TypeOK
  <2>2. rows[u][n].rc = n
    BY <2>1 DEF IInv, RowCountersAreIds
  <2>3. copy[d][u] = 1 .. Watermark(d, u)
    BY <2>1, WatermarkIs DEF IInv
  <2>4. Watermark(d, u) \in 0 .. Len(rows[u])
    BY <2>1, WatermarkType
  <2> QED
    BY <2>1, <2>2, <2>3, <2>4
<1> QED
  BY <1>1, Invariance, PTL

-------------------------------------------------------------------------------
(* Chat sync implements the log *)

LEMMA InitImplements == Init => Log!Init
  BY DEF Init, InitNet, Log!Init

\* A device holds the chats of a user up to its offset: before and after a step.
HeldUpToOffset ==
    \A d, u \in Device : /\ copy[d][u] = 1 .. Watermark(d, u)
                         /\ Watermark(d, u) \in 0 .. Len(rows[u])

LEMMA OffsetAfterStep == Inv' => HeldUpToOffset'
<1>1. Inv => HeldUpToOffset
  BY WatermarkIs, WatermarkType DEF Inv, IInv, HeldUpToOffset
<1> QED
  BY <1>1, PTL

LEMMA StepImplements ==
    ASSUME OneCallerPerTopic, OneSaver, Inv, Inv', [Next]_vars
    PROVE  [Log!Next]_(Log!vars)
<1> DEFINE size == [u \in Device |-> Len(rows[u])]
<1>1. TInv /\ TypeOK /\ IInv /\ TInv' /\ IInv'
  BY DEF Inv, TInv
<1>2. ASSUME UNCHANGED <<rows, copy>> PROVE UNCHANGED Log!vars
  BY <1>2 DEF Log!vars
<1>3. CASE UNCHANGED vars
  BY <1>2, <1>3 DEF vars
<1>4. ASSUME NEW d \in Device, NEW s \in Saver, Save(d, s) PROVE [Log!Next]_(Log!vars)
  <2>1. CASE SaveReadCounter(d, s)
    BY <1>2, <2>1 DEF SaveReadCounter, dbVars
  <2>2. ASSUME NEW rc, NEW sn, InsertRow(d, rc, sn) PROVE Log!Write(d)
    <3>1. \A u \in Device : rows[u] \in Seq(Row) /\ Len(rows[u]) \in Nat
      BY <1>1 DEF TypeOK
    <3>2. Len(rows'[d]) = Len(rows[d]) + 1
      BY <1>1, <2>2, <3>1 DEF InsertRow, TypeOK
    <3>3. \A u \in Device \ {d} : rows'[u] = rows[u]
      BY <1>1, <2>2 DEF InsertRow, TypeOK
    <3>4. size' = [size EXCEPT ![d] = @ + 1]
      BY <3>2, <3>3
    <3>5. copy' = [copy EXCEPT ![d][d] = @ \union {size[d] + 1}]
      BY <2>2 DEF InsertRow
    <3> QED
      BY <3>4, <3>5 DEF Log!Write
  <2>3. CASE SaveInsert(d, s)
    BY <2>2, <2>3 DEF SaveInsert, Log!Next
  <2>4. CASE SaveFirst(d, s)
    BY <2>2, <2>4 DEF SaveFirst, Log!Next
  <2> QED
    BY <1>4, <2>1, <2>3, <2>4 DEF Save
<1>5. ASSUME NEW p \in Proc, Handle(p) \/ Fault(p) PROVE [Log!Next]_(Log!vars)
  <2>1. CASE ApplyDelta(p)
    <3> DEFINE d == p.dev
    <3>1. PICK U \in Device : \A e, u \in Device : e # d \/ u # U => copy'[e][u] = copy[e][u]
      BY <1>1, <2>1, InvApply
    <3>2. Grows /\ d \in Device
      BY <1>1, <2>1, InvApply, ProcType
    <3>3. rows' = rows /\ Len(rows[U]) \in Nat
      BY <1>1, <2>1 DEF ApplyDelta, TypeOK
    <3>4. copy'[d][U] = 1 .. Watermark(d, U)' /\ Watermark(d, U)' \in 0 .. Len(rows'[U])
      BY <3>2, OffsetAfterStep DEF HeldUpToOffset
    <3>5. copy \in [Device -> [Device -> SUBSET Nat]] /\ copy' \in [Device -> [Device -> SUBSET Nat]]
      BY <1>1 DEF TInv, TypeOK
    <3> HIDE DEF d
    <3>6. copy' = [copy EXCEPT ![d][U] = copy'[d][U]]
      BY <3>1, <3>2, <3>5
    <3>7. copy[d][U] \subseteq copy'[d][U]
      BY <3>2 DEF Grows
    <3>8. CASE Watermark(d, U)' = 0
      <4>1. copy'[d][U] = copy[d][U]
        BY <3>4, <3>7, <3>8
      <4>2. copy' = copy
        BY <3>2, <3>5, <3>6, <4>1
      <4> QED
        BY <1>2, <3>3, <4>2
    <3>9. CASE Watermark(d, U)' # 0
      <4> DEFINE k == Watermark(d, U)'
      <4>1. k \in 1 .. size[U]
        BY <3>3, <3>4, <3>9
      <4>2. copy'[d][U] = copy[d][U] \union 1 .. k
        BY <3>4, <3>7
      <4>3. copy' = [copy EXCEPT ![d][U] = @ \union 1 .. k]
        BY <3>6, <4>2
      <4>4. size' = size
        BY <3>3
      <4> HIDE DEF k
      <4>5. Log!CatchUp(d, U)
        BY <4>1, <4>3, <4>4 DEF Log!CatchUp
      <4> QED
        BY <3>2, <4>5 DEF Log!Next
    <3> QED
      BY <3>8, <3>9
  <2>2. CASE ~ApplyDelta(p)
    BY <1>2, <1>5, <2>2 DEF Handle, Fault, Ignore, ReceiveStart, SendDeltaInfo, ReceiveDelta, Reply,
          Lose, HandlerError, RejectStart, RefuseDelta, dbVars
  <2> QED
    BY <2>1, <2>2
<1>6. ASSUME NEW i \in Initiator, CallStep(i) \/ FailStart(i) \/ Timeout(i) PROVE [Log!Next]_(Log!vars)
  BY <1>2, <1>6 DEF CallStep, Join, StartSync, ReceiveEnd, Return, FailStart, Timeout, dbVars
<1>7. ASSUME NEW d \in MayRestart, Restart(d) PROVE [Log!Next]_(Log!vars)
  BY <1>2, <1>7 DEF Restart, dbVars
<1> QED
  BY <1>3, <1>4, <1>5, <1>6, <1>7 DEF Next

\* Under the same conditions sync implements the abstract
\* log: every save appends to the log of its user, every apply_delta catches up
\* with the log of one user without a gap or changes nothing, and no other step
\* of the protocol touches the chats.
THEOREM SyncImplementsLog ==
    ASSUME OneCallerPerTopic, OneSaver
    PROVE  Spec => ImplementsChatLog
<1>1. Inv /\ Inv' /\ [Next]_vars => [Log!Next]_(Log!vars)
  BY StepImplements
<1> QED
  BY <1>1, InitImplements, Invariance, PTL DEF Spec, ImplementsChatLog, Log!Spec

-------------------------------------------------------------------------------
(* A copied chat is never without its session *)

SessionInv == TInv /\ OwnChatsHeld /\ SessionsFollowChats

LEMMA SessionInvInit == Init => SessionInv
<1> SUFFICES ASSUME Init PROVE SessionInv
  OBVIOUS
<1>1. OwnChatsHeld /\ SessionsFollowChats
  BY DEF Init, OwnChatsHeld, SessionsFollowChats
<1> QED
  BY <1>1, TInvInit DEF SessionInv

\* A saved chat has a session of its user's device.
LEMMA SessionInvSave ==
    ASSUME SessionInv, TInv', NEW d \in Device, NEW s \in Saver, Save(d, s)
    PROVE  SessionInv'
<1>1. TInv /\ TypeOK /\ CopiesWritten /\ OwnChatsHeld /\ SessionsFollowChats
  BY DEF SessionInv, TInv
<1>2. CASE SaveReadCounter(d, s)
  BY <1>1, <1>2 DEF SaveReadCounter, dbVars, SessionInv, OwnChatsHeld, SessionsFollowChats
<1>3. ASSUME NEW rc \in Nat, NEW sn \in Session, InsertRow(d, rc, sn), sn \in sessions'[d],
             \A e \in Device : sessions[e] \subseteq sessions'[e]
      PROVE  SessionInv'
  <2>1. /\ \A u \in Device : Len(rows[u]) \in Nat
        /\ Len(rows'[d]) = Len(rows[d]) + 1
        /\ \A n \in 1 .. Len(rows[d]) : rows'[d][n] = rows[d][n]
        /\ \A u \in Device \ {d} : rows'[u] = rows[u]
        /\ \A e, u \in Device : copy'[e][u] = copy[e][u] \union
                              (IF e = d /\ u = d THEN {Len(rows[d]) + 1} ELSE {})
    BY <1>1, <1>3, InsertRowType
  <2>2. rows'[d][Len(rows[d]) + 1].session = sn
    <3>1. rows' = [rows EXCEPT ![d] = Append(rows[d], [rc |-> rc, session |-> sn])]
      BY <1>3 DEF InsertRow
    <3>2. rows[d] \in Seq(Row) /\ Append(rows[d], [rc |-> rc, session |-> sn])[Len(rows[d]) + 1]
                                     = [rc |-> rc, session |-> sn]
      BY <1>1 DEF TypeOK
    <3>3. rows'[d] = Append(rows[d], [rc |-> rc, session |-> sn])
      BY <1>1, <3>1 DEF TypeOK
    <3> QED
      BY <3>2, <3>3
  <2>3. OwnChatsHeld'
    <3>1. copy'[d][d] = 1 .. Len(rows'[d])
      <4>1. copy'[d][d] = 1 .. Len(rows[d]) \union {Len(rows[d]) + 1}
        BY <1>1, <2>1 DEF OwnChatsHeld
      <4>2. 1 .. Len(rows[d]) \union {Len(rows[d]) + 1} = 1 .. Len(rows[d]) + 1
        BY <2>1
      <4> QED
        BY <2>1, <4>1, <4>2
    <3>2. \A u \in Device \ {d} : copy'[u][u] = 1 .. Len(rows'[u])
      BY <1>1, <2>1 DEF OwnChatsHeld
    <3> QED
      BY <3>1, <3>2 DEF OwnChatsHeld
  <2>4. ASSUME NEW e \in Device, NEW u \in Device, NEW n \in copy'[e][u]
        PROVE  rows'[u][n].session \in sessions'[e]
    <3>1. CASE n \in copy[e][u]
      <4>1. n \in 1 .. Len(rows[u]) /\ rows[u][n].session \in sessions[e]
        BY <1>1, <3>1 DEF CopiesWritten, SessionsFollowChats
      <4>2. rows'[u][n] = rows[u][n]
        BY <2>1, <4>1
      <4> QED
        BY <1>3, <4>1, <4>2
    <3>2. CASE n \notin copy[e][u]
      <4>1. e = d /\ u = d /\ n = Len(rows[d]) + 1
        BY <2>1, <2>4, <3>2
      <4> QED
        BY <1>3, <2>2, <4>1
    <3> QED
      BY <3>1, <3>2
  <2> QED
    BY <2>3, <2>4 DEF SessionInv, SessionsFollowChats
<1>4. CASE SaveInsert(d, s)
  <2>1. PICK sn \in sessions[d] : InsertRow(d, saver[d][s] + 1, sn)
    BY <1>4 DEF SaveInsert
  <2>2. saver[d][s] + 1 \in Nat /\ sn \in Session /\ sessions' = sessions
    BY <1>1, <1>4 DEF SaveInsert, TypeOK, Opt
  <2> QED
    BY <1>3, <2>1, <2>2
<1>5. CASE SaveFirst(d, s)
  <2>1. PICK sn \in Session : /\ sessions' = [sessions EXCEPT ![d] = @ \union {sn}]
                              /\ InsertRow(d, Watermark(d, d) + 1, sn)
    BY <1>5 DEF SaveFirst
  <2>2. Watermark(d, d) + 1 \in Nat
    <3>1. Len(rows[d]) \in Nat /\ Watermark(d, d) \in 0 .. Len(rows[d])
      BY <1>1, WatermarkType DEF TypeOK
    <3> QED
      BY <3>1
  <2>3. sn \in sessions'[d] /\ \A e \in Device : sessions[e] \subseteq sessions'[e]
    BY <1>1, <2>1 DEF TypeOK
  <2> QED
    BY <1>3, <2>1, <2>2, <2>3
<1> QED
  BY <1>2, <1>4, <1>5 DEF Save

\* A delta is written with the sessions of all its chats: the device of their
\* user, which holds them, has these sessions.
LEMMA SessionInvApply ==
    ASSUME WholeWrites, SessionInv, TInv', NEW p \in Proc, ApplyDelta(p)
    PROVE  SessionInv'
<1> DEFINE d == p.dev
           blob == task[p].blob
           new(u) == {row[2] : row \in {r \in blob : r[1] = u}}
<1>1. TInv /\ TypeOK /\ CopiesWritten /\ OwnChatsHeld /\ SessionsFollowChats /\ d \in Device
  BY ProcType DEF SessionInv, TInv
<1>2. /\ copy' = [copy EXCEPT ![d] = [u \in Device |-> @[u] \union new(u)]]
      /\ sessions' = [sessions EXCEPT ![d] = @ \union DeltaSessions(blob)]
      /\ rows' = rows
  BY DEF ApplyDelta, WholeWrites
<1>3. ASSUME NEW u \in Device, NEW n \in new(u)
      PROVE  n \in 1 .. Len(rows[u]) /\ rows[u][n].session \in DeltaSessions(blob)
  <2>1. PICK r \in blob : r[1] = u /\ r[2] = n
    OBVIOUS
  <2>2. n \in 1 .. Len(rows[u])
    BY <1>1, <2>1 DEF TInv, DeltasWritten, Written
  <2>3. rows[u][n].session \in sessions[u] /\ sessions[u] \subseteq Session
    BY <1>1, <2>2 DEF OwnChatsHeld, SessionsFollowChats, TypeOK
  <2> QED
    BY <2>1, <2>2, <2>3 DEF DeltaSessions
<1> HIDE DEF new, blob
<1>4. /\ \A u \in Device : copy'[d][u] = copy[d][u] \union new(u)
      /\ sessions'[d] = sessions[d] \union DeltaSessions(blob)
      /\ \A e \in Device \ {d} : copy'[e] = copy[e] /\ sessions'[e] = sessions[e]
  BY <1>1, <1>2 DEF TypeOK
<1> HIDE DEF d
<1>5. OwnChatsHeld'
  <2>1. copy'[d][d] = 1 .. Len(rows'[d])
    BY <1>1, <1>2, <1>3, <1>4 DEF OwnChatsHeld
  <2>2. \A u \in Device \ {d} : copy'[u][u] = 1 .. Len(rows'[u])
    BY <1>1, <1>2, <1>4 DEF OwnChatsHeld
  <2> QED
    BY <2>1, <2>2 DEF OwnChatsHeld
<1>6. ASSUME NEW e \in Device, NEW u \in Device, NEW n \in copy'[e][u]
      PROVE  rows'[u][n].session \in sessions'[e]
  <2>1. CASE e # d
    BY <1>1, <1>2, <1>4, <1>6, <2>1 DEF SessionsFollowChats
  <2>2. CASE e = d
    <3>1. n \in copy[d][u] \/ n \in new(u)
      BY <1>4, <1>6, <2>2
    <3> QED
      BY <1>1, <1>2, <1>3, <1>4, <2>2, <3>1 DEF SessionsFollowChats
  <2> QED
    BY <2>1, <2>2
<1> QED
  BY <1>5, <1>6 DEF SessionInv, SessionsFollowChats

\* No other step touches the database.
LEMMA DatabaseKept ==
    ASSUME NEW p \in Proc, Handle(p) \/ Fault(p)
    PROVE  ApplyDelta(p) \/ UNCHANGED dbVars
  BY DEF Handle, Fault, Ignore, ReceiveStart, SendDeltaInfo, ReceiveDelta, Reply, Lose,
         HandlerError, RejectStart, RefuseDelta, dbVars

LEMMA SessionInvStep ==
    ASSUME WholeWrites
    PROVE  SessionInv /\ [Next]_vars => SessionInv'
<1> SUFFICES ASSUME SessionInv, [Next]_vars PROVE SessionInv'
  OBVIOUS
<1>1. TInv'
  BY TInvStep DEF SessionInv
<1>2. ASSUME UNCHANGED dbVars PROVE SessionInv'
  BY <1>1, <1>2 DEF dbVars, SessionInv, OwnChatsHeld, SessionsFollowChats
<1>3. CASE UNCHANGED vars
  BY <1>2, <1>3 DEF vars, dbVars
<1>4. ASSUME NEW d \in Device, NEW s \in Saver, Save(d, s) PROVE SessionInv'
  BY <1>1, <1>4, SessionInvSave
<1>5. ASSUME NEW p \in Proc, Handle(p) \/ Fault(p) PROVE SessionInv'
  BY <1>1, <1>2, <1>5, SessionInvApply, DatabaseKept
<1>6. ASSUME NEW i \in Initiator, CallStep(i) \/ FailStart(i) \/ Timeout(i) PROVE SessionInv'
  BY <1>2, <1>6 DEF CallStep, Join, StartSync, ReceiveEnd, Return, FailStart, Timeout, dbVars
<1>7. ASSUME NEW d \in Device, Restart(d) PROVE SessionInv'
  BY <1>2, <1>7 DEF Restart
<1> QED
  BY <1>3, <1>4, <1>5, <1>6, <1>7, ChatSyncAssumption DEF Next

\* A copied chat is never without its session, for any number of devices,
\* concurrent saves and calls, whatever is lost and whoever restarts: but for a
\* write of apply_delta that fails half way, a delta is written with the sessions
\* that fetch_delta_chats read with it, and they are those of its chats.
THEOREM SessionsComeWithChats ==
    ASSUME WholeWrites
    PROVE  Spec => []SessionsFollowChats
<1>1. Init => SessionInv
  BY SessionInvInit
<1>2. SessionInv /\ [Next]_vars => SessionInv'
  BY SessionInvStep
<1>3. SessionInv => SessionsFollowChats
  BY DEF SessionInv
<1> QED
  BY <1>1, <1>2, <1>3, PTL DEF Spec

-------------------------------------------------------------------------------
(* Success means synced *)

\* The Listener that answers a call, and who can hear whom on its topic.
LEMMA HostType ==
    ASSUME NEW i \in Initiator
    PROVE  /\ i \in Proc /\ Host(i) \in Proc /\ Host(i) # i
           /\ i.dev \in Device /\ i.topic \in Device /\ i.dev # i.topic
           /\ Host(i).dev = i.topic /\ Host(i).topic = i.topic
           /\ IsListener(Host(i)) /\ ~IsListener(i)
  BY ChatSyncAssumption, ProcType DEF Host, Proc, Listener, IsListener

LEMMA OnlyTheTwo ==
    ASSUME OneCallerPerTopic, NEW i \in Initiator, NEW p \in Proc
    PROVE  /\ i \in Audience(p) => p = Host(i)
           /\ Host(i) \in Audience(p) => p \in Initiator /\ p.topic = i.topic
<1>1. CASE p \in Listener
  <2>1. PICK d \in Device : p = [dev |-> d, topic |-> d, try |-> 0]
    BY <1>1 DEF Listener
  <2> QED
    BY <2>1, HostType DEF Audience, Host
<1>2. CASE p \in Initiator
  <2>1. p.dev \in Device /\ p.topic \in Device /\ p.dev # p.topic
    BY <1>2, HostType
  <2>2. i \notin Audience(p)
    BY <1>2, <2>1, HostType DEF Audience, OneCallerPerTopic
  <2>3. Host(i) \in Audience(p) => p.topic = i.topic
    BY HostType DEF Audience
  <2> QED
    BY <1>2, <2>2, <2>3
<1> QED
  BY <1>1, <1>2 DEF Proc

\* A loop that does not run can only finish the ApplyDelta it was aborted in.
LEMMA OrphanOnly ==
    ASSUME NEW p \in Proc, ~Running(p), Handle(p) \/ Fault(p)
    PROVE  ApplyDelta(p) /\ task[p].at = "orphan"
  BY DEF Running, Handle, Fault, Ignore, Receives, ReceiveStart, SendDeltaInfo, ReceiveDelta,
         ApplyDelta, Reply, Lose, HandlerError, RejectStart, RefuseDelta

\* What has been moved stays: what was told or known keeps holding.
LEMMA ToldKept ==
    ASSUME TInv, Grows, NEW i \in Initiator,
           call'[i].mine = call[i].mine, call'[i].theirs = call[i].theirs
    PROVE  /\ Got(i) => Got(i)'
           /\ Given(i) => Given(i)'
           /\ \A b : BringsTheirs(i, b) => BringsTheirs(i, b)'
           /\ \A b : BringsMine(i, b) => BringsMine(i, b)'
           /\ \A m : TellsCaller(i, m) => TellsCaller(i, m)'
           /\ \A m : TellsHost(i, m) => TellsHost(i, m)'
           /\ \A t : CallerKnows(i, t) => CallerKnows(i, t)'
           /\ \A t : HostKnows(i, t) => HostKnows(i, t)'
<1>1. i.dev \in Device /\ i.topic \in Device
  BY HostType
<1>2. /\ copy[i.dev][i.topic] \subseteq copy'[i.dev][i.topic]
      /\ copy[i.topic][i.dev] \subseteq copy'[i.topic][i.dev]
  BY <1>1 DEF Grows
<1>3. Got(i) => Got(i)'
  BY <1>2 DEF Got
<1>4. Given(i) => Given(i)'
  BY <1>2 DEF Given
<1>5. \A b : BringsTheirs(i, b) => BringsTheirs(i, b)'
  BY <1>2 DEF BringsTheirs, Brings
<1>6. \A b : BringsMine(i, b) => BringsMine(i, b)'
  BY <1>2 DEF BringsMine, Brings
<1> QED
  BY <1>3, <1>4, <1>5, <1>6 DEF TellsCaller, TellsHost, CallerKnows, HostKnows

\* No chat is unwritten.
LEMMA BoundsKept ==
    ASSUME TInv, TInv', Grows, NEW i \in Initiator, Exchange(i),
           call'[i].mine = call[i].mine, call'[i].theirs = call[i].theirs
    PROVE  call'[i].mine <= Len(rows'[i.dev]) /\ call'[i].theirs <= Len(rows'[i.topic])
<1>1. i.dev \in Device /\ i.topic \in Device
  BY HostType
<1>2. call[i] \in Call /\ \A u \in Device : Len(rows[u]) \in Nat /\ Len(rows'[u]) \in Nat
  BY DEF TInv, TypeOK
<1>3. call[i].mine \in Nat /\ call[i].theirs \in Nat
  BY <1>2 DEF Call
<1> QED
  BY <1>1, <1>2, <1>3 DEF Exchange, Grows

\* A call whose loop does not run has only its result to keep.
LEMMA ExchangeRests ==
    ASSUME TInv, TInv', Grows, NEW i \in Initiator, Exchange(i), ~Running(i)',
           call'[i].mine = call[i].mine, call'[i].theirs = call[i].theirs,
           call'[i].st \in {"new", "joined"} => call'[i].event = None,
           call'[i].event = "SyncSuccess" \/ call'[i].st = "ok" => Got(i) /\ Given(i)
    PROVE  Exchange(i)'
<1>1. call'[i].mine <= Len(rows'[i.dev]) /\ call'[i].theirs <= Len(rows'[i.topic])
  BY BoundsKept
<1>2. (Got(i) => Got(i)') /\ (Given(i) => Given(i)')
  BY ToldKept
<1> QED
  BY <1>1, <1>2 DEF Exchange

\* The exchange goes on when the messages under way were true before the step.
LEMMA ExchangeMoves ==
    ASSUME TInv, TInv', Grows, NEW i \in Initiator, Exchange(i), Running(i),
           call'[i].mine = call[i].mine, call'[i].theirs = call[i].theirs,
           call'[i].st \notin {"new", "joined"},
           \A j \in 1 .. Len(inbox'[i]) : TellsCaller(i, inbox'[i][j]),
           \A j \in 1 .. Len(inbox'[Host(i)]) : TellsHost(i, inbox'[Host(i)][j]),
           CallerKnows(i, task[i])',
           HostKnows(i, task[Host(i)])',
           call'[i].event = "SyncSuccess" \/ call'[i].st = "ok" => Got(i) /\ Given(i)
    PROVE  Exchange(i)'
<1>1. call'[i].mine <= Len(rows'[i.dev]) /\ call'[i].theirs <= Len(rows'[i.topic])
  BY BoundsKept
<1>2. ASSUME NEW m, TellsCaller(i, m) PROVE TellsCaller(i, m)'
  BY <1>2, ToldKept
<1>3. ASSUME NEW m, TellsHost(i, m) PROVE TellsHost(i, m)'
  BY <1>3, ToldKept
<1>4. (Got(i) => Got(i)') /\ (Given(i) => Given(i)')
  BY ToldKept
<1>5. Host(i)' = Host(i)
  BY DEF Host
<1>6. Told(i)'
  BY <1>2, <1>3, <1>5 DEF Told
<1> QED
  BY <1>1, <1>4, <1>6 DEF Exchange

\* ... and so was what the loops know.
LEMMA ExchangeKept ==
    ASSUME TInv, TInv', Grows, NEW i \in Initiator, Exchange(i), Running(i),
           call'[i].mine = call[i].mine, call'[i].theirs = call[i].theirs,
           call'[i].st \notin {"new", "joined"},
           \A j \in 1 .. Len(inbox'[i]) : TellsCaller(i, inbox'[i][j]),
           \A j \in 1 .. Len(inbox'[Host(i)]) : TellsHost(i, inbox'[Host(i)][j]),
           CallerKnows(i, task'[i]),
           HostKnows(i, task'[Host(i)]),
           call'[i].event = "SyncSuccess" \/ call'[i].st = "ok" => Got(i) /\ Given(i)
    PROVE  Exchange(i)'
<1>1. ASSUME NEW t PROVE /\ CallerKnows(i, t) => CallerKnows(i, t)'
                         /\ HostKnows(i, t) => HostKnows(i, t)'
  BY ToldKept
<1>2. Host(i)' = Host(i)
  BY DEF Host
<1>3. CallerKnows(i, task[i])' /\ HostKnows(i, task[Host(i)])'
  BY <1>1, <1>2
<1> QED
  BY <1>3, ExchangeMoves

\* A step that does not concern the call, or only what it did before it stopped.
LEMMA ExchangeApart ==
    ASSUME TInv, TInv', Grows, NEW i \in Initiator, Exchange(i),
           call'[i] = call[i], task'[i] = task[i],
           Running(i) => /\ inbox'[i] = inbox[i] /\ inbox'[Host(i)] = inbox[Host(i)]
                         /\ task'[Host(i)] = task[Host(i)]
    PROVE  Exchange(i)'
<1>1. CASE Running(i)
  BY <1>1, ExchangeKept DEF Exchange, Told
<1>2. CASE ~Running(i)
  <2>1. ~Running(i)'
    BY <1>2 DEF Running
  <2> QED
    BY <2>1, ExchangeRests DEF Exchange
<1> QED
  BY <1>1, <1>2

LEMMA ExchangesInit == Init => Exchanges
<1> SUFFICES ASSUME Init, NEW i \in Initiator PROVE Exchange(i) /\ ~Running(i)
  BY DEF Exchanges, OneRunning
<1>1. /\ i \in Proc /\ i.dev \in Device /\ i.topic \in Device /\ ~IsListener(i)
  BY HostType
<1>2. /\ task[i] = Idle("off")
      /\ call[i] = [st |-> "new", event |-> None, mine |-> 0, theirs |-> 0]
      /\ rows[i.dev] = <<>> /\ rows[i.topic] = <<>>
  BY <1>1 DEF Init, InitNet
<1>3. ~Running(i)
  BY <1>2 DEF Running, Idle
<1> QED
  BY <1>2, <1>3, ChatSyncAssumption DEF Exchange

\* A chat is saved.
LEMMA ExchangeSave ==
    ASSUME TInv, TInv', NEW d \in Device, NEW s \in Saver, Save(d, s),
           NEW i \in Initiator, Exchange(i)
    PROVE  Exchange(i)'
<1>1. UNCHANGED netVars
  BY DEF Save, SaveReadCounter, SaveInsert, SaveFirst
<1>2. Grows
  <2>1. TypeOK /\ \A u \in Device : Len(rows[u]) \in Nat
    BY DEF TInv, TypeOK
  <2>2. ASSUME NEW rc, NEW sn, InsertRow(d, rc, sn) PROVE Grows
    <3>1. rows' = [rows EXCEPT ![d] = Append(rows[d], [rc |-> rc, session |-> sn])]
          /\ copy' = [copy EXCEPT ![d][d] = @ \union {Len(rows[d]) + 1}]
      BY <2>2 DEF InsertRow
    <3>2. \A u \in Device \ {d} : rows'[u] = rows[u]
      BY <2>1, <3>1 DEF TypeOK
    <3>3. rows'[d] = Append(rows[d], [rc |-> rc, session |-> sn]) /\ rows[d] \in Seq(Row)
      BY <2>1, <3>1 DEF TypeOK
    <3>4. Len(rows'[d]) = Len(rows[d]) + 1
      BY <3>3
    <3>5. \A e, u \in Device : copy[e][u] \subseteq copy'[e][u]
      BY <2>1, <3>1 DEF TypeOK
    <3> QED
      BY <2>1, <3>2, <3>4, <3>5 DEF Grows
  <2>3. UNCHANGED <<rows, copy>> => Grows
    BY <2>1 DEF Grows
  <2> QED
    BY <2>2, <2>3 DEF Save, SaveReadCounter, SaveInsert, SaveFirst, dbVars
<1> QED
  BY <1>1, <1>2, ExchangeApart DEF netVars

\* A step of one of the two loops that leaves the database alone.
LEMMA ExchangeNet ==
    ASSUME TInv, TInv', UNCHANGED <<dbVars, call>>, NEW i \in Initiator, Exchange(i), Running(i),
           \A j \in 1 .. Len(inbox'[i]) : TellsCaller(i, inbox'[i][j]),
           \A j \in 1 .. Len(inbox'[Host(i)]) : TellsHost(i, inbox'[Host(i)][j]),
           CallerKnows(i, task'[i]),
           HostKnows(i, task'[Host(i)])
    PROVE  Exchange(i)'
<1>1. Grows
  BY DEF Grows, dbVars, TInv, TypeOK
<1>2. call' = call /\ call[i].st \notin {"new", "joined"}
  BY DEF Exchange
<1> QED
  BY <1>1, <1>2, ExchangeKept DEF Exchange

LEMMA ConsumeTold ==
    ASSUME TInv, NEW i \in Initiator, Told(i), NEW p \in Proc, inbox[p] # <<>>, Consume(p)
    PROVE  /\ \A j \in 1 .. Len(inbox'[i]) : TellsCaller(i, inbox'[i][j])
           /\ \A j \in 1 .. Len(inbox'[Host(i)]) : TellsHost(i, inbox'[Host(i)][j])
<1>1. \A q \in Proc : \A j \in 1 .. Len(inbox'[q]) :
        \E k \in 1 .. Len(inbox[q]) : inbox'[q][j] = inbox[q][k]
  BY ConsumeType DEF TInv
<1>2. i \in Proc /\ Host(i) \in Proc
  BY HostType
<1> QED
  BY <1>1, <1>2 DEF Told

LEMMA BroadcastTold ==
    ASSUME TInv, NEW i \in Initiator, Told(i), NEW p \in Proc, NEW m \in Msg,
           NEW consumed \in BOOLEAN, consumed => inbox[p] # <<>>, Broadcast(p, m, consumed),
           i \in Audience(p) => TellsCaller(i, m),
           Host(i) \in Audience(p) => TellsHost(i, m)
    PROVE  /\ \A j \in 1 .. Len(inbox'[i]) : TellsCaller(i, inbox'[i][j])
           /\ \A j \in 1 .. Len(inbox'[Host(i)]) : TellsHost(i, inbox'[Host(i)][j])
<1>1. \A q \in Proc : \A j \in 1 .. Len(inbox'[q]) :
        \/ inbox'[q][j] = m /\ q \in Audience(p)
        \/ \E k \in 1 .. Len(inbox[q]) : inbox'[q][j] = inbox[q][k]
  BY BroadcastType DEF TInv
<1>2. i \in Proc /\ Host(i) \in Proc
  BY HostType
<1> QED
  BY <1>1, <1>2 DEF Told

LEMMA SetTaskKnown ==
    ASSUME TInv, NEW i \in Initiator, Told(i), NEW p \in Proc, NEW t, SetTask(p, t),
           p = i => CallerKnows(i, t),
           p = Host(i) => HostKnows(i, t)
    PROVE  CallerKnows(i, task'[i]) /\ HostKnows(i, task'[Host(i)])
<1>1. i \in Proc /\ Host(i) \in Proc
  BY HostType
<1>2. \A q \in Proc : task'[q] = IF q = p THEN t ELSE task[q]
  BY DEF SetTask, TInv, TypeOK
<1>3. CallerKnows(i, task[i]) /\ HostKnows(i, task[Host(i)])
  BY DEF Told
<1> QED
  BY <1>1, <1>2, <1>3

LEMMA IdleKnows ==
    ASSUME NEW i, NEW at \in {"off", "joined", "recv"}
    PROVE  CallerKnows(i, Idle(at)) /\ HostKnows(i, Idle(at))
  BY DEF CallerKnows, HostKnows, Idle

\* A rejection tells nothing.
LEMMA RejectionTold ==
    ASSUME NEW i, NEW p
    PROVE  LET m == Message("SyncRejected", p, None, {})
           IN  TellsCaller(i, m) /\ TellsHost(i, m)
  BY DEF Message, TellsCaller, TellsHost

\* The chats past a counter that a device has reached bring it all the others.
LEMMA DeltaBrings ==
    ASSUME TInv, RowCountersAreIds, OwnChatsHeld, NEW d \in Device, NEW e \in Device,
           NEW lrc \in Nat, Holds(e, d, lrc), NEW k \in Nat, k <= Len(rows[d])
    PROVE  Brings(e, d, k, Delta(d, lrc))
<1>1. Len(rows[d]) \in Nat /\ copy[d][d] = 1 .. Len(rows[d])
  BY DEF TInv, TypeOK, OwnChatsHeld
<1>2. ASSUME NEW n \in 1 .. k PROVE n \in copy[e][d] \/ <<d, n>> \in Delta(d, lrc)
  <2>1. n \in 1 .. Len(rows[d])
    BY <1>1
  <2>2. CASE n <= lrc
    BY <2>1, <2>2 DEF Holds
  <2>3. CASE n > lrc
    <3>1. rows[d][n].rc = n
      BY <2>1 DEF RowCountersAreIds
    <3> QED
      BY <1>1, <2>1, <2>3, <3>1 DEF Delta
  <2> QED
    BY <2>1, <2>2, <2>3
<1> QED
  BY <1>2 DEF Brings

\* A process steps apart from a running call i when it is neither of its two loops.
LEMMA LoopApart ==
    ASSUME OneCallerPerTopic, OneRunning, TInv, NEW i \in Initiator, Running(i),
           NEW p \in Proc, p # i, p # Host(i), Handle(p) \/ Fault(p)
    PROVE  /\ inbox'[i] = inbox[i] /\ inbox'[Host(i)] = inbox[Host(i)]
           /\ task'[i] = task[i] /\ task'[Host(i)] = task[Host(i)]
<1>1. i \in Proc /\ Host(i) \in Proc /\ TypeOK
  BY HostType DEF TInv
<1>5. ASSUME NEW t, SetTask(p, t) PROVE task'[i] = task[i] /\ task'[Host(i)] = task[Host(i)]
  BY <1>1, <1>5 DEF SetTask, TypeOK
<1>10. CASE ApplyDelta(p)
  BY <1>5, <1>10 DEF ApplyDelta
<1>15. CASE ~Running(p)
  BY <1>10, <1>15, OrphanOnly
<1>16. CASE Running(p)
  <2>2. i \notin Audience(p) /\ Host(i) \notin Audience(p)
    BY <1>16, OnlyTheTwo DEF OneRunning
  <2>3. ASSUME Consume(p) PROVE inbox'[i] = inbox[i] /\ inbox'[Host(i)] = inbox[Host(i)]
    BY <1>1, <2>3 DEF Consume, TypeOK
  <2>4. ASSUME NEW m, NEW consumed, Broadcast(p, m, consumed)
        PROVE inbox'[i] = inbox[i] /\ inbox'[Host(i)] = inbox[Host(i)]
    BY <1>1, <2>2, <2>4 DEF Broadcast
  <2>6. CASE Ignore(p) \/ Lose(p)
    BY <2>3, <2>6 DEF Ignore, Lose
  <2>7. CASE ReceiveStart(p)
    BY <2>3, <1>5, <2>7 DEF ReceiveStart
  <2>8. CASE SendDeltaInfo(p)
    BY <2>4, <1>5, <2>8 DEF SendDeltaInfo
  <2>9. CASE ReceiveDelta(p)
    BY <2>3, <1>5, <2>9 DEF ReceiveDelta
  <2>11. CASE Reply(p)
    BY <2>4, <1>5, <2>11 DEF Reply
  <2>12. CASE HandlerError(p)
    BY <1>5, <2>12 DEF HandlerError
  <2>13. CASE RejectStart(p)
    BY <2>4, <2>13 DEF RejectStart
  <2>14. CASE RefuseDelta(p)
    BY <2>4, <1>5, <2>14 DEF RefuseDelta
  <2> QED
    BY <1>10, <2>6, <2>7, <2>8, <2>9, <2>11, <2>12, <2>13, <2>14 DEF Handle, Fault
<1> QED
  BY <1>15, <1>16

\* The loops do not change a call, and start none.
LEMMA LoopStarts ==
    ASSUME TInv, NEW i \in Initiator, ~Running(i), NEW p \in Proc, Handle(p) \/ Fault(p)
    PROVE  ~Running(i)'
<1>1. i \in Proc /\ task \in [Proc -> Task]
  BY HostType DEF TInv, TypeOK
<1>2. CASE p = i
  <2>1. ApplyDelta(i) /\ task[i].at = "orphan"
    BY <1>2, OrphanOnly
  <2>2. task' = [task EXCEPT ![i] = Idle("off")]
    BY <2>1 DEF ApplyDelta, SetTask
  <2> QED
    BY <1>1, <2>2 DEF Running, Idle
<1>3. CASE p # i
  <2>1. ASSUME NEW t, SetTask(p, t) PROVE task'[i] = task[i]
    BY <1>1, <1>3, <2>1 DEF SetTask
  <2>2. task'[i] = task[i]
    BY <2>1 DEF Handle, Fault, Ignore, ReceiveStart, SendDeltaInfo, ReceiveDelta,
                ApplyDelta, Reply, Lose, HandlerError, RejectStart, RefuseDelta
  <2> QED
    BY <2>2 DEF Running
<1> QED
  BY <1>2, <1>3

LEMMA LoopCall ==
    ASSUME NEW p \in Proc, Handle(p) \/ Fault(p)
    PROVE  call' = call
  BY DEF Handle, Fault, Ignore, ReceiveStart, SendDeltaInfo, ReceiveDelta,
         ApplyDelta, Reply, Lose, HandlerError, RejectStart, RefuseDelta

\* A delta has been applied: what it brought is there.
LEMMA ExchangeApply ==
    ASSUME WholeWrites, Inv, TInv', NEW i \in Initiator, Exchange(i), NEW p \in {i, Host(i)},
           Running(i), ApplyDelta(p)
    PROVE  Exchange(i)'
<1> DEFINE d == p.dev
           u == IF p = i THEN i.topic ELSE i.dev
           blob == task[p].blob
           k == IF p = i THEN call[i].theirs ELSE call[i].mine
           t == IF task[p].at = "orphan" THEN Idle("off") ELSE [task[p] EXCEPT !.at = "reply"]
<1>1. /\ TInv /\ TypeOK /\ Grows /\ p \in Proc /\ d \in Device /\ u \in Device
      /\ i \in Proc /\ Host(i) \in Proc /\ Host(i) # i /\ task[p] \in Task
  BY HostType, InvApply DEF Inv, TInv, TypeOK
<1>2. /\ copy' = [copy EXCEPT ![d] = [e \in Device |->
                     @[e] \union {row[2] : row \in {r \in blob : r[1] = e}}]]
      /\ SetTask(p, t) /\ UNCHANGED <<rows, saver, call, inbox, store>>
  BY DEF ApplyDelta, WholeWrites
<1>3. copy'[d][u] = copy[d][u] \union {row[2] : row \in {r \in blob : r[1] = u}}
  BY <1>1, <1>2 DEF TypeOK
<1>4. ASSUME Brings(d, u, k, blob) PROVE 1 .. k \subseteq copy'[d][u]
  <2>1. \A n : <<u, n>> \in blob => n \in {row[2] : row \in {r \in blob : r[1] = u}}
    OBVIOUS
  <2> HIDE DEF d, u, k, blob
  <2> QED
    BY <1>3, <1>4, <2>1 DEF Brings
<1>5. call' = call /\ inbox' = inbox
  BY <1>2
<1>6. CallerKnows(i, task[i])' /\ HostKnows(i, task[Host(i)])'
  <2>1. \A q \in Proc : task'[q] = IF q = p THEN t ELSE task[q]
    BY <1>1, <1>2 DEF SetTask, TypeOK
  <2>2. ASSUME NEW s PROVE /\ CallerKnows(i, s) => CallerKnows(i, s)'
                           /\ HostKnows(i, s) => HostKnows(i, s)'
    BY <1>1, <1>5, ToldKept
  <2>3. Host(i)' = Host(i)
    BY DEF Host
  <2>4. CallerKnows(i, task[i]) /\ HostKnows(i, task[Host(i)])
    BY DEF Exchange, Told
  <2>5. (Got(i) => Got(i)') /\ (Given(i) => Given(i)')
    BY <1>1, <1>5, ToldKept
  <2>6. CASE task[p].at = "orphan"
    <3>1. t = Idle("off")
      BY <2>6
    <3>2. CallerKnows(i, t) /\ HostKnows(i, t)
      BY <3>1, IdleKnows
    <3> HIDE DEF t
    <3>3. CallerKnows(i, task'[i]) /\ HostKnows(i, task'[Host(i)])
      BY <1>1, <2>1, <2>4, <3>2
    <3> QED
      BY <2>2, <2>3, <3>3
  <2>7. CASE task[p].at = "apply" /\ p = i
    <3>1. t.at = "reply" /\ t.lrc = task[p].lrc
      BY <1>1, <2>7 DEF Task
    <3> HIDE DEF t
    <3>2. task[i].lrc # None /\ BringsTheirs(i, task[i].blob)
      BY <2>4, <2>7 DEF CallerKnows
    <3>3. Got(i)'
      BY <1>4, <1>5, <2>7, <3>2 DEF BringsTheirs, Got
    <3>4. CallerKnows(i, task[i])'
      BY <1>1, <2>1, <2>7, <3>1, <3>2, <3>3 DEF CallerKnows
    <3>5. task'[Host(i)] = task[Host(i)]
      BY <1>1, <2>1, <2>7
    <3> QED
      BY <2>2, <2>3, <2>4, <3>4, <3>5
  <2>8. CASE task[p].at = "apply" /\ p = Host(i)
    <3>1. t.at = "reply" /\ t.lrc = task[p].lrc
      BY <1>1, <2>8 DEF Task
    <3> HIDE DEF t
    <3>2. task[p].lrc = None /\ Got(i) /\ BringsMine(i, task[p].blob)
      BY <2>4, <2>8 DEF HostKnows
    <3>3. d = i.topic /\ u = i.dev /\ k = call[i].mine
      BY <1>1, <2>8, HostType
    <3> HIDE DEF d, u, k, blob
    <3>4. Given(i)'
      BY <1>4, <1>5, <3>2, <3>3 DEF BringsMine, Given, blob
    <3>5. HostKnows(i, task[Host(i)])'
      BY <1>1, <2>1, <2>3, <2>5, <2>8, <3>1, <3>2, <3>4 DEF HostKnows
    <3>6. task'[i] = task[i]
      BY <1>1, <2>1, <2>8
    <3> QED
      BY <2>2, <2>4, <3>5, <3>6
  <2> QED
    BY <2>6, <2>7, <2>8 DEF ApplyDelta
<1> HIDE DEF t
<1> QED
  BY <1>1, <1>5, <1>6, ExchangeMoves DEF Exchange, Told

\* The gossip loops.
LEMMA ExchangeLoop ==
    ASSUME OneCallerPerTopic, WholeWrites, OneRunning, Inv, TInv', NEW i \in Initiator, Exchange(i),
           NEW p \in Proc, Handle(p) \/ Fault(p)
    PROVE  Exchange(i)'
<1>1. /\ TInv /\ TypeOK /\ IInv /\ task[p] \in Task /\ TaskSafe(p, task[p])
      /\ i \in Proc /\ Host(i) \in Proc /\ Host(i) # i
      /\ i.dev \in Device /\ i.topic \in Device /\ i.dev # i.topic
      /\ Host(i).dev = i.topic /\ Host(i).topic = i.topic
      /\ IsListener(Host(i)) /\ ~IsListener(i)
  BY HostType DEF Inv, TInv, TypeOK, IInv, TasksSafe
<1>2. inbox[p] # <<>> => Head(inbox[p]) \in Msg /\ MsgSafe(p, Head(inbox[p]))
  BY <1>1, EventType DEF IInv, MessagesSafe
<1>3. Grows /\ call' = call
  <2>1. Grows
    <3>1. CASE ApplyDelta(p)
      BY <3>1, InvApply
    <3>2. CASE UNCHANGED dbVars
      BY <1>1, <3>2 DEF Grows, dbVars, TypeOK
    <3> QED
      BY <3>1, <3>2, DatabaseKept
  <2> QED
    BY <2>1, LoopCall
<1>5. CASE ~Running(i)
  <2>1. ~Running(i)'
    BY <1>1, <1>5, LoopStarts
  <2> QED
    BY <1>1, <1>3, <2>1, ExchangeRests DEF Exchange
<1>6. CASE Running(i) /\ p # i /\ p # Host(i)
  <2>1. /\ inbox'[i] = inbox[i] /\ inbox'[Host(i)] = inbox[Host(i)]
        /\ task'[i] = task[i] /\ task'[Host(i)] = task[Host(i)]
    BY <1>1, <1>6, LoopApart
  <2> QED
    BY <1>1, <1>3, <2>1, ExchangeApart
<1>4. CASE Running(i) /\ p \in {i, Host(i)}
  <2>1. /\ Running(i) /\ Told(i)
        /\ i \in Audience(p) => p = Host(i)
        /\ Host(i) \in Audience(p) => p = i
    BY <1>1, <1>4, OnlyTheTwo DEF Exchange, Audience
  <2>2. /\ CallerKnows(i, task[i]) /\ HostKnows(i, task[Host(i)])
        /\ call[i].mine \in Nat /\ call[i].theirs \in Nat
        /\ call[i].mine <= Len(rows[i.dev]) /\ call[i].theirs <= Len(rows[i.topic])
    BY <1>1, <2>1 DEF Exchange, Told, TypeOK, Call
  <2>3. inbox[p] # <<>> => /\ p = i => TellsCaller(i, Head(inbox[p]))
                           /\ p = Host(i) => TellsHost(i, Head(inbox[p]))
    BY <1>1, <2>1, EventType DEF Told
  <2>4. CASE Lose(p) \/ Ignore(p)
    BY <1>1, <2>1, <2>2, <2>4, ConsumeTold, ExchangeNet DEF Lose, Ignore, Receives
  <2>5. CASE HandlerError(p)
    <3>1. CallerKnows(i, task'[i]) /\ HostKnows(i, task'[Host(i)])
      BY <1>1, <2>1, <2>5, IdleKnows, SetTaskKnown DEF HandlerError
    <3> QED
      BY <1>1, <2>1, <2>5, <3>1, ExchangeNet DEF HandlerError, Told
  <2>6. CASE ReceiveStart(p)
    <3> DEFINE m == Head(inbox[p])
               b == Delta(p.dev, m.lrc)
               t == [at |-> "counter", peer |-> m.from.dev, lrc |-> None, blob |-> b]
    <3>1. /\ inbox[p] # <<>> /\ SetTask(p, t) /\ Consume(p) /\ m.kind = "SyncStart"
          /\ IsListener(p) /\ UNCHANGED <<dbVars, saver, call>>
      BY <2>6 DEF ReceiveStart, Receives
    <3>2. p = Host(i)
      BY <1>1, <1>4, <3>1
    <3>3. /\ m.from.dev \in Device \ {i.topic} /\ m.lrc \in Nat /\ Holds(m.from.dev, i.topic, m.lrc)
          /\ m.from \in Proc /\ m.from.topic = i.topic
      BY <1>1, <1>2, <3>1, <3>2, ProcType DEF MsgSafe, Msg, Opt
    <3>4. m.from.dev = i.dev
      BY <1>1, <3>2, <3>3, OnePeer
    <3>5. BringsTheirs(i, b)
      BY <1>1, <2>2, <3>2, <3>3, <3>4, DeltaBrings DEF IInv, BringsTheirs
    <3> HIDE DEF b
    <3>6. HostKnows(i, t)
      BY <3>5 DEF HostKnows
    <3> HIDE DEF t, m
    <3>7. CallerKnows(i, task'[i]) /\ HostKnows(i, task'[Host(i)])
      BY <1>1, <2>1, <3>1, <3>2, <3>6, SetTaskKnown
    <3> QED
      BY <1>1, <2>1, <3>1, <3>7, ConsumeTold, ExchangeNet
  <2>7. CASE RejectStart(p)
    <3> DEFINE m == Message("SyncRejected", p, None, {})
    <3>1. m \in Msg /\ TellsCaller(i, m) /\ TellsHost(i, m)
      BY MessageType, EmptyBlob, RejectionTold DEF Opt
    <3>2. inbox[p] # <<>> /\ Broadcast(p, m, TRUE)
      BY <2>7 DEF RejectStart, Receives
    <3> HIDE DEF m
    <3> QED
      BY <1>1, <2>1, <2>2, <2>7, <3>1, <3>2, BroadcastTold, ExchangeNet DEF RejectStart
  <2>8. CASE SendDeltaInfo(p)
    <3> DEFINE w == Watermark(p.dev, task[p].peer)
               m == Message("Delta", p, w, task[p].blob)
    <3>1. /\ Broadcast(p, m, FALSE) /\ SetTask(p, Idle("recv"))
          /\ UNCHANGED <<dbVars, saver, call, store>> /\ task[p].at = "counter"
      BY <2>8 DEF SendDeltaInfo
    <3>2. p = Host(i) /\ BringsTheirs(i, task[p].blob)
      BY <1>4, <2>2, <3>1 DEF CallerKnows, HostKnows
    <3>3. w \in Nat /\ task[p].blob \in Blob
      <4>1. task[p].peer \in Device
        BY <1>1, <3>1 DEF Task
      <4>2. Len(rows[task[p].peer]) \in Nat /\ w \in 0 .. Len(rows[task[p].peer])
        BY <1>1, <3>2, <4>1, WatermarkType DEF TypeOK
      <4> QED
        BY <1>1, <4>2 DEF Task
    <3> HIDE DEF w
    <3>4. m \in Msg
      BY <3>3, MessageType DEF Opt
    <3>5. TellsCaller(i, m)
      BY <3>2, <3>3, ChatSyncAssumption DEF Message, TellsCaller
    <3>6. Host(i) \notin Audience(p)
      BY <1>1, <2>1, <3>2
    <3> HIDE DEF m
    <3>7. CallerKnows(i, task'[i]) /\ HostKnows(i, task'[Host(i)])
      BY <1>1, <2>1, <3>1, IdleKnows, SetTaskKnown
    <3> QED
      BY <1>1, <2>1, <3>1, <3>4, <3>5, <3>6, <3>7, BroadcastTold, ExchangeNet
  <2>9. CASE RefuseDelta(p)
    <3> DEFINE m == Message("SyncRejected", p, None, {})
    <3>1. m \in Msg /\ TellsCaller(i, m) /\ TellsHost(i, m)
      BY MessageType, EmptyBlob, RejectionTold DEF Opt
    <3>2. inbox[p] # <<>> /\ Broadcast(p, m, TRUE)
      BY <2>9 DEF RefuseDelta, Receives
    <3> HIDE DEF m
    <3>3. CallerKnows(i, task'[i]) /\ HostKnows(i, task'[Host(i)])
      BY <1>1, <2>1, <2>9, IdleKnows, SetTaskKnown DEF RefuseDelta
    <3> QED
      BY <1>1, <2>1, <2>9, <3>1, <3>2, <3>3, BroadcastTold, ExchangeNet DEF RefuseDelta
  <2>10. CASE ReceiveDelta(p)
    <3> DEFINE m == Head(inbox[p])
               t == [at |-> "apply", peer |-> m.from.dev, lrc |-> m.lrc, blob |-> m.blob]
    <3>1. /\ inbox[p] # <<>> /\ SetTask(p, t) /\ Consume(p) /\ m.kind = "Delta"
          /\ UNCHANGED <<dbVars, saver, call>>
      BY <2>10 DEF ReceiveDelta, Receives
    <3> HIDE DEF m
    <3>2. p = i => CallerKnows(i, t)
      BY <2>3, <3>1 DEF m, TellsCaller, CallerKnows
    <3>3. p = Host(i) => HostKnows(i, t)
      BY <2>3, <3>1 DEF m, TellsHost, HostKnows
    <3> HIDE DEF t
    <3>4. CallerKnows(i, task'[i]) /\ HostKnows(i, task'[Host(i)])
      BY <1>1, <2>1, <3>1, <3>2, <3>3, SetTaskKnown
    <3> QED
      BY <1>1, <2>1, <3>1, <3>4, ConsumeTold, ExchangeNet
  <2>11. CASE ApplyDelta(p)
    BY <1>4, <2>1, <2>11, ExchangeApply
  <2>12. CASE Reply(p) /\ p = i
    <3> DEFINE b == Delta(i.dev, task[i].lrc)
               m == Message("Delta", i, None, b)
    <3>1. task[i].at = "reply" /\ task[i].lrc # None /\ Got(i)
      BY <2>2, <2>12 DEF Reply, CallerKnows
    <3>2. /\ Broadcast(i, m, FALSE) /\ SetTask(i, Idle("recv"))
          /\ UNCHANGED <<dbVars, saver, call>>
      BY <2>12, <3>1 DEF Reply
    <3>3. task[i].lrc \in Nat /\ Holds(i.topic, i.dev, task[i].lrc)
      <4>1. /\ task[i].peer \in Device \ {i.dev} /\ Holds(task[i].peer, i.dev, task[i].lrc)
            /\ \E r \in Proc : r.topic = i.topic /\ r.dev = task[i].peer
        BY <1>1, <2>12, <3>1 DEF TaskSafe
      <4>2. task[i].peer = i.topic
        BY <1>1, <4>1, OnePeer
      <4> QED
        BY <1>1, <2>12, <3>1, <4>1, <4>2 DEF Task, Opt
    <3>4. BringsMine(i, b) /\ b \in Blob
      BY <1>1, <2>2, <3>3, DeltaBrings, DeltaType DEF IInv, BringsMine
    <3> HIDE DEF b
    <3>5. m \in Msg /\ TellsHost(i, m)
      BY <1>1, <3>1, <3>4, MessageType DEF Opt, TellsHost, Message
    <3>6. i \notin Audience(i)
      BY <1>1, <2>1, <2>12
    <3> HIDE DEF m
    <3>7. CallerKnows(i, task'[i]) /\ HostKnows(i, task'[Host(i)])
      BY <1>1, <2>1, <3>2, IdleKnows, SetTaskKnown
    <3> QED
      BY <1>1, <2>1, <3>2, <3>5, <3>6, <3>7, BroadcastTold, ExchangeNet
  <2>13. CASE Reply(p) /\ p = Host(i)
    <3> DEFINE m == Message("SyncEnd", p, None, {})
    <3>1. task[p].at = "reply" /\ task[p].lrc = None /\ Got(i) /\ Given(i)
      BY <2>2, <2>13 DEF Reply, HostKnows
    <3>2. /\ Broadcast(p, m, FALSE) /\ SetTask(p, Idle("recv"))
          /\ UNCHANGED <<dbVars, saver, call>>
      BY <2>13, <3>1 DEF Reply
    <3>3. m \in Msg /\ TellsCaller(i, m)
      BY <3>1, MessageType, EmptyBlob DEF Opt, TellsCaller, Message
    <3>4. Host(i) \notin Audience(p)
      BY <1>1, <2>1, <2>13
    <3> HIDE DEF m
    <3>5. CallerKnows(i, task'[i]) /\ HostKnows(i, task'[Host(i)])
      BY <1>1, <2>1, <3>2, IdleKnows, SetTaskKnown
    <3> QED
      BY <1>1, <2>1, <3>2, <3>3, <3>4, <3>5, BroadcastTold, ExchangeNet
  <2> QED
    BY <1>4, <2>4, <2>5, <2>6, <2>7, <2>8, <2>9, <2>10, <2>11, <2>12, <2>13 DEF Handle, Fault
<1> QED
  BY <1>4, <1>5, <1>6

\* handle.abort() stops the loop; an ApplyDelta may be left.
LEMMA AbortStops ==
    ASSUME TInv, NEW i \in Initiator, Abort(i)
    PROVE  ~Running(i)'
<1>1. i \in Proc /\ task \in [Proc -> Task] /\ task[i] \in Task
  BY HostType DEF TInv, TypeOK
<1>2. task'[i] = IF task[i].at = "apply" THEN [task[i] EXCEPT !.at = "orphan"]
                 ELSE IF task[i].at = "orphan" THEN task[i]
                 ELSE Idle("off")
  BY <1>1 DEF Abort, SetTask
<1>3. task'[i].at \in {"orphan", "off"}
  BY <1>1, <1>2 DEF Task, Idle
<1> QED
  BY <1>3 DEF Running

\* The steps of a sync call: its own, and those of another call.
LEMMA ExchangeCall ==
    ASSUME OneCallerPerTopic, StartsSilent, Inv, TInv', NEW i \in Initiator, Exchange(i),
           NEW k \in Initiator, CallStep(k) \/ FailStart(k) \/ Timeout(k)
    PROVE  Exchange(i)'
<1>1. /\ TInv /\ TypeOK /\ i \in Proc /\ k \in Proc /\ Host(i) \in Proc /\ Host(i) # i
      /\ Host(i) # k /\ call[i] \in Call /\ task[i] \in Task
      /\ i.dev \in Device /\ i.topic \in Device
  BY HostType DEF Inv, TInv, TypeOK
<1>2. Grows
  <2>1. rows' = rows /\ copy' = copy
    BY DEF CallStep, Join, StartSync, ReceiveEnd, Return, FailStart, Timeout, dbVars
  <2> QED
    BY <1>1, <2>1 DEF Grows, TypeOK
<1>3. CASE k # i
  <2>1. call'[i] = call[i]
    BY <1>1, <1>3 DEF TypeOK, CallStep, Join, StartSync, ReceiveEnd, Return, FailStart, Timeout
  <2>2. task'[i] = task[i] /\ task'[Host(i)] = task[Host(i)]
    BY <1>1, <1>3 DEF TypeOK, CallStep, Join, StartSync, ReceiveEnd, Return, FailStart, Timeout,
                      Abort, SetTask
  <2>3. ASSUME Running(i) PROVE inbox'[i] = inbox[i] /\ inbox'[Host(i)] = inbox[Host(i)]
    <3>1. CASE StartSync(k)
      <4>1. k.topic # i.topic
        BY <2>3, <3>1 DEF StartsSilent, Silent
      <4>2. i \notin Audience(k) /\ Host(i) \notin Audience(k)
        BY <1>1, <4>1, OnlyTheTwo
      <4> QED
        BY <1>1, <1>3, <3>1, <4>2 DEF StartSync, Broadcast
    <3>2. CASE Join(k) \/ ReceiveEnd(k) \/ Return(k) \/ FailStart(k) \/ Timeout(k)
      BY <1>1, <1>3, <3>2 DEF TypeOK, Join, ReceiveEnd, Return, FailStart, Timeout, Abort
    <3> QED
      BY <3>1, <3>2 DEF CallStep
  <2> QED
    BY <1>1, <1>2, <2>1, <2>2, <2>3, ExchangeApart
<1>4. CASE Join(i)
  <2>1. /\ call[i].st = "new" /\ SetTask(i, Idle("joined"))
        /\ call' = [call EXCEPT ![i].st = "joined"]
    BY <1>4 DEF Join
  <2>2. /\ call'[i].mine = call[i].mine /\ call'[i].theirs = call[i].theirs
        /\ call'[i].st = "joined" /\ call'[i].event = call[i].event
    BY <1>1, <2>1 DEF TypeOK, Call
  <2>3. ~Running(i)'
    BY <1>1, <2>1 DEF SetTask, TypeOK, Running, Idle
  <2> QED
    BY <1>1, <1>2, <2>1, <2>2, <2>3, ExchangeRests DEF Exchange
<1>5. CASE StartSync(i)
  <2> DEFINE m == Message("SyncStart", i, Watermark(i.dev, i.topic), {})
  <2>1. /\ call' = [call EXCEPT ![i].st = "waiting", ![i].mine = Len(rows[i.dev]),
                                ![i].theirs = Len(rows[i.topic])]
        /\ SetTask(i, Idle("recv")) /\ Broadcast(i, m, FALSE)
        /\ rows' = rows /\ copy' = copy /\ call[i].event = None /\ Silent(i)
    BY <1>5 DEF StartSync, Exchange, dbVars, StartsSilent
  <2>2. /\ call'[i].st = "waiting" /\ call'[i].event = None
        /\ call'[i].mine = Len(rows[i.dev]) /\ call'[i].theirs = Len(rows[i.topic])
    BY <1>1, <2>1 DEF TypeOK, Call
  <2>3. task'[i] = Idle("recv") /\ task'[Host(i)] = task[Host(i)]
    BY <1>1, <2>1 DEF SetTask, TypeOK
  <2>4. CallerKnows(i, task[i])' /\ HostKnows(i, task[Host(i)])'
    BY <2>1, <2>3 DEF CallerKnows, HostKnows, Idle, Silent, Host
  <2>5. m \in Msg /\ m.kind = "SyncStart"
    <3>1. Len(rows[i.topic]) \in Nat /\ Watermark(i.dev, i.topic) \in 0 .. Len(rows[i.topic])
      BY <1>1, WatermarkType DEF TypeOK
    <3>2. Watermark(i.dev, i.topic) \in Opt
      BY <3>1 DEF Opt
    <3> QED
      BY <1>1, <3>2, MessageType, EmptyBlob DEF Message
  <2> HIDE DEF m
  <2>6. \A q \in {i, Host(i)} : \A j \in 1 .. Len(inbox'[q]) : inbox'[q][j] = m
    <3>1. \A q \in Proc : \A j \in 1 .. Len(inbox'[q]) :
            \/ inbox'[q][j] = m /\ q \in Audience(i)
            \/ \E n \in 1 .. Len(inbox[q]) : inbox'[q][j] = inbox[q][n]
      BY <1>1, <2>1, <2>5, BroadcastType
    <3>2. \A q \in {i, Host(i)} : q \in Proc /\ Len(inbox[q]) = 0
      BY <1>1, <2>1 DEF Silent
    <3> QED
      BY <3>1, <3>2
  <2>7. Len(rows[i.dev]) \in Nat /\ Len(rows[i.topic]) \in Nat /\ Host(i)' = Host(i)
    BY <1>1 DEF TypeOK, Host
  <2>8. call'[i].event # "SyncSuccess"
    BY <2>2, ChatSyncAssumption
  <2>9. /\ \A j \in 1 .. Len(inbox'[i]) : inbox'[i][j].kind = "SyncStart"
        /\ \A j \in 1 .. Len(inbox'[Host(i)]) : inbox'[Host(i)][j].kind = "SyncStart"
    BY <2>5, <2>6
  <2>10. Told(i)'
    BY <2>4, <2>7, <2>9 DEF Told, TellsCaller, TellsHost
  <2>11. /\ call'[i].mine <= Len(rows'[i.dev]) /\ call'[i].theirs <= Len(rows'[i.topic])
         /\ call'[i].st \notin {"new", "joined", "ok"}
    BY <2>1, <2>2, <2>7
  <2> QED
    BY <2>8, <2>10, <2>11 DEF Exchange
<1>6. CASE ReceiveEnd(i)
  <2>1. PICK kind \in {"SyncEnd", "SyncRejected"} :
           /\ Receives(i, kind)
           /\ call' = [call EXCEPT ![i].event =
                          IF kind = "SyncEnd" THEN "SyncSuccess" ELSE "SyncFailed"]
    BY <1>6 DEF ReceiveEnd
  <2>2. SetTask(i, Idle("off")) /\ inbox' = [inbox EXCEPT ![i] = <<>>]
    BY <1>6 DEF ReceiveEnd
  <2>3. /\ call'[i].mine = call[i].mine /\ call'[i].theirs = call[i].theirs
        /\ call'[i].st = call[i].st
        /\ call'[i].event = IF kind = "SyncEnd" THEN "SyncSuccess" ELSE "SyncFailed"
    <3> DEFINE e == IF kind = "SyncEnd" THEN "SyncSuccess" ELSE "SyncFailed"
    <3>1. call' = [call EXCEPT ![i].event = e]
      BY <2>1
    <3> HIDE DEF e
    <3>2. call'[i] = [call[i] EXCEPT !.event = e]
      BY <1>1, <3>1 DEF TypeOK
    <3> QED
      BY <1>1, <3>2 DEF Call, e
  <2>4. Running(i)
    BY <2>1 DEF Running, Receives
  <2>5. kind = "SyncEnd" => Got(i) /\ Given(i)
    BY <1>1, <2>1, <2>4, EventType DEF Receives, Exchange, Told, TellsCaller
  <2>6. call'[i].event = "SyncSuccess" \/ call'[i].st = "ok" => Got(i) /\ Given(i)
    BY <2>3, <2>5 DEF Exchange
  <2>7. call'[i].st \notin {"new", "joined"}
    BY <2>3, <2>4 DEF Exchange
  <2>8. ~Running(i)'
    BY <1>1, <2>2 DEF TypeOK, SetTask, Running, Idle
  <2> QED
    BY <1>1, <1>2, <2>3, <2>6, <2>7, <2>8, ExchangeRests
<1>7. ASSUME NEW st, call' = [call EXCEPT ![i].st = st], Abort(i),
             st \notin {"new", "joined"}, st = "ok" => call[i].event = "SyncSuccess"
      PROVE  Exchange(i)'
  <2>1. /\ call'[i].mine = call[i].mine /\ call'[i].theirs = call[i].theirs
        /\ call'[i].st = st /\ call'[i].event = call[i].event
    BY <1>1, <1>7 DEF TypeOK, Call
  <2>2. ~Running(i)'
    BY <1>7, AbortStops, <1>1
  <2>3. call'[i].event = "SyncSuccess" \/ call'[i].st = "ok" => Got(i) /\ Given(i)
    BY <1>7, <2>1 DEF Exchange
  <2> QED
    BY <1>1, <1>2, <1>7, <2>1, <2>2, <2>3, ExchangeRests
<1>8. CASE Return(i)
  <2> DEFINE st == IF call[i].event = "SyncSuccess" THEN "ok" ELSE "failed"
  <2>1. call' = [call EXCEPT ![i].st = st] /\ Abort(i)
    BY <1>8 DEF Return
  <2>2. st \notin {"new", "joined"} /\ (st = "ok" => call[i].event = "SyncSuccess")
    OBVIOUS
  <2> HIDE DEF st
  <2> QED
    BY <1>7, <2>1, <2>2
<1>9. CASE Timeout(i)
  BY <1>7, <1>9 DEF Timeout
<1>10. CASE FailStart(i)
  <2> DEFINE st == "failed"
  <2>1. call' = [call EXCEPT ![i].st = st] /\ Abort(i)
    BY <1>10 DEF FailStart
  <2>2. st \notin {"new", "joined"} /\ st # "ok"
    OBVIOUS
  <2> HIDE DEF st
  <2> QED
    BY <1>7, <2>1, <2>2
<1> QED
  BY <1>3, <1>4, <1>5, <1>6, <1>8, <1>9, <1>10 DEF CallStep

\* A restart forgets; what has been written is kept.
LEMMA ExchangeRestart ==
    ASSUME TInv, TInv', NEW d \in Device, Restart(d), NEW i \in Initiator, Exchange(i)
    PROVE  Exchange(i)'
<1>1. /\ TypeOK /\ i \in Proc /\ Host(i) \in Proc /\ IsListener(Host(i)) /\ ~IsListener(i)
      /\ call[i] \in Call
  BY HostType DEF TInv, TypeOK
<1>2. Grows
  BY <1>1 DEF Restart, Grows, dbVars, TypeOK
<1>3. /\ inbox'[i] \in {inbox[i], <<>>}
      /\ inbox'[Host(i)] \in {inbox[Host(i)], <<>>}
      /\ task'[i] \in {task[i], Idle("off")}
      /\ task'[Host(i)] \in {task[Host(i)], Idle("recv")}
  BY <1>1 DEF Restart
<1>4. /\ call'[i].mine = call[i].mine /\ call'[i].theirs = call[i].theirs
      /\ call'[i].event = call[i].event /\ call'[i].st \in {call[i].st, "lost"}
  <2>1. call'[i] \in {call[i], [call[i] EXCEPT !.st = "lost"]}
    BY DEF Restart
  <2> QED
    BY <1>1, <2>1 DEF Call
<1>5. call'[i].event = "SyncSuccess" \/ call'[i].st = "ok" => Got(i) /\ Given(i)
  BY <1>4 DEF Exchange
<1>6. CASE Running(i)
  <2>1. Told(i) /\ call'[i].st \notin {"new", "joined"}
    BY <1>4, <1>6 DEF Exchange
  <2>2. CallerKnows(i, task'[i]) /\ HostKnows(i, task'[Host(i)])
    BY <1>3, <2>1, IdleKnows DEF Told
  <2>3. /\ \A j \in 1 .. Len(inbox'[i]) : TellsCaller(i, inbox'[i][j])
        /\ \A j \in 1 .. Len(inbox'[Host(i)]) : TellsHost(i, inbox'[Host(i)][j])
    BY <1>3, <2>1 DEF Told
  <2> QED
    BY <1>2, <1>4, <1>5, <1>6, <2>1, <2>2, <2>3, ExchangeKept
<1>7. CASE ~Running(i)
  <2>1. ~Running(i)'
    BY <1>3, <1>7 DEF Running, Idle
  <2> QED
    BY <1>2, <1>4, <1>5, <2>1, ExchangeRests DEF Exchange
<1> QED
  BY <1>6, <1>7

\* A loop starts to run with its call, and on a silent topic it is the only one.
LEMMA RunsFrom ==
    ASSUME TInv, Next, NEW i \in Initiator, Running(i)', ~Running(i)
    PROVE  StartSync(i)
<1>1. i \in Proc /\ ~IsListener(i) /\ task \in [Proc -> Task]
  BY HostType DEF TInv, TypeOK
<1>2. ASSUME NEW d \in Device, NEW s \in Saver, Save(d, s) PROVE FALSE
  BY <1>2 DEF Save, SaveReadCounter, SaveInsert, SaveFirst, netVars, Running
<1>3. ASSUME NEW p \in Proc, Handle(p) \/ Fault(p) PROVE FALSE
  BY <1>3, LoopStarts
<1>4. ASSUME NEW k \in Initiator, CallStep(k) \/ FailStart(k) \/ Timeout(k) PROVE StartSync(i)
  <2>1. CASE k # i
    <3>1. task'[i] = task[i]
      BY <1>1, <1>4, <2>1 DEF CallStep, Join, StartSync, ReceiveEnd, Return, FailStart, Timeout,
                              Abort, SetTask
    <3> QED
      BY <3>1 DEF Running
  <2>2. CASE Return(i) \/ FailStart(i) \/ Timeout(i)
    BY <2>2, AbortStops DEF Return, FailStart, Timeout
  <2>3. CASE Join(i) \/ ReceiveEnd(i)
    BY <1>1, <2>3 DEF Join, ReceiveEnd, SetTask, Running, Idle
  <2> QED
    BY <1>4, <2>1, <2>2, <2>3 DEF CallStep
<1>5. ASSUME NEW d \in Device, Restart(d) PROVE FALSE
  BY <1>1, <1>5 DEF Restart, Running, Idle
<1> QED
  BY <1>2, <1>3, <1>4, <1>5, ChatSyncAssumption DEF Next

LEMMA OneRuns ==
    ASSUME TInv, Next, StartsSilent, OneRunning
    PROVE  OneRunning'
<1> SUFFICES ASSUME NEW i \in Initiator, NEW j \in Initiator, i.topic = j.topic,
                    Running(i)', Running(j)', i # j
             PROVE  FALSE
  BY DEF OneRunning
<1>1. /\ Running(i) \/ StartSync(i)
      /\ Running(j) \/ StartSync(j)
  BY RunsFrom
<1>2. ~(Running(i) /\ Running(j))
  BY DEF OneRunning
<1>3. StartSync(i) => ~Running(j)
  BY DEF StartsSilent, Silent
<1>4. StartSync(j) => ~Running(i)
  BY DEF StartsSilent, Silent
<1>5. CASE StartSync(i) /\ StartSync(j)
  <2>1. j \in Proc /\ task \in [Proc -> Task]
    BY HostType DEF TInv, TypeOK
  <2>2. task'[j] = task[j]
    BY <1>5, <2>1 DEF StartSync, SetTask
  <2> QED
    BY <1>3, <1>5, <2>2 DEF Running
<1> QED
  BY <1>1, <1>2, <1>3, <1>4, <1>5

LEMMA ExchangesStep ==
    ASSUME OneSaver, WholeWrites, OneCallerPerTopic
    PROVE  Inv /\ Exchanges /\ [Next]_vars /\ [StartsSilent]_vars => Inv' /\ Exchanges'
<1> SUFFICES ASSUME Inv, Exchanges, [Next]_vars, [StartsSilent]_vars PROVE Inv' /\ Exchanges'
  OBVIOUS
<1>1. Inv' /\ TInv /\ TInv'
  BY InvStep DEF Inv
<1>2. CASE UNCHANGED vars
  <2>1. Grows
    BY <1>1, <1>2 DEF Grows, vars, TInv, TypeOK
  <2>2. ASSUME NEW i \in Initiator PROVE Exchange(i)'
    BY <1>1, <1>2, <2>1, ExchangeApart DEF vars, Exchanges
  <2>3. OneRunning'
    BY <1>2 DEF vars, Exchanges, OneRunning, Running
  <2> QED
    BY <1>1, <2>2, <2>3 DEF Exchanges
<1>3. CASE Next /\ StartsSilent
  <2>1. OneRunning'
    BY <1>1, <1>3, OneRuns DEF Exchanges
  <2>2. ASSUME NEW i \in Initiator PROVE Exchange(i)'
    <3>1. Exchange(i) /\ OneRunning
      BY DEF Exchanges
    <3> QED
      BY <1>1, <1>3, <3>1, ExchangeSave, ExchangeLoop, ExchangeCall, ExchangeRestart,
         ChatSyncAssumption DEF Next
  <2> QED
    BY <1>1, <2>1, <2>2 DEF Exchanges
<1> QED
  BY <1>2, <1>3

\* A sync() that returned Ok has moved, both ways, every chat that was written
\* when it started: for devices that save one chat at a time, are called by one
\* other each, and start a call, the first or a later one, when the calls before
\* have left nothing on its topic; whatever is lost, refused or late during the
\* calls, and whoever restarts.
THEOREM SuccessIsSynced ==
    ASSUME OneSaver, WholeWrites, OneCallerPerTopic
    PROVE  Spec /\ [][StartsSilent]_vars => []SuccessMeansSynced
<1>1. Init => Inv /\ Exchanges
  BY TInvInit, IInvInit, ExchangesInit DEF Inv
<1>2. Inv /\ Exchanges /\ [Next]_vars /\ [StartsSilent]_vars => Inv' /\ Exchanges'
  BY ExchangesStep
<1>3. Exchanges => SuccessMeansSynced
  BY DEF Exchanges, Exchange, SuccessMeansSynced, Got, Given
<1> QED
  BY <1>1, <1>2, <1>3, PTL DEF Spec

==============================================================================
