------------------------- MODULE ModelDownloadsProof -------------------------
(***************************************************************************)
(* Theorems about ModelDownloads and their proofs.                         *)
(***************************************************************************)
EXTENDS ModelDownloads, TLAPS, WellFoundedInduction

-----------------------------------------------------------------------------
(* The changes that are sent to the events client.                         *)

\* `set` changes one state, and keeps the channel's bound.
LEMMA SetFacts ==
    ASSUME TypeOK, NEW q \in Quant, NEW s \in States, Set(q, s)
    PROVE  /\ state' \in [Quant -> States] /\ state'[q] = s
           /\ \A p \in Quant \ {q} : state'[p] = state[p]
           /\ feed' \in Seq((Watched \X States) \union {None}) /\ Len(feed') <= Kept
           /\ lagged' \in BOOLEAN
           /\ shown' \in [Watched -> States]
<1>1. state' = [state EXCEPT ![q] = s] /\ shown' = shown
  BY DEF Set
<1>2. feed' \in Seq((Watched \X States) \union {None}) /\ Len(feed') <= Kept /\ lagged' \in BOOLEAN
  <2> DEFINE news == IF q \in Watched THEN <<q, s>> ELSE None
             Entry == (Watched \X States) \union {None}
  <2>1. news \in Entry
    OBVIOUS
  <2>2. feed \in Seq(Entry) /\ Len(feed) <= Kept /\ lagged \in BOOLEAN /\ Kept \in Nat \ {0}
    BY DownloadsAssumption DEF TypeOK
  <2>3. \/ feed' = feed /\ lagged' = lagged
        \/ Len(feed) < Kept /\ feed' = Append(feed, news) /\ lagged' = lagged
        \/ Len(feed) >= Kept /\ feed' = Append(Tail(feed), news) /\ lagged' = TRUE
    BY <2>2 DEF Set
  <2> HIDE DEF news, Entry
  <2>4. feed' \in Seq(Entry) /\ Len(feed') <= Kept /\ lagged' \in BOOLEAN
    <3>1. CASE feed' = feed /\ lagged' = lagged
      BY <3>1, <2>2
    <3>2. CASE Len(feed) < Kept /\ feed' = Append(feed, news) /\ lagged' = lagged
      BY <3>2, <2>1, <2>2
    <3>3. CASE Len(feed) >= Kept /\ feed' = Append(Tail(feed), news) /\ lagged' = TRUE
      <4>1. Tail(feed) \in Seq(Entry) /\ Len(Tail(feed)) = Len(feed) - 1
        BY <3>3, <2>2
      <4>2. QED
        BY <4>1, <3>3, <2>1, <2>2
    <3>4. QED
      BY <3>1, <3>2, <3>3, <2>3
  <2>5. QED
    BY <2>4 DEF Entry
<1>3. QED
  BY <1>1, <1>2 DEF TypeOK

\* What the client has been sent and what is on its way still add up after it.
LEMMA SetAddsUp ==
    ASSUME TypeOK, ChangesAddUp, NEW q \in Quant, NEW s \in States, Set(q, s)
    PROVE  ChangesAddUp'
<1> DEFINE news == IF q \in Watched THEN <<q, s>> ELSE None
           Entry == (Watched \X States) \union {None}
<1>0. feed \in Seq(Entry) /\ Len(feed) <= Kept /\ Kept \in Nat \ {0} /\ Watched \subseteq Quant
      /\ None \notin Watched \X States
  BY DownloadsAssumption DEF TypeOK
<1>1. shown' = shown /\ state'[q] = s /\ \A p \in Quant \ {q} : state'[p] = state[p]
  BY SetFacts DEF Set
<1>2. CASE state[q] = s
  BY <1>2, <1>1, <1>0 DEF Set, ChangesAddUp, About
<1>3. CASE state[q] # s /\ Len(feed) < Kept
  <2>0. PICK n \in Nat : n = Len(feed)
    BY <1>0
  <2>1. feed' = Append(feed, news) /\ lagged' = lagged
    BY <1>3 DEF Set
  <2>2. /\ DOMAIN feed' = 1 .. (n + 1) /\ feed'[n + 1] = news
        /\ DOMAIN feed = 1 .. n
        /\ \A i \in 1 .. n : feed'[i] = feed[i]
    <3> HIDE DEF news, Entry
    <3>1. news \in Entry
      BY <1>0 DEF news, Entry
    <3>2. QED
      BY <2>0, <2>1, <1>0, <3>1
  <2>3. SUFFICES ASSUME NEW p \in Watched
                 PROVE  /\ \A i \in DOMAIN feed' :
                             About(i, p)' /\ (\A j \in DOMAIN feed' : About(j, p)' => j <= i)
                                => feed'[i][2] = state'[p]
                        /\ (\A i \in DOMAIN feed' : ~About(i, p)') /\ ~lagged' /\ IsUnfinished(state'[p])
                              => shown'[p] = state'[p]
    BY DEF ChangesAddUp
  <2>4. CASE p = q
    <3>1. news = <<q, s>> /\ news # None
      BY <2>4, <1>0
    <3>2. About(n + 1, p)'
      BY <3>1, <2>2, <2>4 DEF About
    <3>3. ASSUME NEW i \in DOMAIN feed', \A j \in DOMAIN feed' : About(j, p)' => j <= i
          PROVE  feed'[i][2] = state'[p]
      <4>1. i = n + 1
        BY <3>2, <3>3, <2>2
      <4>2. QED
        BY <4>1, <3>1, <2>2, <2>4, <1>1
    <3>4. QED
      BY <3>2, <3>3, <2>2
  <2>5. CASE p # q
    <3>1. ~About(n + 1, p)'
      BY <2>5, <2>2, <1>0 DEF About
    <3>2. \A i \in 1 .. n : About(i, p)' <=> About(i, p)
      BY <2>2 DEF About
    <3>3. state'[p] = state[p] /\ shown'[p] = shown[p] /\ lagged' = lagged
      BY <2>1, <2>5, <1>1, <1>0
    <3>4. ASSUME NEW i \in DOMAIN feed', About(i, p)', \A j \in DOMAIN feed' : About(j, p)' => j <= i
          PROVE  feed'[i][2] = state'[p]
      <4>1. i \in 1 .. n /\ About(i, p)
        BY <3>1, <3>2, <3>4, <2>2
      <4>2. \A j \in DOMAIN feed : About(j, p) => j <= i
        BY <3>2, <3>4, <2>2
      <4>3. QED
        BY <4>1, <4>2, <3>3, <2>2 DEF ChangesAddUp
    <3>5. (\A i \in DOMAIN feed' : ~About(i, p)') => \A i \in DOMAIN feed : ~About(i, p)
      BY <3>2, <2>2
    <3>6. QED
      BY <3>3, <3>4, <3>5 DEF ChangesAddUp
  <2>6. QED
    BY <2>4, <2>5
<1>4. CASE state[q] # s /\ Len(feed) >= Kept
  <2>0. PICK n \in Nat : n = Len(feed)
    BY <1>0
  <2>1. feed' = Append(Tail(feed), news) /\ lagged' = TRUE
    BY <1>4, <1>0 DEF Set
  <2>2. /\ DOMAIN feed' = 1 .. n /\ feed'[n] = news
        /\ DOMAIN feed = 1 .. n /\ n \in Nat \ {0}
        /\ \A i \in 1 .. (n - 1) : feed'[i] = feed[i + 1]
    <3> HIDE DEF news, Entry
    <3>1. news \in Entry
      BY <1>0 DEF news, Entry
    <3>2. n \in Nat \ {0}
      BY <2>0, <1>0, <1>4
    <3>3. Tail(feed) \in Seq(Entry) /\ Len(Tail(feed)) = n - 1
          /\ \A i \in 1 .. (n - 1) : Tail(feed)[i] = feed[i + 1]
      BY <2>0, <1>0, <3>2
    <3>4. QED
      BY <2>0, <2>1, <1>0, <3>1, <3>2, <3>3
  <2>3. SUFFICES ASSUME NEW p \in Watched, NEW i \in DOMAIN feed',
                        About(i, p)', \A j \in DOMAIN feed' : About(j, p)' => j <= i
                 PROVE  feed'[i][2] = state'[p]
    BY <2>1 DEF ChangesAddUp
  <2>4. CASE p = q
    <3>1. news = <<q, s>> /\ news # None
      BY <2>4, <1>0
    <3>2. About(n, p)'
      BY <3>1, <2>2, <2>4 DEF About
    <3>3. i = n
      BY <3>2, <2>3, <2>2
    <3>4. QED
      BY <3>3, <3>1, <2>2, <2>4, <1>1
  <2>5. CASE p # q
    <3>1. ~About(n, p)'
      BY <2>5, <2>2, <1>0 DEF About
    <3>2. \A k \in 1 .. (n - 1) : About(k, p)' <=> About(k + 1, p)
      BY <2>2 DEF About
    <3>3. i \in 1 .. (n - 1) /\ About(i + 1, p) /\ feed'[i] = feed[i + 1]
      BY <3>1, <3>2, <2>3, <2>2
    <3>4. ASSUME NEW j \in DOMAIN feed, About(j, p)
          PROVE  j <= i + 1
      <4>1. CASE j = 1
        BY <4>1, <3>3
      <4>2. CASE j # 1
        <5>1. j - 1 \in 1 .. (n - 1) /\ (j - 1) + 1 = j
          BY <4>2, <2>2
        <5>2. About(j - 1, p)'
          BY <5>1, <3>2, <3>4
        <5>3. QED
          BY <5>1, <5>2, <2>3, <2>2, <3>3
      <4>3. QED
        BY <4>1, <4>2
    <3>5. i + 1 \in DOMAIN feed
      BY <3>3, <2>2
    <3>6. feed[i + 1][2] = state[p]
      BY <3>3, <3>4, <3>5 DEF ChangesAddUp
    <3>7. QED
      BY <3>3, <3>6, <2>5, <1>1, <1>0
  <2>6. QED
    BY <2>4, <2>5
<1>5. QED
  BY <1>2, <1>3, <1>4, <1>0

-----------------------------------------------------------------------------
(* The steps of the system, and what they change.                            *)

\* A task that gets further sets a state that runs, or none.
LEMMA GetsFacts ==
    ASSUME TypeOK, NEW q \in Quant, Gets(q)
    PROVE  /\ SameStates \/ Set(q, "downloading") \/ Set(q, "verifying")
           /\ disk' \in [Quant -> Disk] /\ Stage(q) \in {"work", "made"}
BY DEF Gets, Stage, TypeOK, Disk

\* A step leaves the states and the changes, or sets one state, or the client
\* reads, or the daemon is started again.
LEMMA StateSteps ==
    ASSUME TypeOK, Next
    PROVE  SameStates \/ (\E q \in Quant, s \in States : Set(q, s)) \/ Read \/ Restart
<1> USE DEF States
<1>1. ASSUME NEW c \in Caller, Serve(c)
      PROVE  SameStates \/ \E q \in Quant, s \in States : Set(q, s)
  <2>1. call[c].q \in Quant /\ FromDisk(call[c].seen) \in States
    BY DEF TypeOK, Call, FromDisk
  <2>2. SameStates \/ Set(call[c].q, "downloading") \/ Set(call[c].q, "done")
        \/ Set(call[c].q, FromDisk(call[c].seen)) \/ \E q \in Quant : Set(q, "idle")
    BY <1>1 DEF Serve, StartLook, StartBegin, StatusLook, StatusRead, StatusTell, Pick, PauseTake,
                PauseDone, DeleteList, DeleteLock, SetIdle, Remove, RemoveFails, Told, Disarmed,
                Leave, Sweep
  <2>3. QED
    BY <2>1, <2>2
<1>2. ASSUME NEW c \in Caller, Lock(c) \/ Close(c) \/ \E op \in Ops, q \in Quant : Request(c, op, q)
      PROVE  SameStates
  BY <1>2 DEF Lock, Close, Request
<1>3. ASSUME NEW q \in Quant, Fetch(q)
      PROVE  SameStates \/ \E s \in States : Set(q, s)
  BY <1>3, GetsFacts DEF Fetch, Work, Finish, TaskEnds
<1>6. ASSUME NEW c \in Caller, FetchOn(c)
      PROVE  SameStates \/ \E q \in Quant, s \in States : Set(q, s)
  <2>1. call[c].q \in Quant
    BY DEF TypeOK, Call
  <2>2. QED
    BY <1>6, <2>1, GetsFacts DEF FetchOn, TakenWork, TakenEnds
<1>4. PickOther => SameStates
  BY DEF PickOther
<1>5. QED
  BY <1>1, <1>2, <1>3, <1>4, <1>6 DEF Next

\* The changes that are sent keep their type.
LEMMA ClientTyped ==
    ASSUME TypeOK, Next
    PROVE  /\ state' \in [Quant -> States]
           /\ feed' \in Seq((Watched \X States) \union {None}) /\ Len(feed') <= Kept
           /\ lagged' \in BOOLEAN
           /\ shown' \in [Watched -> States]
<1>1. CASE SameStates
  BY <1>1 DEF TypeOK, SameStates
<1>2. CASE \E q \in Quant, s \in States : Set(q, s)
  BY <1>2, SetFacts
<1>3. CASE Read
  <2> DEFINE Entry == (Watched \X States) \union {None}
  <2>1. feed \in Seq(Entry) /\ Len(feed) <= Kept /\ Kept \in Nat /\ Watched \subseteq Quant
    BY DownloadsAssumption DEF TypeOK
  <2>2. ASSUME feed # <<>> PROVE feed[1] \in Entry /\ Tail(feed) \in Seq(Entry) /\ Len(Tail(feed)) <= Len(feed)
    <3> HIDE DEF Entry
    <3>1. QED
      BY <2>1, <2>2
  <2>3. CASE lagged
    BY <1>3, <2>1, <2>3 DEF Read, TypeOK
  <2>4. CASE ~lagged
    <3>1. feed # <<>> /\ feed' = Tail(feed) /\ shown' = Show(feed[1])
      BY <1>3, <2>4 DEF Read
    <3>2. feed[1] # None => feed[1][1] \in Watched /\ feed[1][2] \in States
      BY <2>2, <3>1
    <3>3. Show(feed[1]) \in [Watched -> States]
      BY <3>2 DEF Show, TypeOK
    <3>4. feed' \in Seq(Entry) /\ Len(feed') <= Kept
      <4> HIDE DEF Entry
      <4>1. QED
        BY <2>1, <2>2, <3>1
    <3>5. QED
      BY <1>3, <3>1, <3>3, <3>4 DEF Read, TypeOK
  <2>5. QED
    BY <2>3, <2>4 DEF TypeOK
<1>4. CASE Restart
  <2> DEFINE Entry == (Watched \X States) \union {None}
  <2>1. feed' = <<>> /\ lagged' = FALSE /\ state' = [q \in Quant |-> "idle"] /\ shown' = [q \in Watched |-> "idle"]
    BY <1>4 DEF Restart
  <2>2. feed' \in Seq(Entry) /\ Len(feed') = 0
    <3> HIDE DEF Entry
    <3>1. QED
      BY <2>1
  <2>3. state' \in [Quant -> States] /\ shown' \in [Watched -> States] /\ lagged' \in BOOLEAN
    BY <2>1 DEF States
  <2>4. QED
    BY <2>2, <2>3, DownloadsAssumption
<1>5. QED
  BY <1>1, <1>2, <1>3, <1>4, StateSteps

\* What the steps of a request do to its record.
LEMMA GotoFacts ==
    ASSUME TypeOK, NEW c \in Caller, NEW point \in Points, Goto(c, point)
    PROVE  /\ call' \in [Caller -> Call]
           /\ call'[c].at = point /\ call'[c].op = call[c].op /\ call'[c].q = call[c].q
           /\ call'[c].todo = call[c].todo /\ call'[c].seen = call[c].seen /\ call'[c].task = call[c].task
           /\ \A d \in Caller \ {c} : call'[d] = call[d]
BY DEF TypeOK, Goto, Call

\* A request that is answered is taken off: its record is the one of no request.
LEMMA ReturnFacts ==
    ASSUME TypeOK, NEW c \in Caller, Return(c)
    PROVE  /\ call' \in [Caller -> Call]
           /\ call'[c] = NoCall /\ call'[c].at = "off" /\ call'[c].op = "start" /\ call'[c].todo = {}
           /\ call'[c].task = "off"
           /\ \A d \in Caller \ {c} : call'[d] = call[d]
<1>1. NoCall \in Call
  BY DownloadsAssumption DEF NoCall, Call, Ops, Points, Disk, Quant
<1>2. QED
  BY <1>1 DEF TypeOK, Return, NoCall

\* The locks that a request lets go are free, the others are held as before.
LEMMA ReleaseFacts ==
    ASSUME TypeOK, NEW c \in Caller, Release(c)
    PROVE  /\ lock' \in [Quant -> Caller \union {None}]
           /\ \A q \in Quant : lock'[q] = IF lock[q] = c THEN None ELSE lock[q]
BY DEF TypeOK, Release

\* A request that is dropped: its locks are free, and what it took or began is left.
LEMMA LeaveFacts ==
    ASSUME TypeOK, NEW c \in Caller, Leave(c)
    PROVE  /\ call' \in [Caller -> Call]
           /\ \A d \in Caller \ {c} : call'[d] = call[d]
           /\ \/ /\ call[c].at \in {"lock", "begin", "read", "folder"}
                 /\ call'[c].at = "off" /\ call'[c].op = "start" /\ call'[c].todo = {}
                 /\ call'[c].task = "off"
              \/ /\ call'[c].at = IF call[c].at = "await" THEN "stray" ELSE "sweep"
                 /\ call[c].at \in {"await", "remove"} /\ (call[c].at = "await" => call[c].task # "off")
                 /\ call'[c].op = call[c].op /\ call'[c].q = call[c].q /\ call'[c].todo = call[c].todo
                 /\ call'[c].task = call[c].task
           /\ lock' \in [Quant -> Caller \union {None}]
           /\ \A q \in Quant : lock'[q] = IF lock[q] = c THEN None ELSE lock[q]
           /\ known' = known /\ task' = task /\ beside' = beside /\ SameStates /\ disk' = disk /\ picked' = picked
<1>1. Release(c) /\ known' = known /\ task' = task /\ beside' = beside /\ SameStates
      /\ disk' = disk /\ picked' = picked
  BY DEF Leave, files
<1>2. CASE call[c].at \in {"lock", "begin", "read", "folder"} /\ Return(c)
  BY <1>1, <1>2, ReturnFacts, ReleaseFacts
<1>3. CASE call[c].at = "await" /\ call[c].task # "off" /\ Goto(c, "stray")
  BY <1>1, <1>3, GotoFacts, ReleaseFacts DEF Points
<1>4. CASE call[c].at = "remove" /\ Goto(c, "sweep")
  BY <1>1, <1>4, GotoFacts, ReleaseFacts DEF Points
<1>5. QED
  BY <1>2, <1>3, <1>4 DEF Leave

\* What the steps of a task that a pause took do to the request's record.
LEMMA TakenFacts ==
    ASSUME TypeOK, NEW c \in Caller, FetchOn(c)
    PROVE  /\ call' \in [Caller -> Call]
           /\ \A d \in Caller \ {c} : call'[d] = call[d]
           /\ call[c].task # "off" /\ call[c].q \in Quant
           /\ \/ call'[c].at = "off" /\ call'[c].op = "start" /\ call'[c].todo = {} /\ call'[c].task = "off"
              \/ /\ call'[c].at = call[c].at /\ call'[c].op = call[c].op
                 /\ call'[c].q = call[c].q /\ call'[c].todo = call[c].todo
           /\ call[c].at = "await" => call'[c].at = "await"
           /\ known' = known /\ task' = task /\ beside' = beside /\ lock' = lock /\ picked' = picked
           /\ disk' \in [Quant -> Disk]
<1>0. call[c].q \in Quant /\ call[c] \in Call
  BY DEF TypeOK, Call
<1>1. CASE TakenWork(c)
  <2>1. Stage(call[c].q) \in {"work", "made"} /\ disk' \in [Quant -> Disk]
    BY <1>0, <1>1, GetsFacts DEF TakenWork
  <2>2. \A t \in {"work", "made"} : [call[c] EXCEPT !.task = t] \in Call
    BY <1>0 DEF Call
  <2>3. call' = [call EXCEPT ![c] = [call[c] EXCEPT !.task = Stage(call[c].q)]]
    BY <1>1 DEF TakenWork, TypeOK
  <2>4. call' \in [Caller -> Call]
    BY <2>1, <2>2, <2>3 DEF TypeOK
  <2>5. call'[c] = [call[c] EXCEPT !.task = Stage(call[c].q)] /\ \A d \in Caller \ {c} : call'[d] = call[d]
    BY <2>3 DEF TypeOK
  <2>6. /\ call'[c].at = call[c].at /\ call'[c].op = call[c].op
        /\ call'[c].q = call[c].q /\ call'[c].todo = call[c].todo
    BY <2>5, <1>0 DEF Call
  <2>7. QED
    BY <1>0, <1>1, <2>1, <2>4, <2>5, <2>6 DEF TakenWork
<1>2. ASSUME NEW outcome \in {"done", "paused", "failed"}, TakenEnds(c, outcome)
      PROVE  /\ call' \in [Caller -> Call]
             /\ \A d \in Caller \ {c} : call'[d] = call[d]
             /\ \/ call'[c].at = "off" /\ call'[c].op = "start" /\ call'[c].todo = {} /\ call'[c].task = "off"
                \/ /\ call'[c].at = call[c].at /\ call'[c].op = call[c].op
                   /\ call'[c].q = call[c].q /\ call'[c].todo = call[c].todo
             /\ call[c].at = "await" => call'[c].at = "await"
  <2>1. CASE Return(c) /\ call[c].at = "stray"
    BY <2>1, ReturnFacts
  <2>2. CASE call' = [call EXCEPT ![c].task = "off"]
    <3>1. [call[c] EXCEPT !.task = "off"] \in Call
      BY <1>0 DEF Call
    <3>2. QED
      BY <2>2, <3>1, <1>0 DEF TypeOK, Call
  <2>3. QED
    BY <1>2, <2>1, <2>2 DEF TakenEnds
<1>3. ASSUME NEW outcome \in {"done", "paused", "failed"}, TakenEnds(c, outcome)
      PROVE  /\ call[c].task # "off"
             /\ known' = known /\ task' = task /\ beside' = beside /\ lock' = lock /\ picked' = picked
             /\ disk' \in [Quant -> Disk]
  BY <1>3 DEF TakenEnds, TypeOK, files
<1>4. QED
  BY <1>0, <1>1, <1>2, <1>3 DEF FetchOn


\* Every step keeps the type of the requests.
LEMMA CallTyped ==
    ASSUME TypeOK, Next
    PROVE  call' \in [Caller -> Call]
<1>1. ASSUME NEW c \in Caller, NEW op \in Ops, NEW q \in Quant, Request(c, op, q) PROVE call' \in [Caller -> Call]
  <2>1. [op |-> op, at |-> IF op = "delete" THEN "folder" ELSE "lock", q |-> q,
         todo |-> {}, seen |-> 0, task |-> "off"] \in Call
    BY DEF Call, Points, Disk
  <2>2. QED
    BY <1>1, <2>1 DEF Request, TypeOK
<1>2. ASSUME NEW c \in Caller, Lock(c) PROVE call' \in [Caller -> Call]
  BY <1>2, GotoFacts DEF Lock, Points
<1>3. ASSUME NEW c \in Caller, Close(c) PROVE call' \in [Caller -> Call]
  <2>1. [call[c] EXCEPT !.op = "close", !.at = "lock"] \in Call
    BY DEF TypeOK, Call, Points, Ops
  <2>2. QED
    BY <1>3, <2>1 DEF Close, TypeOK
<1>4. ASSUME NEW c \in Caller, NEW reached \in BOOLEAN, StartLook(c, reached) PROVE call' \in [Caller -> Call]
  BY <1>4, ReturnFacts, GotoFacts DEF StartLook, StartAnswers, Points
<1>5. ASSUME NEW c \in Caller, NEW room \in BOOLEAN, StartBegin(c, room) PROVE call' \in [Caller -> Call]
  BY <1>5, ReturnFacts, GotoFacts DEF StartBegin, StartAnswers, Points
<1>6. ASSUME NEW c \in Caller, NEW reached \in BOOLEAN, StatusLook(c, reached) PROVE call' \in [Caller -> Call]
  BY <1>6, ReturnFacts, GotoFacts DEF StatusLook, StatusAnswers, Points
<1>7. ASSUME NEW c \in Caller, StatusRead(c) PROVE call' \in [Caller -> Call]
  <2>1. [call[c] EXCEPT !.at = "tell", !.seen = disk[call[c].q]] \in Call
    BY DEF TypeOK, Call, Points
  <2>2. QED
    BY <1>7, <2>1 DEF StatusRead, TypeOK
<1>8. ASSUME NEW c \in Caller, StatusTell(c) PROVE call' \in [Caller -> Call]
  BY <1>8, ReturnFacts, GotoFacts DEF StatusTell, StatusAnswers, Points
<1>9. ASSUME NEW c \in Caller, Pick(c) PROVE call' \in [Caller -> Call]
  BY <1>9, ReturnFacts DEF Pick
<1>10. ASSUME NEW c \in Caller, PauseTake(c) PROVE call' \in [Caller -> Call]
  <2>1. \A t \in {"off", "work", "made"} : [call[c] EXCEPT !.at = "await", !.task = t] \in Call
    BY DEF TypeOK, Call, Points
  <2>2. (IF task[call[c].q] = "ending" THEN "off" ELSE task[call[c].q]) \in {"off", "work", "made"}
    BY DEF TypeOK, Call
  <2>3. QED
    BY <1>10, <2>1, <2>2, ReturnFacts DEF PauseTake, TypeOK
<1>11. ASSUME NEW c \in Caller, PauseDone(c) PROVE call' \in [Caller -> Call]
  BY <1>11, ReturnFacts DEF PauseDone
<1>12. ASSUME NEW c \in Caller, DeleteList(c) PROVE call' \in [Caller -> Call]
  <2>1. [call[c] EXCEPT !.todo = known] \in Call
    BY DEF TypeOK, Call
  <2>2. QED
    BY <1>12, <2>1 DEF DeleteList, TypeOK
<1>13. ASSUME NEW c \in Caller, NEW q \in Quant, DeleteLock(c, q) PROVE call' \in [Caller -> Call]
  <2>1. \A point \in {"remove", "folder"} : [call[c] EXCEPT !.todo = @ \ {q}, !.at = point] \in Call
    BY DEF TypeOK, Call, Points
  <2>2. QED
    BY <1>13, <2>1, ReturnFacts DEF DeleteLock, TypeOK
<1>14. ASSUME NEW c \in Caller, Remove(c) PROVE call' \in [Caller -> Call]
  <2>1. [call[c] EXCEPT !.at = "idle", !.todo = {q \in Quant : lock[q] = c}] \in Call
    BY DEF TypeOK, Call, Points
  <2>2. QED
    BY <1>14, <2>1, ReturnFacts DEF Remove, TypeOK
<1>15. ASSUME NEW c \in Caller, NEW q \in Quant, SetIdle(c, q) PROVE call' \in [Caller -> Call]
  <2>1. [call[c] EXCEPT !.todo = @ \ {q}] \in Call
    BY DEF TypeOK, Call
  <2>2. QED
    BY <1>15, <2>1, ReturnFacts DEF SetIdle, TypeOK
<1>16. ASSUME NEW c \in Caller, NEW gone \in SUBSET Quant, RemoveFails(c, gone) PROVE call' \in [Caller -> Call]
  BY <1>16, ReturnFacts DEF RemoveFails
<1>17. ASSUME NEW c \in Caller, Told(c) PROVE call' \in [Caller -> Call]
  BY <1>17, GotoFacts DEF Told, Points
<1>18. ASSUME NEW c \in Caller, Disarmed(c) PROVE call' \in [Caller -> Call]
  BY <1>18, ReturnFacts DEF Disarmed
<1>19. ASSUME NEW q \in Quant, Work(q) PROVE call' \in [Caller -> Call]
  BY <1>19 DEF Work, TypeOK
<1>20. ASSUME NEW q \in Quant, NEW outcome \in {"done", "failed"}, Finish(q, outcome) PROVE call' \in [Caller -> Call]
  BY <1>20 DEF Finish, TypeOK
<1>21. ASSUME NEW q \in Quant, TaskEnds(q) PROVE call' \in [Caller -> Call]
  BY <1>21 DEF TaskEnds, TypeOK
<1>22. ASSUME Read PROVE call' \in [Caller -> Call]
  BY <1>22 DEF Read, TypeOK
<1>23. ASSUME PickOther PROVE call' \in [Caller -> Call]
  BY <1>23 DEF PickOther, TypeOK
<1>24. ASSUME Restart PROVE call' \in [Caller -> Call]
  <2>1. NoCall \in Call
    BY DownloadsAssumption DEF NoCall, Call, Ops, Points, Disk, Quant
  <2>2. QED
    BY <1>24, <2>1 DEF Restart
<1>31. ASSUME NEW c \in Caller, Leave(c) PROVE call' \in [Caller -> Call]
  BY <1>31, LeaveFacts
<1>32. ASSUME NEW c \in Caller, NEW gone \in SUBSET Quant, Sweep(c, gone) PROVE call' \in [Caller -> Call]
  BY <1>32, ReturnFacts DEF Sweep, TypeOK
<1>33. ASSUME NEW c \in Caller, FetchOn(c) PROVE call' \in [Caller -> Call]
  BY <1>33, TakenFacts
<1>25. QED
  BY <1>1, <1>2, <1>3, <1>4, <1>5, <1>6, <1>7, <1>8, <1>9, <1>10, <1>11,
     <1>12, <1>13, <1>14, <1>15, <1>16, <1>17, <1>18, <1>19, <1>20,
     <1>21, <1>22, <1>23, <1>24, <1>31, <1>32, <1>33 DEF Next, Serve, Fetch

\* Every step keeps the types of the rest.
LEMMA ServerTyped ==
    ASSUME TypeOK, PicksBundled, Next
    PROVE  /\ known' \subseteq Quant
           /\ task' \in [Quant -> {"off", "work", "made", "ending"}]
           /\ beside' \subseteq Quant
           /\ lock' \in [Quant -> Caller \union {None}]
           /\ disk' \in [Quant -> Disk]
           /\ picked' \in Bundled \union {None}
<1> DEFINE Typed == /\ known \subseteq Quant
                    /\ task \in [Quant -> {"off", "work", "made", "ending"}]
                    /\ beside \subseteq Quant
                    /\ lock \in [Quant -> Caller \union {None}]
                    /\ disk \in [Quant -> Disk]
                    /\ picked \in Bundled \union {None}
<1>1. ASSUME NEW c \in Caller, NEW op \in Ops, NEW q \in Quant, Request(c, op, q) PROVE Typed'
  BY <1>1 DEF Request, TypeOK, files
<1>2. ASSUME NEW c \in Caller, Lock(c) PROVE Typed'
  BY <1>2 DEF Lock, TypeOK, Call, files
<1>3. ASSUME NEW c \in Caller, Close(c) PROVE Typed'
  BY <1>3 DEF Close, TypeOK, files
<1>4. ASSUME NEW c \in Caller, NEW reached \in BOOLEAN, StartLook(c, reached) PROVE Typed'
  BY <1>4, ReleaseFacts DEF StartLook, TypeOK, files
<1>5. ASSUME NEW c \in Caller, NEW room \in BOOLEAN, StartBegin(c, room) PROVE Typed'
  BY <1>5, ReleaseFacts DEF StartBegin, TypeOK, Call, files
<1>6. ASSUME NEW c \in Caller, NEW reached \in BOOLEAN, StatusLook(c, reached) PROVE Typed'
  BY <1>6, ReleaseFacts DEF StatusLook, TypeOK, files
<1>7. ASSUME NEW c \in Caller, StatusRead(c) PROVE Typed'
  BY <1>7 DEF StatusRead, TypeOK, files
<1>8. ASSUME NEW c \in Caller, StatusTell(c) PROVE Typed'
  BY <1>8, ReleaseFacts DEF StatusTell, TypeOK, files
<1>9. ASSUME NEW c \in Caller, Pick(c) PROVE Typed'
  BY <1>9 DEF Pick, TypeOK, PicksBundled
<1>10. ASSUME NEW c \in Caller, PauseTake(c) PROVE Typed'
  BY <1>10, ReleaseFacts DEF PauseTake, TypeOK, Call, files
<1>11. ASSUME NEW c \in Caller, PauseDone(c) PROVE Typed'
  BY <1>11, ReleaseFacts DEF PauseDone, TypeOK, files
<1>12. ASSUME NEW c \in Caller, DeleteList(c) PROVE Typed'
  BY <1>12 DEF DeleteList, TypeOK, files
<1>13. ASSUME NEW c \in Caller, NEW q \in Quant, DeleteLock(c, q) PROVE Typed'
  BY <1>13, ReleaseFacts DEF DeleteLock, TypeOK, files
<1>14. ASSUME NEW c \in Caller, Remove(c) PROVE Typed'
  BY <1>14, ReleaseFacts DEF Remove, TypeOK, Disk
<1>15. ASSUME NEW c \in Caller, NEW q \in Quant, SetIdle(c, q) PROVE Typed'
  BY <1>15, ReleaseFacts DEF SetIdle, TypeOK, files
<1>16. ASSUME NEW c \in Caller, NEW gone \in SUBSET Quant, RemoveFails(c, gone) PROVE Typed'
  BY <1>16, ReleaseFacts DEF RemoveFails, TypeOK, Disk
<1>17. ASSUME NEW c \in Caller, Told(c) PROVE Typed'
  BY <1>17 DEF Told, TypeOK, files
<1>18. ASSUME NEW c \in Caller, Disarmed(c) PROVE Typed'
  BY <1>18 DEF Disarmed, TypeOK, files
<1>19. ASSUME NEW q \in Quant, Work(q) PROVE Typed'
  BY <1>19, GetsFacts DEF Work, TypeOK
<1>20. ASSUME NEW q \in Quant, NEW outcome \in {"done", "failed"}, Finish(q, outcome) PROVE Typed'
  BY <1>20 DEF Finish, TypeOK, files
<1>21. ASSUME NEW q \in Quant, TaskEnds(q) PROVE Typed'
  BY <1>21 DEF TaskEnds, TypeOK, files
<1>22. ASSUME Read PROVE Typed'
  BY <1>22 DEF Read, TypeOK, files
<1>23. ASSUME PickOther PROVE Typed'
  BY <1>23 DEF PickOther, TypeOK, files
<1>24. ASSUME Restart PROVE Typed'
  BY <1>24 DEF Restart, TypeOK, files
<1>31. ASSUME NEW c \in Caller, Leave(c) PROVE Typed'
  BY <1>31, LeaveFacts DEF TypeOK
<1>32. ASSUME NEW c \in Caller, NEW gone \in SUBSET Quant, Sweep(c, gone) PROVE Typed'
  BY <1>32, ReturnFacts DEF Sweep, TypeOK, Disk
<1>33. ASSUME NEW c \in Caller, FetchOn(c) PROVE Typed'
  BY <1>33, TakenFacts DEF TypeOK
<1>25. QED
  BY <1>1, <1>2, <1>3, <1>4, <1>5, <1>6, <1>7, <1>8, <1>9, <1>10, <1>11,
     <1>12, <1>13, <1>14, <1>15, <1>16, <1>17, <1>18, <1>19, <1>20,
     <1>21, <1>22, <1>23, <1>24, <1>31, <1>32, <1>33 DEF Next, Serve, Fetch

\* Every step keeps the types of all variables.
LEMMA TypeStep ==
    ASSUME TypeOK, PicksBundled, [Next]_vars
    PROVE  TypeOK'
<1>1. CASE Next
  BY <1>1, ClientTyped, CallTyped, ServerTyped DEF TypeOK
<1>2. CASE UNCHANGED vars
  BY <1>2 DEF vars, TypeOK
<1>3. QED
  BY <1>1, <1>2

-----------------------------------------------------------------------------
(* The states and the tasks.                                               *)

\* A step that neither starts, takes, drops nor ends a task.
Quiet ==
    /\ task' = task /\ beside' = beside
    /\ \A d \in Caller :
          /\ call'[d].task = call[d].task
          /\ call[d].task # "off" => call'[d].q = call[d].q /\ call'[d].at = call[d].at
          /\ call'[d].at \in {"await", "stray"} => call'[d].q = call[d].q /\ call'[d].at = call[d].at

\* The tasks behind a state are then the same.
LEMMA QuietKeeps ==
    ASSUME Quiet, NEW q \in Quant
    PROVE  (Behind(q)' <=> Behind(q)) /\ (Owned(q)' => Owned(q))
BY DEF Quiet, Behind, Owned

\* The steps of requests are quiet, but for those that start or take a task and
\* for the drop of a pause.
LEMMA QuietSteps ==
    ASSUME TypeOK, TakenTasks, NEW c \in Caller,
           \/ Lock(c) \/ Close(c) \/ \E op \in Ops, q \in Quant : Request(c, op, q)
           \/ \E reached \in BOOLEAN : StartLook(c, reached) \/ StatusLook(c, reached)
           \/ StatusRead(c) \/ StatusTell(c) \/ Pick(c) \/ PauseDone(c)
           \/ DeleteList(c) \/ \E q \in Quant : DeleteLock(c, q) \/ SetIdle(c, q)
           \/ Remove(c) \/ \E gone \in SUBSET Quant : RemoveFails(c, gone) \/ Sweep(c, gone)
           \/ Told(c) \/ Disarmed(c) \/ (Leave(c) /\ call[c].at # "await")
    PROVE  Quiet
<1>a. call[c].at \notin {"await", "stray"} => call[c].task = "off"
  BY DEF TakenTasks
<1>b. call[c] \in Call
  BY DEF TypeOK
<1> DEFINE Frame ==
             /\ task' = task /\ beside' = beside
             /\ \A d \in Caller \ {c} : call'[d] = call[d]
             /\ \/ call'[c] = call[c]
                \/ /\ call'[c].at \notin {"await", "stray"} /\ call'[c].task = "off"
                   /\ call[c].task = "off"
<1>f. Frame => Quiet
  BY DEF Quiet
<1> HIDE DEF Frame
<1>1. ASSUME NEW op \in Ops, NEW q \in Quant, Request(c, op, q) PROVE Frame
  BY <1>1, <1>a, <1>b DEF Request, TypeOK, Frame
<1>2. ASSUME Lock(c) PROVE Frame
  BY <1>2, <1>a, GotoFacts, ReturnFacts DEF Lock, Points, Frame
<1>3. ASSUME Close(c) PROVE Frame
  BY <1>3, <1>a, <1>b DEF Close, TypeOK, Frame
<1>4. ASSUME NEW reached \in BOOLEAN, StartLook(c, reached) PROVE Frame
  BY <1>4, <1>a, GotoFacts, ReturnFacts DEF StartLook, StartAnswers, At, Points, Frame
<1>5. ASSUME NEW reached \in BOOLEAN, StatusLook(c, reached) PROVE Frame
  BY <1>5, <1>a, GotoFacts, ReturnFacts DEF StatusLook, StatusAnswers, At, Points, Frame
<1>6. ASSUME StatusRead(c) PROVE Frame
  BY <1>6, <1>a, <1>b DEF StatusRead, TypeOK, Frame
<1>7. ASSUME StatusTell(c) PROVE Frame
  BY <1>7, <1>a, GotoFacts, ReturnFacts DEF StatusTell, StatusAnswers, Points, Frame
<1>8. ASSUME Pick(c) PROVE Frame
  BY <1>8, <1>a, GotoFacts, ReturnFacts DEF Pick, Frame
<1>9. ASSUME PauseDone(c) PROVE Frame
  BY <1>9, <1>a, GotoFacts, ReturnFacts DEF PauseDone, Frame
<1>10. ASSUME DeleteList(c) PROVE Frame
  BY <1>10, <1>a, <1>b DEF DeleteList, TypeOK, Frame
<1>11. ASSUME NEW q \in Quant, DeleteLock(c, q) PROVE Frame
  <2>1. \A d \in Caller \ {c} : call'[d] = call[d]
    BY <1>11, ReturnFacts DEF DeleteLock, TypeOK
  <2>2. call'[c].at \notin {"await", "stray"} /\ call'[c].task \in {"off", call[c].task}
    BY <1>11, <1>b, ReturnFacts DEF DeleteLock, TypeOK, Call
  <2>3. task' = task /\ beside' = beside /\ call[c].task = "off"
    BY <1>11, <1>a DEF DeleteLock
  <2>4. QED
    BY <2>1, <2>2, <2>3 DEF Frame
<1>12. ASSUME Remove(c) PROVE Frame
  <2>1. \A d \in Caller \ {c} : call'[d] = call[d]
    BY <1>12, ReturnFacts DEF Remove, TypeOK
  <2>2. call'[c].at \notin {"await", "stray"} /\ call'[c].task \in {"off", call[c].task}
    BY <1>12, <1>b, ReturnFacts DEF Remove, TypeOK, Call
  <2>3. task' = task /\ beside' = beside /\ call[c].task = "off"
    BY <1>12, <1>a DEF Remove
  <2>4. QED
    BY <2>1, <2>2, <2>3 DEF Frame
<1>13. ASSUME NEW q \in Quant, SetIdle(c, q) PROVE Frame
  <2>1. \A d \in Caller \ {c} : call'[d] = call[d]
    BY <1>13, ReturnFacts DEF SetIdle, TypeOK
  <2>2. call'[c].at \notin {"await", "stray"} /\ call'[c].task \in {"off", call[c].task}
    BY <1>13, <1>b, ReturnFacts DEF SetIdle, TypeOK, Call
  <2>3. task' = task /\ beside' = beside /\ call[c].task = "off"
    BY <1>13, <1>a DEF SetIdle
  <2>4. QED
    BY <2>1, <2>2, <2>3 DEF Frame
<1>14. ASSUME NEW gone \in SUBSET Quant, RemoveFails(c, gone) PROVE Frame
  BY <1>14, <1>a, GotoFacts, ReturnFacts DEF RemoveFails, Frame
<1>15. ASSUME Told(c) PROVE Frame
  BY <1>15, <1>a, GotoFacts, ReturnFacts DEF Told, Points, Frame
<1>16. ASSUME Disarmed(c) PROVE Frame
  BY <1>16, <1>a, GotoFacts, ReturnFacts DEF Disarmed, Frame
<1>17. ASSUME NEW gone \in SUBSET Quant, Sweep(c, gone) PROVE Frame
  BY <1>17, <1>a, ReturnFacts DEF Sweep, TypeOK, Frame
<1>18. ASSUME Leave(c), call[c].at # "await" PROVE Frame
  BY <1>18, <1>a, LeaveFacts DEF Frame
<1>19. QED
  BY <1>f, <1>1, <1>2, <1>3, <1>4, <1>5, <1>6, <1>7, <1>8, <1>9, <1>10, <1>11, <1>12, <1>13, <1>14, <1>15, <1>16, <1>17, <1>18

\* What holds a lock is not owned by a task but the one its own pause awaits.
LEMMA NotOwned ==
    ASSUME TypeOK, LocksAreHeld, NEW c \in Caller, NEW q \in Quant, lock[q] = c, task[q] = "off",
           call[c].at # "await"
    PROVE  ~Owned(q)
BY DEF LocksAreHeld, Owns, Owned, Works

\* A task is started and ended with the state that says so: what a status or
\* a delete writes, it writes where no task is, or only one that a dropped pause left.
LEMMA TaskStep ==
    ASSUME TypeOK, TaskIsTold, TakenTasks, LocksAreHeld, NothingRunsUnderDelete, [Next]_vars
    PROVE  TaskIsTold'
<1> DEFINE Rests(q) == \E s \in States : ~IsRunning(s) /\ Set(q, s)
<1>0. \A c \in Caller : call[c] \in Call /\ call[c].q \in Quant
  BY DEF TypeOK, Call
<1>a. ASSUME Quiet, SameStates PROVE TaskIsTold'
  BY <1>a, QuietKeeps DEF TaskIsTold, SameStates, Quiet
<1>b. ASSUME Quiet, NEW q \in Quant, Rests(q), ~Owned(q) PROVE TaskIsTold'
  <2>1. PICK s \in States : ~IsRunning(s) /\ Set(q, s)
    BY <1>b
  <2>2. state'[q] = s /\ \A p \in Quant \ {q} : state'[p] = state[p]
    BY <2>1, SetFacts
  <2>3. QED
    BY <1>b, <2>1, <2>2, QuietKeeps DEF TaskIsTold, Quiet
<1>1. ASSUME NEW c \in Caller, SameStates,
             \/ Lock(c) \/ Close(c) \/ \E op \in Ops, q \in Quant : Request(c, op, q)
             \/ \E reached \in BOOLEAN : StartLook(c, reached) \/ StatusLook(c, reached)
             \/ StatusRead(c) \/ StatusTell(c) \/ Pick(c) \/ PauseDone(c)
             \/ DeleteList(c) \/ \E q \in Quant : DeleteLock(c, q)
             \/ Remove(c) \/ \E gone \in SUBSET Quant : RemoveFails(c, gone) \/ Sweep(c, gone)
             \/ Told(c) \/ Disarmed(c) \/ (Leave(c) /\ call[c].at # "await")
      PROVE  TaskIsTold'
  BY <1>1, <1>a, QuietSteps
<1>2. ASSUME NEW c \in Caller, NEW reached \in BOOLEAN, StatusLook(c, reached), ~SameStates PROVE TaskIsTold'
  <2>1. ~Live(call[c].q) /\ Set(call[c].q, "done") /\ call[c].at = "locked"
    BY <1>2 DEF StatusLook, At
  <2>2. ~Owned(call[c].q)
    BY <2>1, <1>0, NotOwned DEF Live, LocksAreHeld, Owns
  <2>3. Quiet
    BY <1>2, QuietSteps
  <2>4. QED
    BY <2>1, <2>2, <2>3, <1>0, <1>b DEF States, IsRunning
<1>3. ASSUME NEW c \in Caller, StatusTell(c), ~SameStates PROVE TaskIsTold'
  <2>1. ~Live(call[c].q) /\ Set(call[c].q, FromDisk(call[c].seen)) /\ call[c].at = "tell"
    BY <1>3 DEF StatusTell
  <2>2. ~Owned(call[c].q)
    BY <2>1, <1>0, NotOwned DEF Live, LocksAreHeld, Owns
  <2>3. FromDisk(call[c].seen) \in States /\ ~IsRunning(FromDisk(call[c].seen))
    BY DEF FromDisk, States, IsRunning
  <2>4. Quiet
    BY <1>3, QuietSteps
  <2>5. QED
    BY <2>1, <2>2, <2>3, <2>4, <1>0, <1>b
<1>4. ASSUME NEW c \in Caller, NEW q \in Quant, SetIdle(c, q) PROVE TaskIsTold'
  <2>1. lock[q] = c /\ task[q] = "off" /\ call[c].at = "idle" /\ Set(q, "idle")
    BY <1>4 DEF SetIdle, IsNext, NothingRunsUnderDelete, Deletes, Live
  <2>2. ~Owned(q)
    BY <2>1, NotOwned
  <2>3. Quiet
    BY <1>4, QuietSteps
  <2>4. QED
    BY <2>1, <2>2, <2>3, <1>b DEF States, IsRunning
<1>5. ASSUME NEW c \in Caller, NEW room \in BOOLEAN, StartBegin(c, room) PROVE TaskIsTold'
  <2>q. PICK q \in Quant : q = call[c].q
    BY <1>0
  <2>0. q \in Quant /\ call[c].at = "begin" /\ call[c].task = "off"
    BY <2>q, <1>5, <1>0 DEF StartBegin, At, TakenTasks
  <2>1. /\ \A d \in Caller \ {c} : call'[d] = call[d]
        /\ call'[c].task = "off" /\ call'[c].at \in {"off", "follow"}
    BY <2>q, <1>5, <2>0, GotoFacts, ReturnFacts DEF StartBegin, StartAnswers, Points
  <2>2. CASE SameStates /\ UNCHANGED <<task, beside>>
    <3>1. Quiet
      BY <2>q, <2>0, <2>1, <2>2 DEF Quiet
    <3>2. QED
      BY <2>q, <3>1, <2>2, <1>a
  <2>3. CASE Set(q, "downloading") /\ task' = [task EXCEPT ![q] = "work"]
    <3>1. state'[q] = "downloading" /\ \A p \in Quant \ {q} : state'[p] = state[p]
      BY <2>q, <2>0, <2>3, SetFacts DEF States
    <3>2. task'[q] = "work" /\ \A p \in Quant \ {q} : task'[p] = task[p] /\ (p \in beside' <=> p \in beside)
      <4>1. task'[q] = "work" /\ \A p \in Quant \ {q} : task'[p] = task[p]
        BY <2>q, <2>0, <2>3 DEF TypeOK
      <4>2. beside' \in {beside, beside \union {q}, beside \ {q}}
        BY <2>q, <1>5 DEF StartBegin
      <4>3. QED
        BY <2>q, <4>1, <4>2
    <3>3. \A p \in Quant \ {q} : (Behind(p) => Behind(p)') /\ (Owned(p)' => Owned(p))
      BY <2>q, <2>0, <2>1, <3>2 DEF Behind, Owned
    <3>4. Behind(q)'
      BY <2>q, <3>2 DEF Behind, Works
    <3>5. QED
      BY <2>q, <3>1, <3>2, <3>3, <3>4 DEF TaskIsTold, IsRunning
  <2>4. QED
    BY <2>q, <1>5, <2>2, <2>3 DEF StartBegin
<1>6. ASSUME NEW c \in Caller, PauseTake(c) PROVE TaskIsTold'
  <2>q. PICK q \in Quant : q = call[c].q
    BY <1>0
  <2>0. q \in Quant /\ call[c].at = "locked" /\ call[c].task = "off"
    BY <2>q, <1>6, <1>0 DEF PauseTake, At, TakenTasks
  <2>1. /\ SameStates /\ beside' = beside
        /\ task'[q] = "off" /\ \A p \in Quant \ {q} : task'[p] = task[p]
        /\ \A d \in Caller \ {c} : call'[d] = call[d]
    BY <2>q, <1>6, <2>0, ReturnFacts DEF PauseTake, TypeOK
  <2>2. \/ ~Works(task[q]) /\ call'[c].task = "off"
        \/ Works(task[q]) /\ call'[c].task # "off" /\ call'[c].q = q
    BY <2>q, <1>6, <2>0, <1>0, ReturnFacts DEF PauseTake, Live, Works, TypeOK, Call
  <2>3. \A p \in Quant : (Behind(p) => Behind(p)') /\ (Owned(p)' => Owned(p))
    BY <2>q, <2>0, <2>1, <2>2 DEF Behind, Owned, Works
  <2>4. QED
    BY <2>q, <2>1, <2>3 DEF TaskIsTold, SameStates
<1>7. ASSUME NEW c \in Caller, Leave(c), call[c].at = "await" PROVE TaskIsTold'
  <2>1. \A p \in Quant : (Behind(p) => Behind(p)') /\ (Owned(p)' => Owned(p))
    BY <1>7, LeaveFacts DEF Behind, Owned
  <2>2. QED
    BY <1>7, <2>1, LeaveFacts DEF TaskIsTold, SameStates
<1>8. ASSUME NEW q \in Quant, Work(q) PROVE TaskIsTold'
  <2>1. task[q] = "work" /\ task'[q] \in {"work", "made"} /\ \A p \in Quant \ {q} : task'[p] = task[p]
    BY <1>8, GetsFacts DEF Work, TypeOK
  <2>2. call' = call /\ beside' = beside /\ (SameStates \/ Set(q, "downloading") \/ Set(q, "verifying"))
    BY <1>8, GetsFacts DEF Work
  <2>3. (state'[q] = state[q] \/ IsRunning(state'[q])) /\ \A p \in Quant \ {q} : state'[p] = state[p]
    BY <2>2, SetFacts DEF SameStates, States, IsRunning
  <2>4. \A p \in Quant : (Behind(p) => Behind(p)') /\ (Owned(p)' => Owned(p)) /\ Behind(q)'
    BY <2>1, <2>2 DEF Behind, Owned, Works
  <2>5. QED
    BY <2>2, <2>3, <2>4 DEF TaskIsTold
<1>9. ASSUME NEW q \in Quant, NEW outcome \in {"done", "failed"}, Finish(q, outcome) PROVE TaskIsTold'
  <2>1. Works(task[q]) /\ task'[q] = "ending" /\ \A p \in Quant \ {q} : task'[p] = task[p]
    BY <1>9 DEF Finish, TypeOK
  <2>2. call' = call /\ beside' = beside
    BY <1>9 DEF Finish
  <2>3. ~IsRunning(state'[q]) /\ \A p \in Quant \ {q} : state'[p] = state[p]
    BY <1>9, SetFacts DEF Finish, States, IsRunning
  <2>4. ~Owned(q)'
    BY <2>1, <2>2 DEF Owned, Works, TakenTasks
  <2>5. \A p \in Quant \ {q} : (Behind(p) => Behind(p)') /\ (Owned(p)' => Owned(p))
    BY <2>1, <2>2 DEF Behind, Owned
  <2>6. QED
    BY <2>2, <2>3, <2>4, <2>5 DEF TaskIsTold
<1>10. ASSUME NEW q \in Quant, TaskEnds(q) PROVE TaskIsTold'
  <2>1. task[q] = "ending" /\ task'[q] = "off" /\ \A p \in Quant \ {q} : task'[p] = task[p]
    BY <1>10 DEF TaskEnds, TypeOK
  <2>2. call' = call /\ beside' = beside /\ SameStates
    BY <1>10 DEF TaskEnds
  <2>3. \A p \in Quant : (Behind(p) => Behind(p)') /\ (Owned(p)' => Owned(p))
    BY <2>1, <2>2 DEF Behind, Owned, Works
  <2>4. QED
    BY <2>2, <2>3 DEF TaskIsTold, SameStates
<1>11. ASSUME NEW c \in Caller, TakenWork(c) PROVE TaskIsTold'
  <2>q. PICK q \in Quant : q = call[c].q
    BY <1>0
  <2>0. q \in Quant
    BY <2>q, <1>0
  <2>1. /\ call[c].task # "off" /\ call'[c].task \in {"work", "made"} /\ call'[c].q = q
        /\ call'[c].at = call[c].at /\ \A d \in Caller \ {c} : call'[d] = call[d]
    BY <2>q, <1>11, <1>0, <2>0, GetsFacts DEF TakenWork, TypeOK, Call
  <2>2. task' = task /\ beside' = beside /\ (SameStates \/ Set(q, "downloading") \/ Set(q, "verifying"))
    BY <2>q, <1>11, <2>0, GetsFacts DEF TakenWork
  <2>3. (state'[q] = state[q] \/ IsRunning(state'[q])) /\ \A p \in Quant \ {q} : state'[p] = state[p]
    BY <2>q, <2>0, <2>2, SetFacts DEF SameStates, States, IsRunning
  <2>4. \A p \in Quant : (Behind(p) => Behind(p)') /\ (Owned(p)' => Owned(p)) /\ Behind(q)'
    BY <2>q, <2>0, <2>1, <2>2 DEF Behind, Owned
  <2>5. QED
    BY <2>q, <2>0, <2>2, <2>3, <2>4 DEF TaskIsTold
<1>12. ASSUME NEW c \in Caller, NEW outcome \in {"done", "paused", "failed"}, TakenEnds(c, outcome) PROVE TaskIsTold'
  <2>q. PICK q \in Quant : q = call[c].q
    BY <1>0
  <2>0. q \in Quant /\ call[c].task # "off" /\ call[c].at \in {"await", "stray"}
    BY <2>q, <1>0, <1>12 DEF TakenEnds, TakenTasks
  <2>1. /\ call'[c].task = "off" /\ \A d \in Caller \ {c} : call'[d] = call[d]
        /\ task' = task /\ beside' = beside
    BY <2>q, <1>12, <1>0, ReturnFacts DEF TakenEnds, TypeOK, Call
  <2>2. ~IsRunning(state'[q]) /\ \A p \in Quant \ {q} : state'[p] = state[p]
    BY <2>q, <1>12, <2>0, SetFacts DEF TakenEnds, States, IsRunning
  <2>3. \A p \in Quant \ {q} : (Behind(p) => Behind(p)') /\ (Owned(p)' => Owned(p))
    BY <2>q, <2>0, <2>1 DEF Behind, Owned
  <2>4. Owned(q)' => q \in beside
    <3>1. CASE call[c].at = "await"
      BY <2>q, <3>1, <2>0, <2>1 DEF Owned, TakenTasks, LocksAreHeld, Owns, Works
    <3>2. CASE call[c].at = "stray"
      BY <2>q, <3>2, <2>0, <2>1 DEF Owned, TakenTasks, Stray
    <3>3. QED
      BY <2>q, <3>1, <3>2, <2>0
  <2>5. QED
    BY <2>q, <2>0, <2>1, <2>2, <2>3, <2>4 DEF TaskIsTold
<1>13. ASSUME Read \/ PickOther \/ UNCHANGED vars PROVE TaskIsTold'
  BY <1>13 DEF Read, PickOther, vars, SameStates, TaskIsTold, Behind, Owned
<1>14. ASSUME Restart PROVE TaskIsTold'
  BY <1>14 DEF Restart, TaskIsTold, IsRunning, Owned, Works, NoCall
<1>15. ASSUME NEW c \in Caller, Serve(c) PROVE TaskIsTold'
  <2>1. ASSUME NEW reached \in BOOLEAN, StartLook(c, reached) PROVE SameStates
    BY <2>1 DEF StartLook
  <2>2. ASSUME StatusRead(c) \/ Pick(c) \/ PauseDone(c) \/ DeleteList(c) \/ Remove(c) \/ Told(c)
               \/ Disarmed(c) \/ Leave(c) PROVE SameStates
    BY <2>2 DEF StatusRead, Pick, PauseDone, DeleteList, Remove, Told, Disarmed, Leave
  <2>3. ASSUME NEW q \in Quant, DeleteLock(c, q) PROVE SameStates
    BY <2>3 DEF DeleteLock
  <2>4. ASSUME NEW gone \in SUBSET Quant, RemoveFails(c, gone) \/ Sweep(c, gone) PROVE SameStates
    BY <2>4 DEF RemoveFails, Sweep
  <2>5. QED
    BY <1>15, <2>1, <2>2, <2>3, <2>4, <1>1, <1>2, <1>3, <1>4, <1>5, <1>6, <1>7 DEF Serve
<1>16. ASSUME NEW c \in Caller, Lock(c) \/ Close(c) \/ \E op \in Ops, q \in Quant : Request(c, op, q)
       PROVE  TaskIsTold'
  BY <1>16, <1>1 DEF Lock, Close, Request
<1>17. QED
  BY <1>8, <1>9, <1>10, <1>11, <1>12, <1>13, <1>14, <1>15, <1>16 DEF Next, Fetch, FetchOn

\* A task is taken out of `running` under the lock, and a dropped pause leaves it
\* alone; the next one is then known to be started beside it.
LEMMA TakenStep ==
    ASSUME TypeOK, TakenTasks, LocksAreHeld, [Next]_vars
    PROVE  TakenTasks'
<1>0. \A c \in Caller : call[c] \in Call /\ call[c].q \in Quant
  BY DEF TypeOK, Call
<1>a. ASSUME Quiet PROVE TakenTasks'
  <2>1. \A q \in Quant : Stray(q)' /\ Owned(q)' => q \in beside'
    BY <1>a, QuietKeeps DEF Quiet, TakenTasks, Stray
  <2>2. \A c \in Caller : call'[c].at = "await" => task'[call'[c].q] = "off"
    BY <1>a DEF Quiet, TakenTasks
  <2>3. QED
    BY <1>a, <2>1, <2>2 DEF TakenTasks, Quiet
<1>5. ASSUME NEW c \in Caller, NEW room \in BOOLEAN, StartBegin(c, room) PROVE TakenTasks'
  <2>q. PICK q \in Quant : q = call[c].q
    BY <1>0
  <2>0. q \in Quant /\ call[c].at = "begin" /\ call[c].task = "off" /\ lock[q] = c
    BY <2>q, <1>5, <1>0 DEF StartBegin, At, TakenTasks, LocksAreHeld, Owns
  <2>1. /\ \A d \in Caller \ {c} : call'[d] = call[d]
        /\ call'[c].task = "off" /\ call'[c].at \in {"off", "follow"}
    BY <2>q, <1>5, <2>0, GotoFacts, ReturnFacts DEF StartBegin, StartAnswers, Points
  <2>2. CASE UNCHANGED <<task, beside>>
    <3>1. Quiet
      BY <2>q, <2>0, <2>1, <2>2 DEF Quiet
    <3>2. QED
      BY <2>q, <3>1, <1>a
  <2>3. CASE /\ task' = [task EXCEPT ![q] = "work"]
             /\ beside' = IF Stray(q) THEN beside \union {q} ELSE beside \ {q}
    <3>1. task'[q] = "work" /\ \A p \in Quant \ {q} : task'[p] = task[p]
      BY <2>q, <2>0, <2>3 DEF TypeOK
    <3>2. \A d \in Caller : call[d].at = "await" => call[d].q # q
      BY <2>q, <2>0 DEF LocksAreHeld, Owns
    <3>3. \A p \in Quant \ {q} : Owned(p)' => Owned(p)
      BY <2>q, <2>1, <3>1 DEF Owned
    <3>4. ASSUME NEW p \in Quant, Stray(p)', Owned(p)' PROVE p \in beside'
      <4>1. Stray(p)
        BY <3>4, <2>1 DEF Stray
      <4>2. CASE p = q
        BY <4>1, <4>2, <2>3
      <4>3. CASE p # q
        BY <4>1, <4>3, <3>3, <3>4, <2>3 DEF TakenTasks
      <4>4. QED
        BY <4>2, <4>3
    <3>5. \A d \in Caller : /\ call'[d].task # "off" => call'[d].at \in {"await", "stray"}
                            /\ call'[d].at = "await" => task'[call'[d].q] = "off"
      BY <2>q, <2>1, <3>1, <3>2, <1>0 DEF TakenTasks
    <3>6. QED
      BY <2>q, <3>4, <3>5 DEF TakenTasks
  <2>4. QED
    BY <2>q, <1>5, <2>2, <2>3 DEF StartBegin
<1>6. ASSUME NEW c \in Caller, PauseTake(c) PROVE TakenTasks'
  <2>q. PICK q \in Quant : q = call[c].q
    BY <1>0
  <2>0. q \in Quant /\ call[c].at = "locked" /\ call[c].task = "off"
    BY <2>q, <1>6, <1>0 DEF PauseTake, At, TakenTasks
  <2>1. /\ beside' = beside
        /\ task'[q] = "off" /\ \A p \in Quant \ {q} : task'[p] = task[p]
        /\ \A d \in Caller \ {c} : call'[d] = call[d]
    BY <2>q, <1>6, <2>0, ReturnFacts DEF PauseTake, TypeOK
  <2>2. \/ call'[c].at = "off" /\ call'[c].task = "off"
        \/ call'[c].at = "await" /\ call'[c].q = q /\ (call'[c].task # "off" => Works(task[q]))
    BY <2>q, <1>6, <2>0, <1>0, ReturnFacts DEF PauseTake, Live, Works, TypeOK, Call
  <2>3. \A p \in Quant : Owned(p)' => Owned(p)
    BY <2>q, <2>0, <2>1, <2>2 DEF Owned, Works
  <2>4. \A p \in Quant : Stray(p)' => Stray(p)
    BY <2>1, <2>2 DEF Stray
  <2>5. \A p \in Quant : Stray(p)' /\ Owned(p)' => p \in beside'
    BY <2>1, <2>3, <2>4 DEF TakenTasks
  <2>6. \A d \in Caller : /\ call'[d].task # "off" => call'[d].at \in {"await", "stray"}
                          /\ call'[d].at = "await" => task'[call'[d].q] = "off"
    BY <2>q, <2>0, <2>1, <2>2, <1>0 DEF TakenTasks
  <2>7. QED
    BY <2>5, <2>6 DEF TakenTasks
<1>7. ASSUME NEW c \in Caller, Leave(c), call[c].at = "await" PROVE TakenTasks'
  <2>q. PICK q \in Quant : q = call[c].q
    BY <1>0
  <2>0. q \in Quant /\ task[q] = "off" /\ lock[q] = c
    BY <2>q, <1>7, <1>0 DEF TakenTasks, LocksAreHeld, Owns
  <2>1. /\ \A d \in Caller \ {c} : call'[d] = call[d]
        /\ call'[c].at = "stray" /\ call'[c].q = q /\ task' = task /\ beside' = beside
    BY <2>q, <1>7, LeaveFacts
  <2>2. \A p \in Quant : Owned(p)' => Owned(p)
    BY <2>q, <2>1, <1>7, LeaveFacts DEF Owned
  <2>3. ~Owned(q)'
    BY <2>q, <2>0, <2>1 DEF Owned, Works, LocksAreHeld, Owns
  <2>4. \A p \in Quant : Stray(p)' => Stray(p) \/ p = q
    BY <2>1 DEF Stray
  <2>5. \A p \in Quant : Stray(p)' /\ Owned(p)' => p \in beside'
    BY <2>1, <2>2, <2>3, <2>4 DEF TakenTasks
  <2>6. \A d \in Caller : /\ call'[d].task # "off" => call'[d].at \in {"await", "stray"}
                          /\ call'[d].at = "await" => task'[call'[d].q] = "off"
    BY <2>1, <1>0 DEF TakenTasks
  <2>7. QED
    BY <2>5, <2>6 DEF TakenTasks
<1>8. ASSUME NEW q \in Quant, Fetch(q) PROVE TakenTasks'
  <2>1. call' = call /\ beside' = beside
    BY <1>8 DEF Fetch, Work, Finish, TaskEnds
  <2>2. /\ \A p \in Quant : task[p] = "off" => task'[p] = "off"
        /\ \A p \in Quant : Works(task'[p]) => Works(task[p])
    BY <1>8 DEF Fetch, Work, Finish, TaskEnds, Works, TypeOK
  <2>3. \A p \in Quant : Owned(p)' => Owned(p)
    BY <2>1, <2>2 DEF Owned
  <2>4. \A p \in Quant : Stray(p)' => Stray(p)
    BY <2>1 DEF Stray
  <2>5. QED
    BY <2>1, <2>2, <2>3, <2>4, <1>0 DEF TakenTasks
<1>9. ASSUME NEW c \in Caller, FetchOn(c) PROVE TakenTasks'
  <2>1. \A p \in Quant : Owned(p)' => Owned(p)
    BY <1>9, TakenFacts DEF Owned
  <2>2. call[c].at \in {"await", "stray"}
    BY <1>9, TakenFacts DEF TakenTasks
  <2>3. /\ \A d \in Caller \ {c} : call'[d] = call[d]
        /\ task' = task /\ beside' = beside
        /\ \/ call'[c].at = "off" /\ call'[c].task = "off"
           \/ call'[c].at = call[c].at /\ call'[c].q = call[c].q
    BY <1>9, TakenFacts
  <2>4. \A p \in Quant : Stray(p)' => Stray(p)
    BY <2>3 DEF Stray
  <2>5. \A p \in Quant : Stray(p)' /\ Owned(p)' => p \in beside'
    BY <2>1, <2>3, <2>4 DEF TakenTasks
  <2>6. \A d \in Caller : /\ call'[d].task # "off" => call'[d].at \in {"await", "stray"}
                          /\ call'[d].at = "await" => task'[call'[d].q] = "off"
    BY <2>2, <2>3, <1>0 DEF TakenTasks
  <2>7. QED
    BY <2>5, <2>6 DEF TakenTasks
<1>10. ASSUME Read \/ PickOther \/ UNCHANGED vars PROVE TakenTasks'
  BY <1>10 DEF Read, PickOther, vars, TakenTasks, Owned, Stray
<1>11. ASSUME Restart PROVE TakenTasks'
  BY <1>11 DEF Restart, TakenTasks, NoCall, Stray
<1>12. ASSUME NEW c \in Caller,
             Serve(c) \/ Lock(c) \/ Close(c) \/ \E op \in Ops, q \in Quant : Request(c, op, q)
      PROVE  TakenTasks'
  BY <1>12, <1>a, <1>5, <1>6, <1>7, QuietSteps DEF Serve
<1>13. QED
  BY <1>8, <1>9, <1>10, <1>11, <1>12 DEF Next

\* A request makes the entry that it asks for, and a delete takes what is known.
LEMMA KnownCallsStep ==
    ASSUME TypeOK, LocksAreHeld, KnownFirst, Next
    PROVE  \A c \in Caller : call'[c].at # "off" => call'[c].q \in known' /\ call'[c].todo \subseteq known'
<1> DEFINE Known == \A c \in Caller : call[c].at # "off" => call[c].q \in known /\ call[c].todo \subseteq known
<1>0. Known /\ known \subseteq Quant
  BY DEF KnownFirst, TypeOK
<1>1. ASSUME NEW c \in Caller, NEW op \in Ops, NEW q \in Quant, Request(c, op, q) PROVE Known'
  BY <1>1, <1>0 DEF Request, TypeOK, At
<1>2. ASSUME NEW c \in Caller, Lock(c) PROVE Known'
  BY <1>2, GotoFacts, ReturnFacts, <1>0 DEF Lock, Points, At
<1>3. ASSUME NEW c \in Caller, Close(c) PROVE Known'
  BY <1>3, <1>0 DEF Close, TypeOK, At
<1>4. ASSUME NEW c \in Caller, NEW reached \in BOOLEAN, StartLook(c, reached) PROVE Known'
  BY <1>4, GotoFacts, ReturnFacts, <1>0 DEF StartLook, Points, At, StartAnswers
<1>5. ASSUME NEW c \in Caller, NEW room \in BOOLEAN, StartBegin(c, room) PROVE Known'
  BY <1>5, GotoFacts, ReturnFacts, <1>0 DEF StartBegin, Points, At, StartAnswers
<1>6. ASSUME NEW c \in Caller, NEW reached \in BOOLEAN, StatusLook(c, reached) PROVE Known'
  BY <1>6, GotoFacts, ReturnFacts, <1>0 DEF StatusLook, Points, At, StatusAnswers
<1>7. ASSUME NEW c \in Caller, StatusRead(c) PROVE Known'
  BY <1>7, <1>0 DEF StatusRead, TypeOK, At
<1>8. ASSUME NEW c \in Caller, StatusTell(c) PROVE Known'
  BY <1>8, GotoFacts, ReturnFacts, <1>0 DEF StatusTell, Points, At, StatusAnswers
<1>9. ASSUME NEW c \in Caller, Pick(c) PROVE Known'
  BY <1>9, GotoFacts, ReturnFacts, <1>0 DEF Pick, Points, At
<1>10. ASSUME NEW c \in Caller, PauseTake(c) PROVE Known'
  BY <1>10, ReturnFacts, <1>0 DEF PauseTake, At, TypeOK, Call
<1>11. ASSUME NEW c \in Caller, PauseDone(c) PROVE Known'
  BY <1>11, GotoFacts, ReturnFacts, <1>0 DEF PauseDone, Points, At
<1>12. ASSUME NEW c \in Caller, DeleteList(c) PROVE Known'
  BY <1>12, <1>0 DEF DeleteList, TypeOK, At
<1>13. ASSUME NEW c \in Caller, NEW q \in Quant, DeleteLock(c, q) PROVE Known'
  <2>1. call[c].at # "off" /\ \A d \in Caller \ {c} : call'[d] = call[d]
    BY <1>13, ReturnFacts, <1>0 DEF DeleteLock, TypeOK
  <2>2. call'[c].at = "off" \/ (call'[c].q = call[c].q /\ call'[c].todo \subseteq call[c].todo)
    BY <1>13, ReturnFacts, <1>0 DEF DeleteLock, TypeOK, Call, KnownFirst
  <2>3. known' = known
    BY <1>13, <1>0 DEF DeleteLock
  <2>4. QED
    BY <2>1, <2>2, <2>3, <1>0 DEF KnownFirst
<1>14. ASSUME NEW c \in Caller, Remove(c) PROVE Known'
  <2>1. call[c].at # "off" /\ \A d \in Caller \ {c} : call'[d] = call[d]
    BY <1>14, ReturnFacts, <1>0 DEF Remove, TypeOK
  <2>2. call'[c].at = "off" \/ (call'[c].q = call[c].q /\ call'[c].todo \subseteq known)
    BY <1>14, ReturnFacts, <1>0 DEF Remove, TypeOK, Call, KnownFirst
  <2>3. known' = known
    BY <1>14, <1>0 DEF Remove
  <2>4. QED
    BY <2>1, <2>2, <2>3, <1>0 DEF KnownFirst
<1>15. ASSUME NEW c \in Caller, NEW q \in Quant, SetIdle(c, q) PROVE Known'
  <2>1. call[c].at # "off" /\ \A d \in Caller \ {c} : call'[d] = call[d]
    BY <1>15, ReturnFacts, <1>0 DEF SetIdle, TypeOK
  <2>2. call'[c].at = "off" \/ (call'[c].q = call[c].q /\ call'[c].todo \subseteq call[c].todo)
    BY <1>15, ReturnFacts, <1>0 DEF SetIdle, TypeOK, Call, KnownFirst
  <2>3. known' = known
    BY <1>15, <1>0 DEF SetIdle
  <2>4. QED
    BY <2>1, <2>2, <2>3, <1>0 DEF KnownFirst
<1>16. ASSUME NEW c \in Caller, NEW gone \in SUBSET Quant, RemoveFails(c, gone) PROVE Known'
  BY <1>16, GotoFacts, ReturnFacts, <1>0 DEF RemoveFails, Points, At
<1>17. ASSUME NEW c \in Caller, Told(c) PROVE Known'
  BY <1>17, GotoFacts, ReturnFacts, <1>0 DEF Told, Points, At
<1>18. ASSUME NEW c \in Caller, Disarmed(c) PROVE Known'
  BY <1>18, GotoFacts, ReturnFacts, <1>0 DEF Disarmed, Points, At
<1>19. ASSUME NEW q \in Quant, Work(q) PROVE Known'
  BY <1>19, <1>0 DEF Work
<1>20. ASSUME NEW q \in Quant, NEW outcome \in {"done", "failed"}, Finish(q, outcome) PROVE Known'
  BY <1>20, <1>0 DEF Finish
<1>21. ASSUME NEW q \in Quant, TaskEnds(q) PROVE Known'
  BY <1>21, <1>0 DEF TaskEnds
<1>22. ASSUME Read PROVE Known'
  BY <1>22, <1>0 DEF Read
<1>23. ASSUME PickOther PROVE Known'
  BY <1>23, <1>0 DEF PickOther
<1>24. ASSUME Restart PROVE Known'
  BY <1>24, <1>0 DEF Restart, NoCall
<1>31. ASSUME NEW c \in Caller, Leave(c) PROVE Known'
  BY <1>31, LeaveFacts, <1>0
<1>32. ASSUME NEW c \in Caller, NEW gone \in SUBSET Quant, Sweep(c, gone) PROVE Known'
  BY <1>32, ReturnFacts, <1>0 DEF Sweep
<1>33. ASSUME NEW c \in Caller, FetchOn(c) PROVE Known'
  BY <1>33, TakenFacts, <1>0
<1>25. QED
  BY <1>1, <1>2, <1>3, <1>4, <1>5, <1>6, <1>7, <1>8, <1>9, <1>10, <1>11,
     <1>12, <1>13, <1>14, <1>15, <1>16, <1>17, <1>18, <1>19, <1>20,
     <1>21, <1>22, <1>23, <1>24, <1>31, <1>32, <1>33 DEF Next, Serve, Fetch

\* Nothing is done to a quant that has no entry.
LEMMA KnownStep ==
    ASSUME TypeOK, LocksAreHeld, TakenTasks, KnownFirst, [Next]_vars
    PROVE  KnownFirst'
<1> SUFFICES ASSUME Next PROVE KnownFirst'
  BY DEF vars, KnownFirst
<1> SUFFICES ASSUME NEW p \in Quant, p \notin known'
             PROVE  state'[p] = "idle" /\ task'[p] = "off" /\ lock'[p] = None
  BY KnownCallsStep DEF KnownFirst
<1> DEFINE Bare == state[p] = "idle" /\ task[p] = "off" /\ lock[p] = None
<1>a. /\ p \notin known => Bare
      /\ \A c \in Caller : call[c].at # "off" => call[c].q \in known /\ call[c].todo \subseteq known
      /\ \A q \in Quant \ known : state[q] = "idle" /\ task[q] = "off"
  BY DEF KnownFirst
<1>1. ASSUME NEW c \in Caller, NEW op \in Ops, NEW q \in Quant, Request(c, op, q) PROVE Bare'
  BY <1>1, <1>a DEF Request, SameStates, files
<1>2. ASSUME NEW c \in Caller, Lock(c) PROVE Bare'
  BY <1>2, <1>a DEF Lock, SameStates, TypeOK
<1>3. ASSUME NEW c \in Caller, Close(c) PROVE Bare'
  BY <1>3, <1>a DEF Close, SameStates, files
<1>4. ASSUME NEW c \in Caller, NEW reached \in BOOLEAN, StartLook(c, reached) PROVE Bare'
  BY <1>4, <1>a, SetFacts, ReleaseFacts DEF StartLook, At, SameStates, files, TypeOK, Points, States
<1>5. ASSUME NEW c \in Caller, NEW room \in BOOLEAN, StartBegin(c, room) PROVE Bare'
  BY <1>5, <1>a, SetFacts, ReleaseFacts DEF StartBegin, At, SameStates, files, TypeOK, Points, States
<1>6. ASSUME NEW c \in Caller, NEW reached \in BOOLEAN, StatusLook(c, reached) PROVE Bare'
  BY <1>6, <1>a, SetFacts, ReleaseFacts DEF StatusLook, At, SameStates, files, TypeOK, Points, States
<1>7. ASSUME NEW c \in Caller, StatusRead(c) PROVE Bare'
  BY <1>7, <1>a DEF StatusRead, SameStates, files
<1>8. ASSUME NEW c \in Caller, StatusTell(c) PROVE Bare'
  <2>1. call[c].q \in Quant \ {p} /\ FromDisk(call[c].seen) \in States
    BY <1>8, <1>a DEF StatusTell, FromDisk, States, TypeOK, Call
  <2>2. state'[p] = state[p]
    BY <1>8, <2>1, SetFacts DEF StatusTell, SameStates
  <2>3. p \notin known /\ task'[p] = task[p] /\ (lock[p] = None => lock'[p] = None)
    BY <1>8, ReleaseFacts DEF StatusTell
  <2>4. QED
    BY <2>2, <2>3, <1>a
<1>9. ASSUME NEW c \in Caller, Pick(c) PROVE Bare'
  BY <1>9, <1>a DEF Pick, SameStates, files
<1>10. ASSUME NEW c \in Caller, PauseTake(c) PROVE Bare'
  BY <1>10, <1>a, SetFacts, ReleaseFacts DEF PauseTake, At, SameStates, files, TypeOK, Points, States
<1>11. ASSUME NEW c \in Caller, PauseDone(c) PROVE Bare'
  BY <1>11, <1>a, SetFacts, ReleaseFacts DEF PauseDone, At, SameStates, files, TypeOK, Points, States
<1>12. ASSUME NEW c \in Caller, DeleteList(c) PROVE Bare'
  BY <1>12, <1>a DEF DeleteList, SameStates, files
<1>13. ASSUME NEW c \in Caller, NEW q \in Quant, DeleteLock(c, q) PROVE Bare'
  BY <1>13, <1>a, ReleaseFacts DEF DeleteLock, IsNext, SameStates, TypeOK
<1>14. ASSUME NEW c \in Caller, Remove(c) PROVE Bare'
  BY <1>14, <1>a, SetFacts, ReleaseFacts DEF Remove, At, SameStates, files, TypeOK, Points, States
<1>15. ASSUME NEW c \in Caller, NEW q \in Quant, SetIdle(c, q) PROVE Bare'
  BY <1>15, <1>a, SetFacts, ReleaseFacts DEF SetIdle, IsNext, States
<1>16. ASSUME NEW c \in Caller, NEW gone \in SUBSET Quant, RemoveFails(c, gone) PROVE Bare'
  BY <1>16, <1>a, SetFacts, ReleaseFacts DEF RemoveFails, At, SameStates, files, TypeOK, Points, States
<1>17. ASSUME NEW c \in Caller, Told(c) PROVE Bare'
  BY <1>17, <1>a DEF Told, SameStates, files
<1>18. ASSUME NEW c \in Caller, Disarmed(c) PROVE Bare'
  BY <1>18, <1>a DEF Disarmed, SameStates, files
<1>19. ASSUME NEW q \in Quant, Work(q) PROVE Bare'
  <2>1. q # p \/ p \in known
    BY <1>19, <1>a DEF Work
  <2>2. SameStates \/ \E o \in States : Set(q, o)
    BY <1>19, GetsFacts DEF Work, States
  <2>3. q # p => state'[p] = state[p]
    BY <2>2, SetFacts DEF SameStates
  <2>4. QED
    BY <1>19, <1>a, <2>1, <2>3 DEF Work, TypeOK
<1>20. ASSUME NEW q \in Quant, NEW outcome \in {"done", "failed"}, Finish(q, outcome) PROVE Bare'
  BY <1>20, <1>a, SetFacts DEF Finish, TypeOK, States, Works
<1>21. ASSUME NEW q \in Quant, TaskEnds(q) PROVE Bare'
  BY <1>21, <1>a DEF TaskEnds, SameStates, TypeOK
<1>22. ASSUME Read PROVE Bare'
  BY <1>22, <1>a DEF Read, SameStates, files
<1>23. ASSUME PickOther PROVE Bare'
  BY <1>23, <1>a DEF PickOther, SameStates, files
<1>24. ASSUME Restart PROVE Bare'
  BY <1>24 DEF Restart
<1>31. ASSUME NEW c \in Caller, Leave(c) PROVE Bare'
  BY <1>31, <1>a, LeaveFacts DEF SameStates
<1>32. ASSUME NEW c \in Caller, NEW gone \in SUBSET Quant, Sweep(c, gone) PROVE Bare'
  BY <1>32, <1>a DEF Sweep, SameStates
<1>33. ASSUME NEW c \in Caller, FetchOn(c) PROVE Bare'
  <2>1. call[c].q \in Quant /\ (call[c].at # "off" => call[c].q # p \/ p \in known)
    BY <1>a DEF TypeOK, Call
  <2>2. call[c].at # "off" /\ known' = known /\ task' = task /\ lock' = lock
    BY <1>33, TakenFacts DEF TakenTasks
  <2>3. SameStates \/ \E o \in States : Set(call[c].q, o)
    BY <1>33, <2>1, GetsFacts DEF FetchOn, TakenWork, TakenEnds, States
  <2>4. call[c].q # p => state'[p] = state[p]
    BY <2>1, <2>3, SetFacts DEF SameStates
  <2>5. QED
    BY <2>1, <2>2, <2>4, <1>a
<1>25. QED
  BY <1>1, <1>2, <1>3, <1>4, <1>5, <1>6, <1>7, <1>8, <1>9, <1>10, <1>11,
     <1>12, <1>13, <1>14, <1>15, <1>16, <1>17, <1>18, <1>19, <1>20,
     <1>21, <1>22, <1>23, <1>24, <1>31, <1>32, <1>33 DEF Next, Serve, Fetch

\* Only a request to select goes on to pick.
LEMMA PicksStep ==
    ASSUME TypeOK, PicksBundled, [Next]_vars
    PROVE  PicksBundled'
<1>1. ASSUME NEW c \in Caller, NEW op \in Ops, NEW q \in Quant, Request(c, op, q) PROVE PicksBundled'
  BY <1>1 DEF Request, PicksBundled, TypeOK
<1>2. ASSUME NEW c \in Caller, Lock(c) PROVE PicksBundled'
  BY <1>2, GotoFacts, ReturnFacts DEF Lock, PicksBundled, Points
<1>3. ASSUME NEW c \in Caller, Close(c) PROVE PicksBundled'
  BY <1>3 DEF Close, PicksBundled, TypeOK
<1>4. ASSUME NEW c \in Caller, NEW reached \in BOOLEAN, StartLook(c, reached) PROVE PicksBundled'
  BY <1>4, GotoFacts, ReturnFacts DEF StartLook, StartAnswers, PicksBundled, Points
<1>5. ASSUME NEW c \in Caller, NEW room \in BOOLEAN, StartBegin(c, room) PROVE PicksBundled'
  BY <1>5, GotoFacts, ReturnFacts DEF StartBegin, StartAnswers, PicksBundled, Points
<1>6. ASSUME NEW c \in Caller, NEW reached \in BOOLEAN, StatusLook(c, reached) PROVE PicksBundled'
  BY <1>6, GotoFacts, ReturnFacts DEF StatusLook, StatusAnswers, PicksBundled, Points, At
<1>7. ASSUME NEW c \in Caller, StatusRead(c) PROVE PicksBundled'
  BY <1>7 DEF StatusRead, PicksBundled, TypeOK
<1>8. ASSUME NEW c \in Caller, StatusTell(c) PROVE PicksBundled'
  <2>1. \A d \in Caller \ {c} : call'[d] = call[d]
    BY <1>8, GotoFacts, ReturnFacts DEF StatusTell, StatusAnswers, Points
  <2>2. call'[c].at = "pick" => call[c].op = "select"
    BY <1>8, GotoFacts, ReturnFacts DEF StatusTell, StatusAnswers, Points
  <2>3. (call'[c].op = "start" /\ call'[c].at = "off") \/ (call'[c].op = call[c].op /\ call'[c].q = call[c].q)
    BY <1>8, GotoFacts, ReturnFacts DEF StatusTell, StatusAnswers, Points
  <2>4. QED
    BY <2>1, <2>2, <2>3 DEF PicksBundled
<1>9. ASSUME NEW c \in Caller, Pick(c) PROVE PicksBundled'
  BY <1>9, GotoFacts, ReturnFacts DEF Pick, PicksBundled, Points
<1>10. ASSUME NEW c \in Caller, PauseTake(c) PROVE PicksBundled'
  <2>1. \A d \in Caller \ {c} : call'[d] = call[d]
    BY <1>10, ReturnFacts DEF PauseTake, TypeOK
  <2>2. call'[c].at # "pick" /\ call'[c].op \in {"start", call[c].op}
        /\ (call'[c].op = "start" \/ call'[c].q = call[c].q)
    BY <1>10, ReturnFacts DEF PauseTake, TypeOK, Call
  <2>3. QED
    BY <2>1, <2>2 DEF PicksBundled
<1>11. ASSUME NEW c \in Caller, PauseDone(c) PROVE PicksBundled'
  BY <1>11, GotoFacts, ReturnFacts DEF PauseDone, PicksBundled, Points
<1>12. ASSUME NEW c \in Caller, DeleteList(c) PROVE PicksBundled'
  BY <1>12 DEF DeleteList, PicksBundled, TypeOK
<1>13. ASSUME NEW c \in Caller, NEW q \in Quant, DeleteLock(c, q) PROVE PicksBundled'
  <2>1. \A d \in Caller \ {c} : call'[d] = call[d]
    BY <1>13, ReturnFacts DEF DeleteLock, TypeOK
  <2>2. call'[c].at # "pick" /\ call'[c].op \in {"start", call[c].op}
        /\ (call'[c].op = "start" \/ call'[c].q = call[c].q)
    BY <1>13, ReturnFacts DEF DeleteLock, TypeOK, Call
  <2>3. QED
    BY <2>1, <2>2 DEF PicksBundled
<1>14. ASSUME NEW c \in Caller, Remove(c) PROVE PicksBundled'
  <2>1. \A d \in Caller \ {c} : call'[d] = call[d]
    BY <1>14, ReturnFacts DEF Remove, TypeOK
  <2>2. call'[c].at # "pick" /\ call'[c].op \in {"start", call[c].op}
        /\ (call'[c].op = "start" \/ call'[c].q = call[c].q)
    BY <1>14, ReturnFacts DEF Remove, TypeOK, Call
  <2>3. QED
    BY <2>1, <2>2 DEF PicksBundled
<1>15. ASSUME NEW c \in Caller, NEW q \in Quant, SetIdle(c, q) PROVE PicksBundled'
  <2>1. \A d \in Caller \ {c} : call'[d] = call[d]
    BY <1>15, ReturnFacts DEF SetIdle, TypeOK
  <2>2. call'[c].at # "pick" /\ call'[c].op \in {"start", call[c].op}
        /\ (call'[c].op = "start" \/ call'[c].q = call[c].q)
    BY <1>15, ReturnFacts DEF SetIdle, TypeOK, Call
  <2>3. QED
    BY <2>1, <2>2 DEF PicksBundled
<1>16. ASSUME NEW c \in Caller, NEW gone \in SUBSET Quant, RemoveFails(c, gone) PROVE PicksBundled'
  BY <1>16, GotoFacts, ReturnFacts DEF RemoveFails, PicksBundled, Points
<1>17. ASSUME NEW c \in Caller, Told(c) PROVE PicksBundled'
  BY <1>17, GotoFacts, ReturnFacts DEF Told, PicksBundled, Points
<1>18. ASSUME NEW c \in Caller, Disarmed(c) PROVE PicksBundled'
  BY <1>18, GotoFacts, ReturnFacts DEF Disarmed, PicksBundled, Points
<1>19. ASSUME NEW q \in Quant, Work(q) PROVE PicksBundled'
  BY <1>19 DEF Work, PicksBundled
<1>20. ASSUME NEW q \in Quant, NEW outcome \in {"done", "failed"}, Finish(q, outcome) PROVE PicksBundled'
  BY <1>20 DEF Finish, PicksBundled
<1>21. ASSUME NEW q \in Quant, TaskEnds(q) PROVE PicksBundled'
  BY <1>21 DEF TaskEnds, PicksBundled
<1>22. ASSUME Read PROVE PicksBundled'
  BY <1>22 DEF Read, PicksBundled
<1>23. ASSUME PickOther PROVE PicksBundled'
  BY <1>23 DEF PickOther, PicksBundled
<1>24. ASSUME Restart PROVE PicksBundled'
  BY <1>24 DEF Restart, NoCall, PicksBundled
<1>25. CASE UNCHANGED vars
  BY <1>25 DEF vars, PicksBundled
<1>31. ASSUME NEW c \in Caller, Leave(c) PROVE PicksBundled'
  BY <1>31, LeaveFacts DEF PicksBundled
<1>32. ASSUME NEW c \in Caller, NEW gone \in SUBSET Quant, Sweep(c, gone) PROVE PicksBundled'
  BY <1>32, ReturnFacts DEF Sweep, PicksBundled
<1>33. ASSUME NEW c \in Caller, FetchOn(c) PROVE PicksBundled'
  BY <1>33, TakenFacts DEF PicksBundled
<1>26. QED
  BY <1>1, <1>2, <1>3, <1>4, <1>5, <1>6, <1>7, <1>8, <1>9, <1>10, <1>11,
     <1>12, <1>13, <1>14, <1>15, <1>16, <1>17, <1>18, <1>19, <1>20,
     <1>21, <1>22, <1>23, <1>24, <1>31, <1>32, <1>33, <1>25 DEF Next, Serve, Fetch

-----------------------------------------------------------------------------
(* The locks.                                                              *)

\* A lock is held by a request that has it still to use and then lets it go.
LEMMA LocksStep ==
    ASSUME TypeOK, LocksAreHeld, TakenTasks, NothingRunsUnderDelete, [Next]_vars
    PROVE  LocksAreHeld'
<1> DEFINE owning == {"locked", "begin", "read", "tell", "await"}
           Held == /\ \A q \in Quant : lock[q] # None =>
                          call[lock[q]].at \in owning \union {"folder", "remove", "idle"}
                   /\ \A c \in Caller : call[c].at \in owning => lock[call[c].q] = c
                   /\ \A c \in Caller : call[c].at = "begin" => task[call[c].q] = "off"
<1>0. LocksAreHeld <=> Held
  BY DEF LocksAreHeld, Owns, Deletes, Live
<1>0p. LocksAreHeld' <=> Held'
  BY DEF LocksAreHeld, Owns, Deletes, Live
<1>a. Held
  BY <1>0
<1>b. \A c \in Caller : call[c] \in Call /\ c # None /\ call[c].q \in Quant
  BY DownloadsAssumption DEF TypeOK, Call
<1>c. lock \in [Quant -> Caller \union {None}]
  BY DEF TypeOK
<1>e. ASSUME NEW c \in Caller, call[c].at \notin owning, task' = task,
             \A d \in Caller \ {c} : call'[d] = call[d],
             call'[c].at \in {"off", "folder", "remove", "idle"},
             \A p \in Quant : /\ lock'[p] # lock[p] => lock[p] \in {c, None} /\ lock'[p] \in {c, None}
                              /\ call'[c].at = "off" => lock'[p] # c
      PROVE  Held'
  <2>1. ASSUME NEW p \in Quant, lock'[p] # None
        PROVE  call'[lock'[p]].at \in owning \union {"folder", "remove", "idle"}
    <3>1. CASE lock'[p] = c
      BY <1>e, <2>1, <3>1
    <3>2. CASE lock'[p] # c
      <4>1. lock'[p] = lock[p] /\ lock[p] \in Caller \ {c}
        BY <1>e, <2>1, <3>2, <1>c
      <4>2. QED
        BY <4>1, <1>e, <2>1, <1>a
    <3>3. QED
      BY <3>1, <3>2
  <2>2. ASSUME NEW d \in Caller, call'[d].at \in owning
        PROVE  d # c /\ call'[d] = call[d] /\ lock'[call[d].q] = d
    <3>1. d # c
      BY <1>e, <2>2
    <3>2. call'[d] = call[d] /\ lock[call[d].q] = d
      BY <3>1, <1>e, <2>2, <1>a
    <3>3. QED
      BY <3>1, <3>2, <1>e, <1>b
  <2>3. QED
    BY <2>1, <2>2, <1>a, <1>e
<1>d. call \in [Caller -> [op : Ops \union {"close"}, at : Points, q : Quant, todo : SUBSET Quant, seen : Disk,
                           task : {"off", "work", "made"}]]
  BY DEF TypeOK, Call
<1>1. ASSUME NEW c \in Caller, NEW op \in Ops, NEW q \in Quant, Request(c, op, q) PROVE Held'
  BY <1>1, <1>a, <1>b, <1>c DEF Request, TypeOK, Live, Call
<1>2. ASSUME NEW c \in Caller, Lock(c) PROVE Held'
  BY <1>2, <1>a, <1>b, <1>c, GotoFacts, ReturnFacts, ReleaseFacts DEF Lock, At, Points, Live, TypeOK
<1>3. ASSUME NEW c \in Caller, Close(c) PROVE Held'
  BY <1>3, <1>a, <1>b, <1>c DEF Close, TypeOK, Live, Call
<1>4. ASSUME NEW c \in Caller, NEW reached \in BOOLEAN, StartLook(c, reached) PROVE Held'
  BY <1>4, <1>a, <1>b, <1>c, GotoFacts, ReturnFacts, ReleaseFacts DEF StartLook, StartAnswers, At, Points, Live
<1>5. ASSUME NEW c \in Caller, NEW room \in BOOLEAN, StartBegin(c, room) PROVE Held'
  <2>1. lock[call[c].q] = c /\ \A d \in Caller \ {c} : call'[d] = call[d]
    BY <1>5, <1>a, GotoFacts, ReturnFacts DEF StartBegin, StartAnswers, At, Points
  <2>2. call'[c].at \in {"off", "follow"}
    BY <1>5, GotoFacts, ReturnFacts DEF StartBegin, StartAnswers, Points
  <2>3. \A q \in Quant : lock'[q] = IF lock[q] = c THEN None ELSE lock[q]
    BY <1>5, ReleaseFacts DEF StartBegin
  <2>4. \A d \in Caller \ {c} : call[d].at \in owning => call[d].q # call[c].q
    BY <2>1, <1>a, <1>b
  <2>5. \A q \in Quant \ {call[c].q} : task'[q] = task[q]
    BY <1>5 DEF StartBegin, TypeOK
  <2>6. QED
    BY <2>1, <2>2, <2>3, <2>4, <2>5, <1>a, <1>b, <1>c
<1>6. ASSUME NEW c \in Caller, NEW reached \in BOOLEAN, StatusLook(c, reached) PROVE Held'
  BY <1>6, <1>a, <1>b, <1>c, GotoFacts, ReturnFacts, ReleaseFacts DEF StatusLook, StatusAnswers, At, Points, Live
<1>7. ASSUME NEW c \in Caller, StatusRead(c) PROVE Held'
  BY <1>7, <1>a, <1>b, <1>c DEF StatusRead, TypeOK, Live, Call
<1>8. ASSUME NEW c \in Caller, StatusTell(c) PROVE Held'
  BY <1>8, <1>a, <1>b, <1>c, GotoFacts, ReturnFacts, ReleaseFacts DEF StatusTell, StatusAnswers, At, Points, Live
<1>9. ASSUME NEW c \in Caller, Pick(c) PROVE Held'
  <2>1. \A q \in Quant : lock[q] # c
    BY <1>9, <1>a, <1>b DEF Pick
  <2>2. lock' = lock /\ task' = task
    BY <1>9 DEF Pick
  <2>3. QED
    BY <1>9, <2>1, <2>2, <1>a, <1>b, <1>c, ReturnFacts DEF Pick
<1>10. ASSUME NEW c \in Caller, PauseTake(c) PROVE Held'
  <2>1. lock[call[c].q] = c /\ call[c].at = "locked" /\ task' = [task EXCEPT ![call[c].q] = "off"]
    BY <1>10, <1>a DEF PauseTake, At
  <2>2. \A p \in Quant : task[p] = "off" => task'[p] = "off"
    BY <2>1 DEF TypeOK
  <2>3. CASE Return(c) /\ Release(c)
    BY <2>1, <2>2, <2>3, <1>a, <1>b, <1>c, ReturnFacts, ReleaseFacts
  <2>4. CASE ~(Return(c) /\ Release(c))
    <3>1. lock' = lock /\ call'[c].at = "await" /\ call'[c].q = call[c].q
          /\ \A d \in Caller \ {c} : call'[d] = call[d]
      BY <1>10, <2>4, <1>d DEF PauseTake
    <3>2. QED
      BY <2>1, <2>2, <3>1, <1>a, <1>b, <1>c
  <2>5. QED
    BY <2>3, <2>4
<1>11. ASSUME NEW c \in Caller, PauseDone(c) PROVE Held'
  BY <1>11, <1>a, <1>b, <1>c, GotoFacts, ReturnFacts, ReleaseFacts DEF PauseDone, At, Points, Live, TypeOK
<1>12. ASSUME NEW c \in Caller, DeleteList(c) PROVE Held'
  BY <1>12, <1>a, <1>b, <1>c DEF DeleteList, TypeOK, Live, Call
<1>13. ASSUME NEW c \in Caller, NEW q \in Quant, DeleteLock(c, q) PROVE Held'
  <2>1. \A d \in Caller \ {c} : call'[d] = call[d]
    BY <1>13, ReturnFacts DEF DeleteLock, TypeOK
  <2>2. \/ Return(c) /\ Release(c)
        \/ call'[c].at \in {"folder", "remove"} /\ lock[q] = None /\ lock' = [lock EXCEPT ![q] = c]
    BY <1>13, <1>d DEF DeleteLock
  <2>3. call'[c].at \in {"off", "folder", "remove", "idle"}
    BY <2>2, ReturnFacts
  <2>4. \A p \in Quant : /\ lock'[p] # lock[p] => lock[p] \in {c, None} /\ lock'[p] \in {c, None}
                         /\ call'[c].at = "off" => lock'[p] # c
    BY <2>2, <1>b, <1>c, ReleaseFacts, ReturnFacts
  <2>5. task' = task
    BY <1>13 DEF DeleteLock
  <2>6. call[c].at \notin owning
    BY <1>13 DEF DeleteLock
  <2>7. QED
    BY <2>1, <2>3, <2>4, <2>5, <2>6, <1>e
<1>14. ASSUME NEW c \in Caller, Remove(c) PROVE Held'
  <2>1. \A d \in Caller \ {c} : call'[d] = call[d]
    BY <1>14, ReturnFacts DEF Remove, TypeOK
  <2>2. \/ Return(c) /\ Release(c)
        \/ call'[c].at = "idle" /\ lock' = lock
    BY <1>14, <1>d DEF Remove
  <2>3. call'[c].at \in {"off", "folder", "remove", "idle"}
    BY <2>2, ReturnFacts
  <2>4. \A p \in Quant : /\ lock'[p] # lock[p] => lock[p] \in {c, None} /\ lock'[p] \in {c, None}
                         /\ call'[c].at = "off" => lock'[p] # c
    BY <2>2, <1>b, <1>c, ReleaseFacts, ReturnFacts
  <2>5. task' = task
    BY <1>14 DEF Remove
  <2>6. call[c].at \notin owning
    BY <1>14 DEF Remove
  <2>7. QED
    BY <2>1, <2>3, <2>4, <2>5, <2>6, <1>e
<1>15. ASSUME NEW c \in Caller, NEW q \in Quant, SetIdle(c, q) PROVE Held'
  <2>1. \A d \in Caller \ {c} : call'[d] = call[d]
    BY <1>15, ReturnFacts DEF SetIdle, TypeOK
  <2>2. \/ Return(c) /\ Release(c)
        \/ call'[c].at = "idle" /\ lock' = lock
    BY <1>15, <1>d DEF SetIdle
  <2>3. call'[c].at \in {"off", "folder", "remove", "idle"}
    BY <2>2, ReturnFacts
  <2>4. \A p \in Quant : /\ lock'[p] # lock[p] => lock[p] \in {c, None} /\ lock'[p] \in {c, None}
                         /\ call'[c].at = "off" => lock'[p] # c
    BY <2>2, <1>b, <1>c, ReleaseFacts, ReturnFacts
  <2>5. task' = task
    BY <1>15 DEF SetIdle
  <2>6. call[c].at \notin owning
    BY <1>15 DEF SetIdle
  <2>7. QED
    BY <2>1, <2>3, <2>4, <2>5, <2>6, <1>e
<1>16. ASSUME NEW c \in Caller, NEW gone \in SUBSET Quant, RemoveFails(c, gone) PROVE Held'
  BY <1>16, <1>a, <1>b, <1>c, GotoFacts, ReturnFacts, ReleaseFacts DEF RemoveFails, At, Points, Live, TypeOK
<1>17. ASSUME NEW c \in Caller, Told(c) PROVE Held'
  BY <1>17, <1>a, <1>b, <1>c, GotoFacts, ReturnFacts, ReleaseFacts DEF Told, At, Points, Live, TypeOK
<1>18. ASSUME NEW c \in Caller, Disarmed(c) PROVE Held'
  BY <1>18, <1>a, <1>b, <1>c, GotoFacts, ReturnFacts, ReleaseFacts DEF Disarmed, At, Points, Live, TypeOK
<1>19. ASSUME NEW q \in Quant, Work(q) PROVE Held'
  <2>1. \A p \in Quant : task[p] = "off" => task'[p] = "off"
    BY <1>19 DEF Work, TypeOK
  <2>2. QED
    BY <1>19, <2>1, <1>a, <1>b, <1>c DEF Work
<1>20. ASSUME NEW q \in Quant, NEW outcome \in {"done", "failed"}, Finish(q, outcome) PROVE Held'
  <2>1. \A p \in Quant : task[p] = "off" => task'[p] = "off"
    BY <1>20 DEF Finish, TypeOK, Works
  <2>2. QED
    BY <1>20, <2>1, <1>a, <1>b, <1>c DEF Finish
<1>21. ASSUME NEW q \in Quant, TaskEnds(q) PROVE Held'
  BY <1>21, <1>a, <1>b, <1>c DEF TaskEnds, TypeOK, Live
<1>22. ASSUME Read PROVE Held'
  BY <1>22, <1>a, <1>b, <1>c DEF Read, Live
<1>23. ASSUME PickOther PROVE Held'
  BY <1>23, <1>a, <1>b, <1>c DEF PickOther, Live
<1>24. ASSUME Restart PROVE Held'
  BY <1>24 DEF Restart, NoCall
<1>25. ASSUME UNCHANGED vars PROVE LocksAreHeld'
  BY <1>25 DEF vars, LocksAreHeld, Owns, Deletes, Live
<1>31. ASSUME NEW c \in Caller, Leave(c) PROVE Held'
  BY <1>31, <1>a, <1>b, <1>c, LeaveFacts
<1>32. ASSUME NEW c \in Caller, NEW gone \in SUBSET Quant, Sweep(c, gone) PROVE Held'
  BY <1>32, <1>a, <1>b, <1>c, ReturnFacts DEF Sweep
<1>33. ASSUME NEW c \in Caller, FetchOn(c) PROVE Held'
  <2>1. call[c].at \in {"await", "stray"}
    BY <1>33, TakenFacts DEF TakenTasks
  <2>2. call'[c].at = call[c].at \/ (call[c].at = "stray" /\ call'[c].at = "off")
    BY <1>33, <2>1, TakenFacts
  <2>3. call'[c].at # "off" => call'[c].q = call[c].q
    BY <1>33, <2>1, TakenFacts
  <2>4. QED
    BY <1>33, <2>1, <2>2, <2>3, <1>a, <1>b, <1>c, TakenFacts
<1>26. QED
  BY <1>1, <1>2, <1>3, <1>4, <1>5, <1>6, <1>7, <1>8, <1>9, <1>10, <1>11,
     <1>12, <1>13, <1>14, <1>15, <1>16, <1>17, <1>18, <1>19, <1>20,
     <1>21, <1>22, <1>23, <1>24, <1>31, <1>32, <1>33, <1>25, <1>0p DEF Next, Serve, Fetch

\* What a step of one request leaves to the others: their records, the locks
\* that they hold, and the tasks of all quants that it has not locked.
Elsewhere(c) ==
    /\ \A d \in Caller \ {c} : call'[d] = call[d]
    /\ \A q \in Quant, d \in Caller \ {c} : lock'[q] = d <=> lock[q] = d
    /\ \A q \in Quant : lock[q] # c => task'[q] = task[q]

\* Every step of a request leaves the others as they are.
LEMMA ElsewhereHolds ==
    ASSUME TypeOK, LocksAreHeld, NEW c \in Caller,
           Lock(c) \/ Close(c) \/ Serve(c) \/ FetchOn(c) \/ \E op \in Ops, q \in Quant : Request(c, op, q)
    PROVE  Elsewhere(c)
<1> USE DEF Elsewhere
<1>a. call[c].at \in {"locked", "begin"} => lock[call[c].q] = c
  BY DEF LocksAreHeld, Owns
<1>c. lock \in [Quant -> Caller \union {None}] /\ None \notin Caller /\ call[c].q \in Quant
  BY DownloadsAssumption DEF TypeOK, Call
<1>1. ASSUME NEW op \in Ops, NEW q \in Quant, Request(c, op, q) PROVE Elsewhere(c)
  BY <1>1, <1>c DEF Request, TypeOK
<1>2. ASSUME Lock(c) PROVE Elsewhere(c)
  BY <1>2, <1>c, GotoFacts, ReturnFacts, ReleaseFacts DEF Lock, Points, TypeOK
<1>3. ASSUME Close(c) PROVE Elsewhere(c)
  BY <1>3, <1>c DEF Close, TypeOK
<1>4. ASSUME NEW reached \in BOOLEAN, StartLook(c, reached) PROVE Elsewhere(c)
  BY <1>4, <1>a, <1>c, GotoFacts, ReturnFacts, ReleaseFacts DEF StartLook, StartAnswers, At, Points, TypeOK
<1>5. ASSUME NEW room \in BOOLEAN, StartBegin(c, room) PROVE Elsewhere(c)
  BY <1>5, <1>a, <1>c, GotoFacts, ReturnFacts, ReleaseFacts DEF StartBegin, StartAnswers, At, Points, TypeOK
<1>6. ASSUME NEW reached \in BOOLEAN, StatusLook(c, reached) PROVE Elsewhere(c)
  BY <1>6, <1>c, GotoFacts, ReturnFacts, ReleaseFacts DEF StatusLook, StatusAnswers, At, Points
<1>7. ASSUME StatusRead(c) PROVE Elsewhere(c)
  BY <1>7, <1>c DEF StatusRead, TypeOK
<1>8. ASSUME StatusTell(c) PROVE Elsewhere(c)
  BY <1>8, <1>c, GotoFacts, ReturnFacts, ReleaseFacts DEF StatusTell, StatusAnswers, At, Points
<1>9. ASSUME Pick(c) PROVE Elsewhere(c)
  BY <1>9, <1>c, GotoFacts, ReturnFacts, ReleaseFacts DEF Pick, Points, TypeOK
<1>10. ASSUME PauseTake(c) PROVE Elsewhere(c)
  <2>1. \A d \in Caller \ {c} : call'[d] = call[d]
    BY <1>10, ReturnFacts DEF PauseTake, TypeOK
  <2>2. Release(c) \/ lock' = lock
    BY <1>10 DEF PauseTake
  <2>3. \A p \in Quant, d \in Caller \ {c} : lock'[p] = d <=> lock[p] = d
    BY <2>2, <1>c, ReleaseFacts
  <2>4. \A p \in Quant : lock[p] # c => task'[p] = task[p]
    BY <1>10, <1>a DEF PauseTake, At, TypeOK
  <2>5. QED
    BY <2>1, <2>3, <2>4
<1>11. ASSUME PauseDone(c) PROVE Elsewhere(c)
  BY <1>11, <1>c, GotoFacts, ReturnFacts, ReleaseFacts DEF PauseDone, Points, TypeOK
<1>12. ASSUME DeleteList(c) PROVE Elsewhere(c)
  BY <1>12, <1>c DEF DeleteList, TypeOK
<1>13. ASSUME NEW q \in Quant, DeleteLock(c, q) PROVE Elsewhere(c)
  <2>1. \A d \in Caller \ {c} : call'[d] = call[d]
    BY <1>13, ReturnFacts DEF DeleteLock, TypeOK
  <2>2. Release(c) \/ lock' = lock \/ (lock[q] = None /\ lock' = [lock EXCEPT ![q] = c])
    BY <1>13 DEF DeleteLock
  <2>3. \A p \in Quant, d \in Caller \ {c} : lock'[p] = d <=> lock[p] = d
    BY <2>2, <1>c, ReleaseFacts
  <2>4. QED
    BY <1>13, <2>1, <2>3 DEF DeleteLock
<1>14. ASSUME Remove(c) PROVE Elsewhere(c)
  <2>1. \A d \in Caller \ {c} : call'[d] = call[d]
    BY <1>14, ReturnFacts DEF Remove, TypeOK
  <2>2. Release(c) \/ lock' = lock \/ (\E q \in Quant : lock[q] = None /\ lock' = [lock EXCEPT ![q] = c])
    BY <1>14 DEF Remove
  <2>3. \A q \in Quant, d \in Caller \ {c} : lock'[q] = d <=> lock[q] = d
    BY <2>2, <1>c, ReleaseFacts
  <2>4. QED
    BY <1>14, <2>1, <2>3 DEF Remove
<1>15. ASSUME NEW q \in Quant, SetIdle(c, q) PROVE Elsewhere(c)
  <2>1. \A d \in Caller \ {c} : call'[d] = call[d]
    BY <1>15, ReturnFacts DEF SetIdle, TypeOK
  <2>2. Release(c) \/ lock' = lock \/ (\E p \in Quant : lock[p] = None /\ lock' = [lock EXCEPT ![p] = c])
    BY <1>15 DEF SetIdle
  <2>3. \A p \in Quant, d \in Caller \ {c} : lock'[p] = d <=> lock[p] = d
    BY <2>2, <1>c, ReleaseFacts
  <2>4. QED
    BY <1>15, <2>1, <2>3 DEF SetIdle
<1>16. ASSUME NEW gone \in SUBSET Quant, RemoveFails(c, gone) PROVE Elsewhere(c)
  BY <1>16, <1>c, GotoFacts, ReturnFacts, ReleaseFacts DEF RemoveFails, Points, TypeOK
<1>17. ASSUME Told(c) PROVE Elsewhere(c)
  BY <1>17, <1>c, GotoFacts, ReturnFacts, ReleaseFacts DEF Told, Points, TypeOK
<1>18. ASSUME Disarmed(c) PROVE Elsewhere(c)
  BY <1>18, <1>c, GotoFacts, ReturnFacts, ReleaseFacts DEF Disarmed, Points, TypeOK
<1>31. ASSUME Leave(c) PROVE Elsewhere(c)
  BY <1>31, <1>c, LeaveFacts
<1>32. ASSUME NEW gone \in SUBSET Quant, Sweep(c, gone) PROVE Elsewhere(c)
  BY <1>32, <1>c, ReturnFacts DEF Sweep
<1>33. ASSUME FetchOn(c) PROVE Elsewhere(c)
  BY <1>33, <1>c, TakenFacts
<1>19. QED
  BY <1>1, <1>2, <1>3, <1>4, <1>5, <1>6, <1>7, <1>8, <1>9, <1>10, <1>11,
     <1>12, <1>13, <1>14, <1>15, <1>16, <1>17, <1>18, <1>31, <1>32, <1>33 DEF Serve

\* What a delete has locked stays as it is until it lets go.
LEMMA DeleteStep ==
    ASSUME TypeOK, LocksAreHeld, TakenTasks, NothingRunsUnderDelete, [Next]_vars,
           TypeOK', LocksAreHeld', TakenTasks'
    PROVE  NothingRunsUnderDelete'
<1> DEFINE Safe(d) == Deletes(d) =>
        /\ \A p \in Quant : lock[p] = d =>
              /\ task[p] = "off"
              /\ call[d].at = "folder" => call[d].todo # {} /\ \A r \in call[d].todo : p < r
        /\ call[d].at = "remove" => \E p \in Quant : lock[p] = d
        /\ call[d].at = "idle" => call[d].todo # {} /\ \A p \in call[d].todo : lock[p] = d
<1>a. None \notin Caller
  BY DownloadsAssumption
<1>b. lock \in [Quant -> Caller \union {None}]
  BY DEF TypeOK
<1>d. call \in [Caller -> [op : Ops \union {"close"}, at : Points, q : Quant, todo : SUBSET Quant, seen : Disk,
                           task : {"off", "work", "made"}]]
  BY DEF TypeOK, Call
<1>e. \A d \in Caller : Safe(d)
  BY DEF NothingRunsUnderDelete, Live
<1>f. (\A d \in Caller : Safe(d)') => NothingRunsUnderDelete'
  <2>1. \A c, d \in Caller, q \in Quant :
           Deletes(c)' /\ lock'[q] = c /\ call'[d].q = q /\ call'[d].task # "off" => call'[d].at = "stray"
    BY DEF LocksAreHeld, TakenTasks, Owns, Deletes
  <2>2. QED
    BY <2>1 DEF NothingRunsUnderDelete, Live
<1>1. ASSUME NEW c \in Caller, Elsewhere(c), NEW d \in Caller \ {c} PROVE Safe(d)'
  BY <1>1, <1>e, <1>d DEF Elsewhere, Deletes
<1>2. ASSUME NEW c \in Caller,
             Lock(c) \/ Close(c) \/ Serve(c) \/ FetchOn(c) \/ \E op \in Ops, q \in Quant : Request(c, op, q)
      PROVE  Safe(c)'
  <2>1. ASSUME NEW op \in Ops, NEW q \in Quant, Request(c, op, q) PROVE Safe(c)'
    <3>1. \A p \in Quant : lock'[p] # c /\ call'[c].at # "idle" /\ call'[c].at # "remove"
      BY <2>1, <1>a DEF Request, TypeOK, LocksAreHeld, Owns, Deletes
    <3>2. QED
      BY <3>1
  <2>2. ASSUME Lock(c) PROVE Safe(c)'
    BY <2>2, GotoFacts, ReturnFacts DEF Lock, Deletes, Points
  <2>3. ASSUME Close(c) PROVE Safe(c)'
    BY <2>3 DEF Close, Deletes, TypeOK, Call
  <2>4. ASSUME NEW reached \in BOOLEAN, StartLook(c, reached) PROVE Safe(c)'
    BY <2>4, GotoFacts, ReturnFacts DEF StartLook, StartAnswers, Deletes, Points
  <2>5. ASSUME NEW room \in BOOLEAN, StartBegin(c, room) PROVE Safe(c)'
    BY <2>5, GotoFacts, ReturnFacts DEF StartBegin, StartAnswers, Deletes, Points
  <2>6. ASSUME NEW reached \in BOOLEAN, StatusLook(c, reached) PROVE Safe(c)'
    BY <2>6, GotoFacts, ReturnFacts DEF StatusLook, StatusAnswers, Deletes, Points
  <2>7. ASSUME StatusRead(c) PROVE Safe(c)'
    BY <2>7 DEF StatusRead, Deletes, TypeOK, Call
  <2>8. ASSUME StatusTell(c) PROVE Safe(c)'
    BY <2>8, GotoFacts, ReturnFacts DEF StatusTell, StatusAnswers, Deletes, Points
  <2>9. ASSUME Pick(c) PROVE Safe(c)'
    BY <2>9, GotoFacts, ReturnFacts DEF Pick, Deletes, Points
  <2>10. ASSUME PauseTake(c) PROVE Safe(c)'
    BY <2>10, ReturnFacts, <1>d DEF PauseTake, Deletes
  <2>11. ASSUME PauseDone(c) PROVE Safe(c)'
    BY <2>11, GotoFacts, ReturnFacts DEF PauseDone, Deletes, Points
  <2>12. ASSUME DeleteList(c) PROVE Safe(c)'
    <3>1. \A p \in Quant : lock'[p] # c
      BY <2>12 DEF DeleteList, NothingRunsUnderDelete, Deletes
    <3>2. call'[c].at = "folder"
      BY <2>12 DEF DeleteList, TypeOK, Call
    <3>3. QED
      BY <3>1, <3>2
  <2>13. ASSUME NEW q \in Quant, DeleteLock(c, q) PROVE Safe(c)'
    <3>1. CASE Return(c)
      BY <3>1, ReturnFacts DEF Deletes
    <3>2. CASE ~Return(c)
      <4>1. /\ call'[c].todo = call[c].todo \ {q} /\ task' = task
            /\ call'[c].at = (IF call[c].todo = {q} THEN "remove" ELSE "folder")
            /\ lock' = [lock EXCEPT ![q] = c] /\ task[q] = "off" /\ IsNext(c, q) /\ call[c].at = "folder"
        BY <2>13, <3>2, <1>d DEF DeleteLock, Live
      <4>2. ASSUME NEW p \in Quant, lock'[p] = c
            PROVE  task'[p] = "off" /\ (call'[c].at = "folder" => \A r \in call'[c].todo : p < r)
        <5>1. CASE p = q
          BY <5>1, <4>1, <1>d DEF IsNext, Quant
        <5>2. CASE p # q
          BY <5>2, <4>1, <4>2, <1>b DEF NothingRunsUnderDelete, Deletes, Live, TypeOK
        <5>3. QED
          BY <5>1, <5>2
      <4>3. call'[c].at = "folder" => call'[c].todo # {}
        BY <4>1 DEF IsNext
      <4>4. lock'[q] = c /\ call'[c].at # "idle"
        BY <4>1, <1>b
      <4>5. QED
        BY <4>2, <4>3, <4>4
    <3>3. QED
      BY <3>1, <3>2
  <2>14. ASSUME Remove(c) PROVE Safe(c)'
    <3>1. CASE Return(c)
      BY <3>1, ReturnFacts DEF Deletes
    <3>2. CASE ~Return(c)
      <4>1. /\ call'[c].todo = {q \in Quant : lock[q] = c} /\ call'[c].at = "idle"
            /\ lock' = lock /\ task' = task /\ call[c].at = "remove"
        BY <2>14, <3>2, <1>d DEF Remove
      <4>2. QED
        BY <4>1, <1>e DEF Deletes
    <3>3. QED
      BY <3>1, <3>2
  <2>15. ASSUME NEW q \in Quant, SetIdle(c, q) PROVE Safe(c)'
    <3>1. CASE Return(c)
      BY <3>1, ReturnFacts DEF Deletes
    <3>2. CASE ~Return(c)
      <4>1. /\ call'[c].todo = call[c].todo \ {q} /\ call'[c].at = "idle" /\ call[c].todo # {q}
            /\ lock' = lock /\ task' = task /\ call[c].at = "idle" /\ q \in call[c].todo
        BY <2>15, <3>2, <1>d DEF SetIdle, IsNext
      <4>2. QED
        BY <4>1, <1>e DEF Deletes
    <3>3. QED
      BY <3>1, <3>2
  <2>16. ASSUME NEW gone \in SUBSET Quant, RemoveFails(c, gone) PROVE Safe(c)'
    BY <2>16, GotoFacts, ReturnFacts DEF RemoveFails, Deletes, Points
  <2>17. ASSUME Told(c) PROVE Safe(c)'
    BY <2>17, GotoFacts, ReturnFacts DEF Told, Deletes, Points
  <2>18. ASSUME Disarmed(c) PROVE Safe(c)'
    BY <2>18, GotoFacts, ReturnFacts DEF Disarmed, Deletes, Points
  <2>20. ASSUME Leave(c) PROVE Safe(c)'
    BY <2>20, LeaveFacts DEF Deletes
  <2>21. ASSUME NEW gone \in SUBSET Quant, Sweep(c, gone) PROVE Safe(c)'
    BY <2>21, ReturnFacts DEF Sweep, Deletes
  <2>22. ASSUME FetchOn(c) PROVE Safe(c)'
    <3>1. call[c].at \in {"await", "stray"}
      BY <2>22, TakenFacts DEF TakenTasks
    <3>2. call'[c].at \in {"off", "await", "stray"}
      BY <2>22, <3>1, TakenFacts
    <3>3. QED
      BY <3>2 DEF Deletes
  <2>19. QED
    BY <2>20, <2>21, <2>22, <2>1, <2>2, <2>3, <2>4, <2>5, <2>6, <2>7, <2>8, <2>9, <2>10,
     <2>11, <2>12, <2>13, <2>14, <2>15, <2>16, <2>17, <2>18, <1>2 DEF Serve
<1>3. ASSUME NEW q \in Quant, Fetch(q), NEW d \in Caller PROVE Safe(d)'
  <2>1. call' = call /\ lock' = lock /\ \A p \in Quant : task[p] = "off" => task'[p] = "off"
    BY <1>3 DEF Fetch, Work, Finish, TaskEnds, TypeOK, Works
  <2>2. QED
    BY <2>1, <1>e DEF Deletes
<1>4. ASSUME Read \/ PickOther \/ UNCHANGED vars, NEW d \in Caller PROVE Safe(d)'
  <2>1. call' = call /\ lock' = lock /\ task' = task
    BY <1>4 DEF Read, PickOther, vars
  <2>2. QED
    BY <2>1, <1>e DEF Deletes
<1>5. ASSUME Restart, NEW d \in Caller PROVE Safe(d)'
  BY <1>5 DEF Restart, Deletes, NoCall
<1>6. QED
  BY <1>1, <1>2, <1>3, <1>4, <1>5, <1>f, ElsewhereHolds DEF Next

-----------------------------------------------------------------------------
(* What the client is sent.                                                *)

\* A change that is read off the feed is then shown, and the rest stays.
LEMMA ReadAddsUp ==
    ASSUME TypeOK, KnownFirst, ChangesAddUp, Read
    PROVE  ChangesAddUp'
<1> DEFINE Entry == (Watched \X States) \union {None}
<1>1. CASE lagged
  <2>1. /\ feed' = feed /\ state' = state
        /\ \A q \in Watched : shown'[q] = IF q \in known /\ IsUnfinished(state[q]) THEN state[q] ELSE shown[q]
    BY <1>1 DEF Read
  <2>2. \A q \in Watched : IsUnfinished(state[q]) => q \in known
    BY DownloadsAssumption DEF KnownFirst, IsUnfinished
  <2>3. QED
    BY <2>1, <2>2 DEF ChangesAddUp, About
<1>2. CASE ~lagged
  <2>0. feed \in Seq(Entry) /\ feed # <<>>
    BY <1>2 DEF TypeOK, Read
  <2>1. PICK n \in Nat : n = Len(feed) - 1
    <3> HIDE DEF Entry
    <3>1. QED
      BY <2>0
  <2>2. /\ DOMAIN feed = 1 .. (n + 1) /\ DOMAIN feed' = 1 .. n
        /\ \A i \in 1 .. n : feed'[i] = feed[i + 1]
    <3> HIDE DEF Entry
    <3>1. feed' = Tail(feed)
      BY <1>2 DEF Read
    <3>2. QED
      BY <2>0, <2>1, <3>1
  <2>3. state' = state /\ \A q \in Watched : shown'[q] = IF About(1, q) THEN feed[1][2] ELSE shown[q]
    BY <1>2 DEF Read, Show, About
  <2>4. SUFFICES ASSUME NEW p \in Watched
                 PROVE  /\ \A i \in DOMAIN feed' :
                             About(i, p)' /\ (\A j \in DOMAIN feed' : About(j, p)' => j <= i)
                                => feed'[i][2] = state'[p]
                        /\ (\A i \in DOMAIN feed' : ~About(i, p)') /\ ~lagged' /\ IsUnfinished(state'[p])
                              => shown'[p] = state'[p]
    BY DEF ChangesAddUp
  <2>5. \A i \in 1 .. n : About(i, p)' <=> About(i + 1, p)
    BY <2>2 DEF About
  <2>6. ASSUME NEW i \in DOMAIN feed', About(i, p)', \A j \in DOMAIN feed' : About(j, p)' => j <= i
        PROVE  feed'[i][2] = state'[p]
    <3>1. i \in 1 .. n /\ i + 1 \in DOMAIN feed /\ About(i + 1, p) /\ feed'[i] = feed[i + 1]
      BY <2>5, <2>6, <2>2
    <3>2. ASSUME NEW j \in DOMAIN feed, About(j, p) PROVE j <= i + 1
      <4>1. CASE j = 1
        BY <4>1, <3>1
      <4>2. CASE j # 1
        <5>1. j - 1 \in 1 .. n /\ (j - 1) + 1 = j
          BY <4>2, <2>2
        <5>2. About(j - 1, p)'
          BY <5>1, <2>5, <3>2
        <5>3. QED
          BY <5>1, <5>2, <2>6, <2>2, <3>1
      <4>3. QED
        BY <4>1, <4>2
    <3>3. QED
      BY <3>1, <3>2, <2>3 DEF ChangesAddUp
  <2>7. ASSUME \A i \in DOMAIN feed' : ~About(i, p)', IsUnfinished(state'[p])
        PROVE  shown'[p] = state'[p]
    <3>1. \A j \in DOMAIN feed : About(j, p) => j = 1
      <4>1. ASSUME NEW j \in DOMAIN feed, j # 1 PROVE ~About(j, p)
        <5>1. j - 1 \in 1 .. n /\ (j - 1) + 1 = j
          BY <4>1, <2>2
        <5>2. QED
          BY <5>1, <2>5, <2>7, <2>2
      <4>2. QED
        BY <4>1
    <3>2. CASE About(1, p)
      <4>1. 1 \in DOMAIN feed /\ \A j \in DOMAIN feed : About(j, p) => j <= 1
        BY <3>1, <2>2
      <4>2. feed[1][2] = state[p]
        BY <4>1, <3>2 DEF ChangesAddUp
      <4>3. QED
        BY <4>2, <3>2, <2>3
    <3>3. CASE ~About(1, p)
      <4>1. \A j \in DOMAIN feed : ~About(j, p)
        BY <3>1, <3>3
      <4>2. QED
        BY <4>1, <3>3, <2>3, <2>7, <1>2 DEF ChangesAddUp
    <3>4. QED
      BY <3>2, <3>3
  <2>8. QED
    BY <2>6, <2>7
<1>3. QED
  BY <1>1, <1>2

\* What the client is sent adds up after every step.
LEMMA ChangesStep ==
    ASSUME TypeOK, KnownFirst, ChangesAddUp, [Next]_vars
    PROVE  ChangesAddUp'
<1>1. CASE SameStates \/ UNCHANGED vars
  BY <1>1 DEF SameStates, vars, ChangesAddUp, About
<1>2. CASE Restart
  <2>1. feed' = <<>> /\ state' = [q \in Quant |-> "idle"] /\ Watched \subseteq Quant
    BY <1>2, DownloadsAssumption DEF Restart
  <2>2. DOMAIN feed' = {}
    BY <2>1
  <2>3. \A q \in Watched : ~IsUnfinished(state'[q])
    BY <2>1 DEF IsUnfinished
  <2>4. QED
    BY <2>2, <2>3 DEF ChangesAddUp
<1>3. QED
  BY <1>1, <1>2, StateSteps, SetAddsUp, ReadAddsUp

-----------------------------------------------------------------------------
(* The theorems.                                                           *)

\* A daemon that starts has no requests, no tasks and no changes to send.
LEMMA InitInv == Init => DownloadsInv
<1> SUFFICES ASSUME Init PROVE DownloadsInv
  OBVIOUS
<1>1. TypeOK
  <2> DEFINE Entry == (Watched \X States) \union {None}
  <2>1. feed \in Seq(Entry) /\ Len(feed) = 0
    <3> HIDE DEF Entry
    <3>1. QED
      BY DEF Init
  <2>2. NoCall \in Call
    BY DownloadsAssumption DEF NoCall, Call, Ops, Points, Disk, Quant
  <2>3. call \in [Caller -> Call]
    BY <2>2 DEF Init
  <2>4. disk \in [Quant -> Disk]
    BY DEF Init, Disk
  <2>5. /\ known \subseteq Quant /\ picked \in Bundled \union {None} /\ lagged \in BOOLEAN
        /\ state \in [Quant -> States] /\ shown \in [Watched -> States]
        /\ task \in [Quant -> {"off", "work", "made", "ending"}] /\ beside \subseteq Quant
        /\ lock \in [Quant -> Caller \union {None}]
    BY DEF Init, States
  <2>6. QED
    BY <2>1, <2>3, <2>4, <2>5, DownloadsAssumption DEF TypeOK
<1>2. \A c \in Caller : call[c].at = "off" /\ call[c].op = "start" /\ call[c].task = "off"
  BY DEF Init, NoCall
<1>3. TaskIsTold /\ TakenTasks /\ LocksAreHeld /\ NothingRunsUnderDelete /\ KnownFirst /\ PicksBundled
  BY <1>2 DEF Init, TaskIsTold, TakenTasks, IsRunning, LocksAreHeld, NothingRunsUnderDelete, KnownFirst,
              PicksBundled, Owns, Deletes, Owned, Works
<1>4. ChangesAddUp
  <2>1. feed = <<>> /\ \A q \in Watched : ~IsUnfinished(state[q])
    BY DownloadsAssumption DEF Init, IsUnfinished
  <2>2. DOMAIN feed = {}
    BY <2>1
  <2>3. QED
    BY <2>1, <2>2 DEF ChangesAddUp
<1>5. QED
  BY <1>1, <1>3, <1>4 DEF DownloadsInv

\* The states, the tasks, the locks and the requests agree: a state that runs has
\* a task (job.rs), and nothing downloads into a folder that a delete removes.
THEOREM InvHolds == Spec => []DownloadsInv
<1>1. DownloadsInv /\ [Next]_vars => DownloadsInv'
  BY TypeStep, TaskStep, TakenStep, LocksStep, DeleteStep, KnownStep, PicksStep, ChangesStep DEF DownloadsInv
<1>2. QED
  BY <1>1, InitInv, PTL DEF Spec

\* The variables keep their types; a feed is never longer than the channel.
THEOREM TypeCorrect == Spec => []TypeOK
<1>1. DownloadsInv => TypeOK
  BY DEF DownloadsInv
<1>2. QED
  BY <1>1, InvHolds, PTL

\* A client of the events that has read them all shows every unfinished download
\* as it is, whatever the channel dropped while it was behind.
THEOREM CaughtUpHolds == Spec => []CaughtUp
<1>1. DownloadsInv => CaughtUp
  BY DEF DownloadsInv, ChangesAddUp, CaughtUp, About
<1>2. QED
  BY <1>1, InvHolds, PTL

\* No requests wait for each other's locks: a request that waits for the lock of
\* one quant holds none, and a delete waits for one that comes after all it holds.
THEOREM NoCircleHolds == Spec => []NoCircle
<1>1. ASSUME DownloadsInv, NEW S \in SUBSET Caller, \A c \in S : \E d \in S : WaitsFor(c, d), S # {}
      PROVE  FALSE
  <2> DEFINE W == {q \in Quant : \E d \in S : call[d].at = "folder" /\ IsNext(d, q) /\ lock[q] \in S}
             Less == OpToRel(<, Nat)
             T == {QuantCount - q : q \in W}
  <2>1. ASSUME NEW d \in S, NEW p \in Quant, lock[p] = d
        PROVE  \E q \in W : call[d].at = "folder" /\ p < q
    <3>1. Owns(d) \/ Deletes(d)
      BY <1>1, <2>1, DownloadsAssumption DEF DownloadsInv, LocksAreHeld
    <3>2. call[d].at # "lock"
      BY <3>1 DEF Owns, Deletes
    <3>3. PICK e \in S : WaitsFor(d, e)
      BY <1>1
    <3>4. PICK q \in Quant : call[d].at = "folder" /\ IsNext(d, q) /\ lock[q] = e
      BY <3>2, <3>3 DEF WaitsFor
    <3>5. p < q
      <4>1. q \in call[d].todo /\ Deletes(d) /\ d \in Caller
        BY <3>4 DEF IsNext, Deletes
      <4>2. QED
        BY <1>1, <4>1, <3>4, <2>1 DEF DownloadsInv, NothingRunsUnderDelete
    <3>6. q \in W
      BY <3>4
    <3>7. QED
      BY <3>4, <3>5, <3>6
  <2>2. \A q \in W : \E r \in W : q < r
    BY <2>1
  <2>3. W # {}
    <3>1. PICK c \in S, d \in S : WaitsFor(c, d)
      BY <1>1
    <3>2. \E p \in Quant : lock[p] = d
      <4>1. call[c].q \in Quant
        BY <1>1 DEF DownloadsInv, TypeOK, Call
      <4>2. QED
        BY <3>1, <4>1 DEF WaitsFor
    <3>3. QED
      BY <3>2, <2>1
  <2>4. T \subseteq Nat /\ T # {}
    BY <2>3, DownloadsAssumption DEF Quant
  <2>5. PICK x \in T : \A y \in T : <<y, x>> \notin Less
    <3>1. IsWellFoundedOn(Less, Nat)
      BY NatLessThanWellFounded
    <3> HIDE DEF T, Less
    <3>2. QED
      BY <2>4, <3>1, WFMin
  <2>6. PICK q \in W : x = QuantCount - q
    OBVIOUS
  <2>7. PICK r \in W : q < r
    BY <2>2
  <2>8. QuantCount - r \in T /\ QuantCount - r < x /\ x \in Nat /\ QuantCount - r \in Nat
    BY <2>4, <2>6, <2>7, DownloadsAssumption DEF Quant
  <2>9. QED
    BY <2>5, <2>8 DEF OpToRel
<1>2. DownloadsInv => NoCircle
  BY <1>1 DEF NoCircle
<1>3. QED
  BY <1>2, InvHolds, PTL
=============================================================================
