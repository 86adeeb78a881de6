------------------------- MODULE EngineInstallProof -------------------------
(***************************************************************************)
(* Theorems about EngineInstall and their proofs.                          *)
(***************************************************************************)
EXTENDS EngineInstall, TLAPS

Tried == Downloaded \union {"cpu"}
Points == {"off", "picking", "lock", "locked", "save", "await", "stray", "delete", "left"}
Calls == [op : {"select", "start", "pause", "delete"}, at : Points,
          engine : Picks \union {"auto"}, todo : SUBSET Engine]
TaskType == [at : Tasks \union {"off"}, todo : SUBSET Engine]

-----------------------------------------------------------------------------
(* The choice of an engine.                                                *)

\* Foremost is an engine that no other one comes before.
LEMMA ForemostFacts ==
    ASSUME NEW S \in SUBSET Engine, S # {}
    PROVE  Foremost(S) \in S /\ \A d \in S : Rank(Foremost(S)) <= Rank(d)
<1> DEFINE Least(e) == e \in S /\ \A d \in S : Rank(e) <= Rank(d)
<1>1. \A e : Rank(e) \in {1, 2, 3, 4}
  BY DEF Rank
<1>2. \E e : Least(e)
  <2>1. CASE \E e \in S : Rank(e) = 1
    BY <2>1, <1>1
  <2>2. CASE (\E e \in S : Rank(e) = 2) /\ ~\E e \in S : Rank(e) = 1
    BY <2>2, <1>1
  <2>3. CASE (\E e \in S : Rank(e) = 3) /\ ~\E e \in S : Rank(e) \in {1, 2}
    BY <2>3, <1>1
  <2>4. CASE ~\E e \in S : Rank(e) \in {1, 2, 3}
    BY <2>4, <1>1
  <2>5. QED
    BY <2>1, <2>2, <2>3, <2>4
<1>3. QED
  BY <1>2 DEF Foremost

\* No two engines that are downloaded or come for every computer have one rank.
LEMMA ForemostIs ==
    ASSUME NEW S \in SUBSET Tried, NEW e \in S, \A d \in S : Rank(e) <= Rank(d)
    PROVE  Foremost(S) = e
<1>1. Foremost(S) \in S /\ Rank(Foremost(S)) <= Rank(e) /\ Rank(e) <= Rank(Foremost(S))
  BY ForemostFacts DEF Tried, Engine, Bundled
<1>2. Rank(Foremost(S)) = Rank(e)
  BY <1>1 DEF Rank
<1>3. \A a, b \in Tried : Rank(a) = Rank(b) => a = b
  BY DEF Rank, Tried, Downloaded
<1>4. QED
  BY <1>1, <1>2, <1>3

\* What can be detected here is not a Mac, and every such computer runs the
\* engine for the processor, which is never left out.
LEMMA ChoicesFacts ==
    ASSUME NEW out \in SUBSET Downloaded
    PROVE  /\ Choices(hw, out) = {e \in Tried : CanRun(e, hw) /\ e \notin out}
           /\ "cpu" \in Choices(hw, out) /\ Suits("cpu", hw)
<1>1. hw.macos = FALSE
  BY DEF hw, Detect
<1>2. "cpu" \notin out /\ CanRun("cpu", hw) /\ Suits("cpu", hw)
  BY DEF Downloaded, CanRun, Suits
<1>3. QED
  BY <1>1, <1>2 DEF Choices, Tried

\* The engines from the wanted one on are some, among them the one that comes
\* with Tiles, when the wanted one was to choose.
LEMMA FromFacts ==
    ASSUME NEW out \in SUBSET Downloaded
    PROVE  LET todo == From(EngineToRun(pick, hw, out), hw, out)
           IN  todo \in SUBSET Engine /\ "cpu" \in todo
<1> DEFINE todo == From(EngineToRun(pick, hw, out), hw, out)
<1>1. \A e : Rank(e) <= Rank("cpu")
  BY DEF Rank
<1>2. QED
  BY <1>1, ChoicesFacts DEF From, Tried, Engine, Bundled

\* With no engine picked, they are the ones that suit the computer and are not
\* marked: what comes after an engine that runs and suits, suits as well.
LEMMA AutoTriesAll ==
    ASSUME failed \in SUBSET Downloaded
    PROVE  ToTry(From(AutoEngine(hw, failed), hw, failed))
<1> DEFINE S == {e \in Choices(hw, failed) : Suits(e, hw)}
           todo == From(AutoEngine(hw, failed), hw, failed)
<1>1. /\ Choices(hw, failed) = {e \in Tried : CanRun(e, hw) /\ e \notin failed}
      /\ Choices(hw, {}) = {e \in Tried : CanRun(e, hw)}
      /\ S \in SUBSET Tried /\ S # {}
  BY ChoicesFacts
<1>2. AutoEngine(hw, failed) \in S /\ \A d \in S : Rank(AutoEngine(hw, failed)) <= Rank(d)
  BY <1>1, ForemostFacts DEF AutoEngine, Tried, Engine, Bundled
<1>3. ASSUME NEW e \in todo PROVE Suits(e, hw)
  <2>1. e \in Choices(hw, failed) /\ Rank(AutoEngine(hw, failed)) <= Rank(e)
    BY <1>3 DEF From
  <2>2. CASE e \in {"cuda-12", "cpu"}
    BY <2>2 DEF Suits
  <2>3. CASE e = "cuda-13"
    BY <2>1, <2>3, <1>1, <1>2 DEF Rank, Tried
  <2>4. CASE e = "vulkan"
    <3>1. AutoEngine(hw, failed) \in {"cuda-13", "cuda-12", "vulkan"}
      BY <2>1, <2>4, <1>1, <1>2 DEF Rank, Tried, Downloaded
    <3>2. CASE AutoEngine(hw, failed) = "vulkan"
      BY <3>2, <2>4, <1>2
    <3>3. CASE AutoEngine(hw, failed) \in {"cuda-13", "cuda-12"}
      <4>1. CanRun(AutoEngine(hw, failed), hw)
        BY <1>1, <1>2
      <4>2. hw.nvidia # {}
        BY <3>3, <4>1 DEF CanRun, RunsCuda
      <4>3. QED
        BY <2>4, <4>2 DEF Suits
    <3>4. QED
      BY <3>1, <3>2, <3>3
  <2>5. QED
    BY <2>1, <2>2, <2>3, <2>4, <1>1 DEF Tried, Downloaded
<1>4. todo \subseteq Good
  BY <1>1, <1>3 DEF From, Good
<1>5. Good \subseteq todo \union failed
  BY <1>1, <1>2 DEF From, Good
<1>6. QED
  BY <1>4, <1>5 DEF ToTry

-----------------------------------------------------------------------------
(* The types.                                                              *)

\* The types of the requests and of the installs, by their names.
LEMMA CallType ==
    TypeOK => call \in [Caller -> Calls] /\ task \in [Holder -> TaskType]
BY DEF TypeOK, Calls, Points, TaskType

\* A request goes on to its next point.
LEMMA GotoFacts ==
    ASSUME TypeOK, NEW c \in Caller, NEW point \in Points, Goto(c, point)
    PROVE  /\ call' \in [Caller -> Calls] /\ call'[c].at = point
           /\ call'[c].op = call[c].op /\ call'[c].todo = call[c].todo
           /\ call'[c].engine = call[c].engine
           /\ \A d \in Caller \ {c} : call'[d] = call[d]
BY CallType DEF Goto, Calls

\* It returns, and lets go of its locks.
LEMMA ReturnFacts ==
    ASSUME TypeOK, NEW c \in Caller, Return(c)
    PROVE  /\ call' \in [Caller -> Calls]
           /\ call'[c].at = "off" /\ call'[c].op = "start" /\ call'[c].todo = {}
           /\ \A d \in Caller \ {c} : call'[d] = call[d]
           /\ lock' = IF lock = c THEN None ELSE lock
           /\ picking' = IF picking = c THEN None ELSE picking
BY CallType DEF Return, NoCall, Calls, Points

\* An install goes on to its next step, and the others stay where they are.
LEMMA StepFacts ==
    ASSUME TypeOK, NEW h \in Holder, NEW from, NEW to \in Tasks, Step(h, from, to)
    PROVE  /\ task' \in [Holder -> TaskType] /\ task[h].at = from /\ task'[h].at = to
           /\ task'[h].todo = task[h].todo /\ Now(h)' = Now(h)
           /\ \A i \in Holder \ {h} : task'[i] = task[i]
BY CallType DEF Step, TaskType, Now

\* An install that is busy with an engine has one to download.
LEMMA NowFacts ==
    ASSUME TypeOK, TaskIsTold, NEW h \in Holder, Busy(h)
    PROVE  /\ Now(h) \in task[h].todo /\ \A d \in task[h].todo : Rank(Now(h)) <= Rank(d)
           /\ task[h].at # "next" => Now(h) \in Downloaded
<1>1. task[h].todo \in SUBSET Engine /\ task[h].todo # {}
  BY CallType DEF TaskType, TaskIsTold
<1>2. QED
  BY <1>1, ForemostFacts DEF Now, TaskIsTold

\* A step of an install is one of its own task, and moves no request but the one
\* whose pause was dropped, which it ends with.
LEMMA InstallFacts ==
    ASSUME TypeOK, NEW h \in Holder, Install(h)
    PROVE  /\ task[h].at # "off" /\ lock' = lock /\ picking' = picking
           /\ pick' = pick /\ machine' = machine /\ beside' = beside
           /\ \A i \in Holder \ {h} : task'[i] = task[i]
           /\ Busy(h)' => Busy(h)
           /\ call' = call \/ (TaskEnds(h) /\ Stray(h) /\ call' = [call EXCEPT ![h] = NoCall])
<1> DEFINE Facts == /\ task[h].at # "off" /\ lock' = lock /\ picking' = picking
                    /\ pick' = pick /\ machine' = machine /\ beside' = beside
                    /\ \A i \in Holder \ {h} : task'[i] = task[i]
                    /\ Busy(h)' => Busy(h)
                    /\ call' = call \/ (TaskEnds(h) /\ Stray(h) /\ call' = [call EXCEPT ![h] = NoCall])
<1>0. task \in [Holder -> TaskType]
  BY CallType
<1>1. ASSUME NEW from \in Tasks \ {"ending"}, NEW to \in Tasks, Step(h, from, to), SameJob PROVE Facts
  BY <1>1, StepFacts DEF SameJob, SameCalls, Busy, Tasks
<1>2. CASE Try(h)
  BY <1>1, <1>2 DEF Try, Tasks
<1>3. CASE Fetched(h)
  BY <1>3 DEF Fetched, SameJob, SameCalls, Busy
<1>4. CASE Fails(h)
  BY <1>1, <1>4 DEF Fails, Tasks
<1>5. CASE Paused(h) \/ AllFetched(h) \/ Unpacked(h) \/ Discarded(h) \/ Move(h)
  BY <1>1, <1>5 DEF Paused, AllFetched, Unpacked, Discarded, Move, Tasks
<1>6. ASSUME NEW result \in {"runs", "wrong", "paused"}, CheckEnds(h, result) PROVE Facts
  BY <1>1, <1>6 DEF CheckEnds, Tasks
<1>7. CASE Mark(h)
  BY <1>0, <1>7 DEF Mark, SameJob, SameCalls, Busy
<1>8. CASE Sweep(h)
  <2>1. CASE UNCHANGED task
    BY <1>8, <2>1 DEF Sweep, SameJob, SameCalls, Busy
  <2>2. CASE Step(h, "sweep", "ending")
    BY <1>1, <1>8, <2>2 DEF Sweep, Tasks
  <2>3. QED
    BY <1>8, <2>1, <2>2 DEF Sweep
<1>9. CASE TaskEnds(h)
  BY <1>0, <1>9 DEF TaskEnds, Off, Busy
<1>10. QED
  BY <1>2, <1>3, <1>4, <1>5, <1>6, <1>7, <1>8, <1>9 DEF Install

\* Every step keeps the types of the requests and of the locks.
LEMMA CallsTyped ==
    ASSUME TypeOK, [Next]_vars
    PROVE  call' \in [Caller -> Calls] /\ lock' \in Caller \union {None} /\ picking' \in Caller \union {None}
<1> DEFINE Typed == /\ call \in [Caller -> Calls]
                    /\ lock \in Caller \union {None} /\ picking \in Caller \union {None}
<1>0. Typed
  BY CallType DEF TypeOK
<1>1. ASSUME NEW c \in Caller, NEW op \in {"select", "start", "pause", "delete"}, NEW e \in Picks, Request(c, op, e) PROVE Typed'
  <2>1. [op |-> op, at |-> IF op \in {"select", "start"} THEN "picking" ELSE "lock",
         engine |-> e, todo |-> {}] \in Calls
    BY DEF Calls, Points
  <2>2. QED
    BY <1>1, <1>0, <2>1 DEF Request
<1>2. ASSUME NEW c \in Caller, LockPicking(c) PROVE Typed'
  BY <1>2, <1>0, GotoFacts, ReturnFacts DEF LockPicking, Points
<1>3. ASSUME NEW c \in Caller, Lock(c) PROVE Typed'
  BY <1>3, <1>0, GotoFacts, ReturnFacts DEF Lock, Points
<1>4. ASSUME NEW c \in Caller, Choose(c) PROVE Typed'
  <2>1. From(EngineToRun(pick, hw, failed), hw, failed) \in SUBSET Engine
    BY FromFacts DEF TypeOK
  <2>2. QED
    BY <1>4, <1>0, <2>1 DEF Choose, Calls
<1>5. ASSUME NEW c \in Caller, Select(c) PROVE Typed'
  BY <1>5, <1>0, GotoFacts, ReturnFacts DEF Select, Points
<1>6. ASSUME NEW c \in Caller, Save(c) PROVE Typed'
  BY <1>6, <1>0, GotoFacts, ReturnFacts DEF Save, Points
<1>7. ASSUME NEW c \in Caller, NEW room \in BOOLEAN, Start(c, room) PROVE Typed'
  BY <1>7, <1>0, GotoFacts, ReturnFacts DEF Start, Points
<1>8. ASSUME NEW c \in Caller, PauseTake(c) PROVE Typed'
  BY <1>8, <1>0, GotoFacts, ReturnFacts DEF PauseTake, Points
<1>9. ASSUME NEW c \in Caller, PauseDone(c) PROVE Typed'
  BY <1>9, <1>0, GotoFacts, ReturnFacts DEF PauseDone, Points
<1>10. ASSUME NEW c \in Caller, Leave(c) PROVE Typed'
  BY <1>10, <1>0, GotoFacts, ReturnFacts DEF Leave, Points
<1>11. ASSUME NEW c \in Caller, DeleteLook(c) PROVE Typed'
  BY <1>11, <1>0, GotoFacts, ReturnFacts DEF DeleteLook, Points
<1>12. ASSUME NEW c \in Caller, DeleteOne(c) PROVE Typed'
  BY <1>12, <1>0 DEF DeleteOne, SameCalls
<1>13. ASSUME NEW c \in Caller, DeleteDone(c) PROVE Typed'
  BY <1>13, <1>0, GotoFacts, ReturnFacts DEF DeleteDone, Points
<1>14. ASSUME NEW c \in Caller, DeleteFails(c) PROVE Typed'
  BY <1>14, <1>0, GotoFacts, ReturnFacts DEF DeleteFails, Points
<1>15. ASSUME NEW h \in Holder, Install(h) PROVE Typed'
  <2>1. NoCall \in Calls
    BY DEF NoCall, Calls, Points
  <2>2. QED
    BY <1>15, <1>0, <2>1, InstallFacts
<1>16. ASSUME Crash PROVE Typed'
  <2>1. NoCall \in Calls
    BY DEF NoCall, Calls, Points
  <2>2. QED
    BY <1>16, <1>0, <2>1 DEF Crash
<1>17. ASSUME UNCHANGED vars PROVE Typed'
  BY <1>17, <1>0 DEF vars
<1>18. QED
  BY <1>1, <1>2, <1>3, <1>4, <1>5, <1>6, <1>7, <1>8, <1>9, <1>10, <1>11, <1>12,
     <1>13, <1>14, <1>15, <1>16, <1>17 DEF Next, Serve

\* Every step keeps the types of the pick and of what is on the disk.
LEMMA DiskTyped ==
    ASSUME TypeOK, TaskIsTold, [Next]_vars
    PROVE  /\ pick' \in Picks \union {"auto"} /\ failed' \subseteq Downloaded
           /\ dirs' \subseteq Dir /\ staging' \in Dir \union {None}
           /\ files' \in [Downloaded -> 0 .. Files] /\ folder' \in BOOLEAN
<1> DEFINE Typed == /\ pick \in Picks \union {"auto"} /\ failed \subseteq Downloaded
                    /\ dirs \subseteq Dir /\ staging \in Dir \union {None}
                    /\ files \in [Downloaded -> 0 .. Files] /\ folder \in BOOLEAN
<1>0. Typed
  BY DEF TypeOK
<1>1. ASSUME NEW c \in Caller, NEW op \in {"select", "start", "pause", "delete"}, NEW e \in Picks, Request(c, op, e) PROVE Typed'
  BY <1>1, <1>0 DEF Request, disk
<1>2. ASSUME NEW c \in Caller, LockPicking(c) PROVE Typed'
  BY <1>2, <1>0 DEF LockPicking, disk
<1>3. ASSUME NEW c \in Caller, Lock(c) PROVE Typed'
  BY <1>3, <1>0 DEF Lock, disk
<1>4. ASSUME NEW c \in Caller, Choose(c) PROVE Typed'
  BY <1>4, <1>0 DEF Choose, disk
<1>5. ASSUME NEW c \in Caller, Select(c) PROVE Typed'
  BY <1>5, <1>0 DEF Select, disk
<1>6. ASSUME NEW c \in Caller, Save(c) PROVE Typed'
  <2>1. call[c].engine \in Picks \union {"auto"}
    BY CallType DEF Calls
  <2>2. QED
    BY <1>6, <1>0, <2>1 DEF Save
<1>7. ASSUME NEW c \in Caller, NEW room \in BOOLEAN, Start(c, room) PROVE Typed'
  BY <1>7, <1>0 DEF Start
<1>8. ASSUME NEW c \in Caller, PauseTake(c) PROVE Typed'
  BY <1>8, <1>0 DEF PauseTake, disk
<1>9. ASSUME NEW c \in Caller, PauseDone(c) PROVE Typed'
  BY <1>9, <1>0 DEF PauseDone, disk
<1>10. ASSUME NEW c \in Caller, Leave(c) PROVE Typed'
  BY <1>10, <1>0 DEF Leave, disk
<1>11. ASSUME NEW c \in Caller, DeleteLook(c) PROVE Typed'
  BY <1>11, <1>0 DEF DeleteLook, disk
<1>12. ASSUME NEW c \in Caller, DeleteOne(c) PROVE Typed'
  <2>1. [x \in Downloaded |-> 0] \in [Downloaded -> 0 .. Files]
    BY EngineAssumption
  <2>2. QED
    BY <1>12, <1>0, <2>1 DEF DeleteOne
<1>13. ASSUME NEW c \in Caller, DeleteDone(c) PROVE Typed'
  BY <1>13, <1>0 DEF DeleteDone, disk
<1>14. ASSUME NEW c \in Caller, DeleteFails(c) PROVE Typed'
  BY <1>14, <1>0 DEF DeleteFails, disk
<1>15. ASSUME NEW h \in Holder, Try(h) PROVE Typed'
  BY <1>15, <1>0 DEF Try, disk, SameJob
<1>16. ASSUME NEW h \in Holder, Fetched(h) PROVE Typed'
  <2>1. Now(h) \in Downloaded
    BY <1>16, NowFacts DEF Fetched, Busy
  <2>2. files[Now(h)] + 1 \in 0 .. Files
    BY <1>16, <1>0, <2>1, EngineAssumption DEF Fetched
  <2>3. QED
    BY <1>16, <1>0, <2>1, <2>2 DEF Fetched, SameJob
<1>17. ASSUME NEW h \in Holder, Fails(h) PROVE Typed'
  BY <1>17, <1>0 DEF Fails, disk, SameJob
<1>18. ASSUME NEW h \in Holder, Paused(h) PROVE Typed'
  BY <1>18, <1>0 DEF Paused, disk, SameJob
<1>19. ASSUME NEW h \in Holder, AllFetched(h) PROVE Typed'
  <2>1. Now(h) \in Downloaded
    BY <1>19, NowFacts DEF AllFetched, Busy
  <2>2. Unchecked(Now(h)) \in Dir
    BY <2>1 DEF Dir, Unchecked
  <2>3. QED
    BY <1>19, <1>0, <2>2 DEF AllFetched, SameJob
<1>20. ASSUME NEW h \in Holder, Unpacked(h) PROVE Typed'
  <2>1. Now(h) \in Downloaded
    BY <1>20, NowFacts DEF Unpacked, Step, Busy
  <2>2. Unchecked(Now(h)) \in Dir
    BY <2>1 DEF Dir, Unchecked
  <2>3. QED
    BY <1>20, <1>0, <2>2 DEF Unpacked, SameJob
<1>21. ASSUME NEW h \in Holder, NEW result \in {"runs", "wrong", "paused"}, CheckEnds(h, result) PROVE Typed'
  <2>1. ASSUME staging \in Dir PROVE [staging EXCEPT !.checked = result = "runs"] \in Dir
    BY <2>1 DEF Dir
  <2>2. staging' \in Dir \union {None}
    BY <1>21, <1>0, <2>1 DEF CheckEnds, Tested
  <2>3. QED
    BY <1>21, <1>0, <2>2 DEF CheckEnds, SameJob
<1>22. ASSUME NEW h \in Holder, Discarded(h) PROVE Typed'
  BY <1>22, <1>0 DEF Discarded, disk, SameJob
<1>23. ASSUME NEW h \in Holder, Mark(h) PROVE Typed'
  <2>1. Now(h) \in Downloaded
    BY <1>23, NowFacts DEF Mark, Busy
  <2>2. [files EXCEPT ![Now(h)] = 0] \in [Downloaded -> 0 .. Files]
    BY <1>0, <2>1, EngineAssumption
  <2>3. QED
    BY <1>23, <1>0, <2>1, <2>2 DEF Mark, SameJob
<1>24. ASSUME NEW h \in Holder, Move(h) PROVE Typed'
  <2>1. Now(h) \in Downloaded /\ staging \in Dir
    BY <1>24, <1>0, NowFacts DEF Move, Step, Busy
  <2>2. Placed(h) \in Dir
    BY <2>1 DEF Placed, Dir
  <2>3. QED
    BY <1>24, <1>0, <2>2 DEF Move, Others, SameJob
<1>25. ASSUME NEW h \in Holder, Sweep(h) PROVE Typed'
  <2>1. [x \in Downloaded |-> 0] \in [Downloaded -> 0 .. Files]
    BY EngineAssumption
  <2>2. QED
    BY <1>25, <1>0, <2>1 DEF Sweep, SameJob
<1>26. ASSUME NEW h \in Holder, TaskEnds(h) PROVE Typed'
  BY <1>26, <1>0 DEF TaskEnds, disk
<1>27. ASSUME Crash PROVE Typed'
  BY <1>27, <1>0 DEF Crash, disk
<1>28. ASSUME UNCHANGED vars PROVE Typed'
  BY <1>28, <1>0 DEF vars, disk
<1>29. QED
  BY <1>1, <1>2, <1>3, <1>4, <1>5, <1>6, <1>7, <1>8, <1>9, <1>10, <1>11, <1>12,
     <1>13, <1>14, <1>15, <1>16, <1>17, <1>18, <1>19, <1>20, <1>21, <1>22, <1>23,
     <1>24, <1>25, <1>26, <1>27, <1>28 DEF Next, Serve, Install

\* Every step keeps the types of the state and of the installs.
LEMMA JobTyped ==
    ASSUME TypeOK, TaskIsTold, [Next]_vars
    PROVE  state' \in State /\ task' \in [Holder -> TaskType]
<1> DEFINE Typed == state \in State /\ task \in [Holder -> TaskType]
<1>0. Typed
  BY CallType DEF TypeOK
<1>1. ASSUME NEW c \in Caller, NEW op \in {"select", "start", "pause", "delete"}, NEW e \in Picks, Request(c, op, e) PROVE Typed'
  BY <1>1, <1>0 DEF Request, job
<1>2. ASSUME NEW c \in Caller, LockPicking(c) PROVE Typed'
  BY <1>2, <1>0 DEF LockPicking, job
<1>3. ASSUME NEW c \in Caller, Lock(c) PROVE Typed'
  BY <1>3, <1>0 DEF Lock, job
<1>4. ASSUME NEW c \in Caller, Choose(c) PROVE Typed'
  BY <1>4, <1>0 DEF Choose, job
<1>5. ASSUME NEW c \in Caller, Select(c) PROVE Typed'
  BY <1>5, <1>0 DEF Select, job
<1>6. ASSUME NEW c \in Caller, Save(c) PROVE Typed'
  BY <1>6, <1>0 DEF Save, job
<1>7. ASSUME NEW c \in Caller, NEW room \in BOOLEAN, Start(c, room) PROVE Typed'
  <2>1. Foremost(call[c].todo) \in Engine /\ call[c].todo \in SUBSET Engine
    <3>1. call[c].todo # {} /\ call[c].todo \in SUBSET Engine
      BY <1>7, CallType DEF Start, TaskIsTold, Calls
    <3>2. QED
      BY <3>1, ForemostFacts
  <2>2. [at |-> "next", todo |-> call[c].todo] \in TaskType
    BY <2>1 DEF TaskType, Tasks
  <2>3. \A k \in {"done", "downloading"} : Is(k, Foremost(call[c].todo)) \in State
    BY <2>1 DEF State, Is, Running
  <2>4. QED
    BY <1>7, <1>0, <2>2, <2>3 DEF Start, job
<1>8. ASSUME NEW c \in Caller, PauseTake(c) PROVE Typed'
  <2>1. Off \in TaskType /\ task[None] \in TaskType
    BY <1>0 DEF Off, TaskType, Holder
  <2>2. QED
    BY <1>8, <1>0, <2>1 DEF PauseTake
<1>9. ASSUME NEW c \in Caller, PauseDone(c) PROVE Typed'
  BY <1>9, <1>0 DEF PauseDone, job
<1>10. ASSUME NEW c \in Caller, Leave(c) PROVE Typed'
  BY <1>10, <1>0 DEF Leave, job
<1>11. ASSUME NEW c \in Caller, DeleteLook(c) PROVE Typed'
  BY <1>11, <1>0 DEF DeleteLook, job, Deletes, Strays
<1>12. ASSUME NEW c \in Caller, DeleteOne(c) PROVE Typed'
  BY <1>12, <1>0 DEF DeleteOne, job
<1>13. ASSUME NEW c \in Caller, DeleteDone(c) PROVE Typed'
  BY <1>13, <1>0 DEF DeleteDone, State, Is
<1>14. ASSUME NEW c \in Caller, DeleteFails(c) PROVE Typed'
  BY <1>14, <1>0 DEF DeleteFails, job
<1>15. ASSUME NEW h \in Holder, Try(h) PROVE Typed'
  <2>1. Now(h) \in Engine
    BY <1>15, NowFacts, CallType DEF Try, Busy, TaskType
  <2>2. state' \in State
    BY <1>15, <1>0, <2>1 DEF Try, State, Is
  <2>3. QED
    BY <1>15, <1>0, <2>2, StepFacts DEF Try, SameJob, Tasks
<1>16. ASSUME NEW h \in Holder, Fetched(h) PROVE Typed'
  <2>1. Now(h) \in Engine
    BY <1>16, NowFacts DEF Fetched, Step, Busy, Engine
  <2>2. QED
    BY <1>16, <1>0, <2>1, StepFacts DEF Fetched, SameJob, State, Is, Running, Tasks
<1>17. ASSUME NEW h \in Holder, Fails(h) PROVE Typed'
  <2>1. Now(h) \in Engine
    BY <1>17, NowFacts DEF Fails, Step, Busy, Engine
  <2>2. QED
    BY <1>17, <1>0, <2>1, StepFacts DEF Fails, SameJob, State, Is, Running, Tasks
<1>18. ASSUME NEW h \in Holder, Paused(h) PROVE Typed'
  <2>1. Now(h) \in Engine
    BY <1>18, NowFacts DEF Paused, Step, Busy, Engine
  <2>2. QED
    BY <1>18, <1>0, <2>1, StepFacts DEF Paused, SameJob, State, Is, Running, Tasks
<1>19. ASSUME NEW h \in Holder, AllFetched(h) PROVE Typed'
  <2>1. Now(h) \in Engine
    BY <1>19, NowFacts DEF AllFetched, Step, Busy, Engine
  <2>2. QED
    BY <1>19, <1>0, <2>1, StepFacts DEF AllFetched, SameJob, State, Is, Running, Tasks
<1>20. ASSUME NEW h \in Holder, Unpacked(h) PROVE Typed'
  <2>1. Now(h) \in Engine
    BY <1>20, NowFacts DEF Unpacked, Step, Busy, Engine
  <2>2. QED
    BY <1>20, <1>0, <2>1, StepFacts DEF Unpacked, SameJob, State, Is, Running, Tasks
<1>21. ASSUME NEW h \in Holder, NEW result \in {"runs", "wrong", "paused"}, CheckEnds(h, result) PROVE Typed'
  <2>1. PICK to \in Tasks : Step(h, "check", to)
    BY <1>21 DEF CheckEnds, Tasks
  <2>2. QED
    BY <1>21, <1>0, <2>1, StepFacts DEF CheckEnds, SameJob
<1>22. ASSUME NEW h \in Holder, Discarded(h) PROVE Typed'
  <2>1. Now(h) \in Engine
    BY <1>22, NowFacts DEF Discarded, Step, Busy, Engine
  <2>2. QED
    BY <1>22, <1>0, <2>1, StepFacts DEF Discarded, SameJob, State, Is, Running, Tasks
<1>23. ASSUME NEW h \in Holder, Mark(h) PROVE Typed'
  <2>1. [at |-> "next", todo |-> task[h].todo \ {Now(h)}] \in TaskType
    BY <1>0 DEF TaskType, Tasks
  <2>2. QED
    BY <1>23, <1>0, <2>1 DEF Mark, SameJob
<1>24. ASSUME NEW h \in Holder, Move(h) PROVE Typed'
  BY <1>24, <1>0, StepFacts DEF Move, SameJob, Tasks
<1>25. ASSUME NEW h \in Holder, Sweep(h) PROVE Typed'
  <2>1. Now(h) \in Engine
    BY <1>25, NowFacts DEF Sweep, Busy, Engine
  <2>2. state' \in State
    BY <1>25, <1>0, <2>1 DEF Sweep, State, Is
  <2>3. QED
    BY <1>25, <1>0, <2>2, StepFacts DEF Sweep, SameJob, Tasks
<1>26. ASSUME NEW h \in Holder, TaskEnds(h) PROVE Typed'
  BY <1>26, <1>0 DEF TaskEnds, Off, TaskType
<1>27. ASSUME Crash PROVE Typed'
  BY <1>27, <1>0 DEF Crash, NoTask, Off, TaskType, State, Is
<1>28. ASSUME UNCHANGED vars PROVE Typed'
  BY <1>28, <1>0 DEF vars, job
<1>29. QED
  BY <1>1, <1>2, <1>3, <1>4, <1>5, <1>6, <1>7, <1>8, <1>9, <1>10, <1>11, <1>12,
     <1>13, <1>14, <1>15, <1>16, <1>17, <1>18, <1>19, <1>20, <1>21, <1>22, <1>23,
     <1>24, <1>25, <1>26, <1>27, <1>28 DEF Next, Serve, Install

\* A step of an install keeps the types of the installs.
LEMMA HolderTyped ==
    ASSUME TypeOK, NEW h \in Holder, Install(h)
    PROVE  task' \in [Holder -> TaskType]
<1>1. task \in [Holder -> TaskType]
  BY CallType
<1>2. ASSUME NEW from, NEW to \in Tasks, Step(h, from, to) PROVE task' \in [Holder -> TaskType]
  BY <1>2, StepFacts
<1>3. CASE Try(h) \/ Fails(h) \/ Paused(h) \/ AllFetched(h) \/ Unpacked(h) \/ Discarded(h) \/ Move(h)
  BY <1>2, <1>3 DEF Try, Fails, Paused, AllFetched, Unpacked, Discarded, Move, Tasks
<1>4. CASE Fetched(h) \/ Sweep(h)
  BY <1>1, <1>2, <1>4 DEF Fetched, Sweep, Tasks
<1>5. ASSUME NEW result \in {"runs", "wrong", "paused"}, CheckEnds(h, result) PROVE task' \in [Holder -> TaskType]
  BY <1>2, <1>5 DEF CheckEnds, Tasks
<1>6. CASE Mark(h)
  <2>1. [at |-> "next", todo |-> task[h].todo \ {Now(h)}] \in TaskType
    BY <1>1 DEF TaskType, Tasks
  <2>2. QED
    BY <1>1, <1>6, <2>1 DEF Mark
<1>7. CASE TaskEnds(h)
  BY <1>1, <1>7 DEF TaskEnds, Off, TaskType
<1>8. QED
  BY <1>3, <1>4, <1>5, <1>6, <1>7 DEF Install

\* Every step keeps the types.
LEMMA TypeStep ==
    ASSUME TypeOK, TaskIsTold, [Next]_vars
    PROVE  TypeOK'
<1>1. beside' \in BOOLEAN
  BY InstallFacts DEF TypeOK, Next, Serve, Request, LockPicking, Lock, Choose, Select, Save, Start,
     PauseTake, PauseDone, Leave, DeleteLook, DeleteOne, DeleteDone, DeleteFails, Crash, vars,
     Strays, Deletes
<1>2. QED
  BY <1>1, CallsTyped, DiskTyped, JobTyped DEF TypeOK, Calls, Points, TaskType

-----------------------------------------------------------------------------
(* The locks.                                                              *)

\* A step of one request leaves the others, their locks and their installs alone,
\* and starts an install only while it holds both locks.
LEMMA RequestStep ==
    ASSUME TypeOK, LocksAreHeld, NEW c \in Caller,
           \/ \E op \in {"select", "start", "pause", "delete"}, e \in Picks : Request(c, op, e)
           \/ LockPicking(c) \/ Lock(c) \/ Serve(c)
    PROVE  LocksAreHeld' /\ \A d \in Caller \ {c} : call'[d] = call[d] /\ task'[d] = task[d]
<1> DEFINE Held(d) ==
        /\ call[d].at \in {"locked", "await", "delete"} => lock = d
        /\ call[d].op \in {"select", "start"} /\ call[d].at \in {"lock", "locked", "save"} => picking = d
        /\ call[d].at = "save" => call[d].op = "select"
        /\ call[d].at \in {"await", "stray"} => call[d].op = "pause"
        /\ call[d].at \in {"delete", "left"} => call[d].op = "delete"
        /\ call[d].at \in {"delete", "save", "await"} => ~Live
        /\ task[d].at # "off" => call[d].at \in {"await", "stray"}
    Apart ==
        /\ \A d \in Caller \ {c} : /\ call'[d] = call[d]
                                   /\ task'[d] = task[d]
                                   /\ lock = d => lock' = d
                                   /\ picking = d => picking' = d
        /\ Live' => Live \/ (lock = c /\ picking = c)
        /\ call'[c].at = "save" => call[c].at = "save" \/ lock = c
        /\ call'[c].at = "await" => call[c].at = "await" \/ Live
<1>0. Held(c)
  BY DEF LocksAreHeld
<1>1. call \in [Caller -> Calls]
  BY CallType
<1>2. task \in [Holder -> TaskType]
  BY CallType
<1>3. ASSUME NEW op \in {"select", "start", "pause", "delete"}, NEW e \in Picks, Request(c, op, e) PROVE Held(c)' /\ Apart
  <2>1. call'[c].at \in {"picking", "lock"} /\ (call'[c].op \in {"select", "start"} => call'[c].at = "picking")
    BY <1>3, <1>1 DEF Request
  <2>2. \A d \in Caller \ {c} : call'[d] = call[d]
    BY <1>3, <1>1 DEF Request
  <2>3. task' = task /\ lock' = lock /\ picking' = picking /\ task[c].at = "off"
    BY <1>3, <1>0 DEF Request, job
  <2>4. QED
    BY <2>1, <2>2, <2>3 DEF Live
<1>4. ASSUME LockPicking(c) PROVE Held(c)' /\ Apart
  <2>1. Goto(c, "lock") /\ picking' = c /\ lock' = lock /\ task' = task /\ picking = None /\ call[c].at = "picking"
    BY <1>4 DEF LockPicking, job
  <2>2. QED
    BY <1>0, <1>1, <2>1, EngineAssumption, GotoFacts DEF Live, Points
<1>5. ASSUME Lock(c) PROVE Held(c)' /\ Apart
  <2>1. Goto(c, "locked") /\ lock' = c /\ picking' = picking /\ task' = task /\ lock = None /\ call[c].at = "lock"
    BY <1>5 DEF Lock, job
  <2>2. QED
    BY <1>0, <1>1, <2>1, EngineAssumption, GotoFacts DEF Live, Points
<1>6. ASSUME Choose(c) PROVE Held(c)' /\ Apart
  <2>1. /\ call'[c].at = call[c].at /\ call'[c].op = call[c].op
        /\ \A d \in Caller \ {c} : call'[d] = call[d]
    BY <1>6, <1>1 DEF Choose, Calls
  <2>2. QED
    BY <1>6, <1>0, <2>1 DEF Choose, job, Live
<1>7. ASSUME Select(c) PROVE Held(c)' /\ Apart
  <2>1. \/ Return(c)
        \/ ~Live /\ lock' = None /\ Goto(c, "save") /\ picking' = picking
    BY <1>7 DEF Select
  <2>2. call[c].op = "select" /\ call[c].at = "locked" /\ task' = task
    BY <1>7 DEF Select, job
  <2>3. QED
    BY <1>0, <1>1, <2>1, <2>2, GotoFacts, ReturnFacts DEF Live, Points
<1>8. ASSUME Save(c) PROVE Held(c)' /\ Apart
  <2>1. Return(c) /\ task' = task
    BY <1>8 DEF Save, job
  <2>2. QED
    BY <1>8, <1>0, <1>1, <2>1, ReturnFacts DEF Save, Live
<1>9. ASSUME NEW room \in BOOLEAN, Start(c, room) PROVE Held(c)' /\ Apart
  <2>1. call[c].op = "start" /\ call[c].at = "locked" /\ Return(c) /\ lock = c /\ picking = c
    BY <1>9, <1>0 DEF Start
  <2>2. \A d \in Caller : task'[d] = task[d]
    <3>1. task' = task \/ task' = [task EXCEPT ![None] = [at |-> "next", todo |-> call[c].todo]]
      BY <1>9 DEF Start, job
    <3>2. QED
      BY <1>2, <3>1, EngineAssumption DEF Holder
  <2>3. QED
    BY <1>0, <1>1, <2>1, <2>2, ReturnFacts
<1>10. ASSUME PauseTake(c) PROVE Held(c)' /\ Apart
  <2>1. call[c].op = "pause" /\ call[c].at = "locked" /\ task[c].at = "off"
    BY <1>10, <1>0 DEF PauseTake
  <2>2. CASE ~Live
    BY <1>10, <1>0, <1>1, <2>1, <2>2, ReturnFacts DEF PauseTake, Live
  <2>3. CASE Live
    <3>1. Goto(c, "await") /\ lock' = lock /\ picking' = picking
      BY <1>10, <2>3 DEF PauseTake
    <3>2. task' = [task EXCEPT ![None] = Off, ![c] = task[None]]
      BY <1>10, <2>3 DEF PauseTake
    <3>3. task'[None].at = "off" /\ \A d \in Caller \ {c} : task'[d] = task[d]
      BY <1>2, <3>2, EngineAssumption DEF Off, Holder
    <3>4. QED
      BY <1>0, <1>1, <2>1, <2>3, <3>1, <3>3, GotoFacts DEF Live, Points
  <2>4. QED
    BY <2>2, <2>3
<1>11. ASSUME PauseDone(c) PROVE Held(c)' /\ Apart
  <2>1. Return(c) /\ task' = task
    BY <1>11 DEF PauseDone, job
  <2>2. QED
    BY <1>11, <1>0, <1>1, <2>1, ReturnFacts DEF PauseDone, Live
<1>12. ASSUME Leave(c) PROVE Held(c)' /\ Apart
  <2>1. task' = task
    BY <1>12 DEF Leave, job
  <2>2. CASE task[c].at = "off" /\ Return(c)
    BY <1>0, <1>1, <2>1, <2>2, ReturnFacts DEF Live
  <2>3. CASE call[c].at = "await" /\ Goto(c, "stray") /\ lock' = None /\ picking' = picking
    BY <1>0, <1>1, <2>1, <2>3, GotoFacts DEF Live, Points
  <2>4. CASE call[c].at = "delete" /\ Goto(c, "left") /\ lock' = None /\ picking' = picking
    BY <1>0, <1>1, <2>1, <2>4, GotoFacts DEF Live, Points
  <2>5. QED
    BY <1>12, <2>2, <2>3, <2>4 DEF Leave
<1>13. ASSUME DeleteLook(c) PROVE Held(c)' /\ Apart
  <2>1. \/ Return(c)
        \/ Goto(c, "delete") /\ lock' = lock /\ picking' = picking /\ ~Live
    BY <1>13 DEF DeleteLook
  <2>2. call[c].op = "delete" /\ call[c].at = "locked" /\ task' = task
    BY <1>13 DEF DeleteLook, job
  <2>3. QED
    BY <1>0, <1>1, <2>1, <2>2, GotoFacts, ReturnFacts DEF Live, Points
<1>14. ASSUME DeleteOne(c) PROVE Held(c)' /\ Apart
  BY <1>14, <1>0 DEF DeleteOne, SameCalls, job, Live
<1>15. ASSUME DeleteDone(c) PROVE Held(c)' /\ Apart
  <2>1. Return(c) /\ task' = task
    BY <1>15 DEF DeleteDone, job
  <2>2. QED
    BY <1>15, <1>0, <1>1, <2>1, ReturnFacts DEF DeleteDone, Live
<1>16. ASSUME DeleteFails(c) PROVE Held(c)' /\ Apart
  <2>1. Return(c) /\ task' = task
    BY <1>16 DEF DeleteFails, job
  <2>2. QED
    BY <1>16, <1>0, <1>1, <2>1, ReturnFacts DEF DeleteFails, Live
<1>17. Held(c)' /\ Apart
  BY <1>3, <1>4, <1>5, <1>6, <1>7, <1>8, <1>9, <1>10, <1>11, <1>12, <1>13, <1>14,
     <1>15, <1>16 DEF Serve
<1>18. ASSUME NEW d \in Caller \ {c} PROVE Held(d)'
  <2>1. Held(d) /\ call'[d] = call[d] /\ task'[d] = task[d]
    BY <1>17 DEF LocksAreHeld
  <2>2. (lock = d => lock' = d) /\ (picking = d => picking' = d)
    BY <1>17
  <2>3. ~Live' \/ Live \/ (lock # d /\ picking # d)
    BY <1>17
  <2>4. QED
    BY <2>1, <2>2, <2>3
<1>19. ASSUME NEW d \in Caller, NEW e \in Caller, call'[d].at = "save" PROVE call'[e].at # "await"
  <2>1. Held(d) /\ Held(e) /\ (call[d].at = "save" => call[e].at # "await")
    BY DEF LocksAreHeld
  <2>2. (d # c => call'[d] = call[d]) /\ (e # c => call'[e] = call[e])
    BY <1>17
  <2>3. CASE d = c
    BY <1>17, <1>19, <2>1, <2>2, <2>3
  <2>4. CASE d # c
    BY <1>17, <1>19, <2>1, <2>2, <2>4
  <2>5. QED
    BY <2>3, <2>4
<1>20. QED
  BY <1>17, <1>18, <1>19 DEF LocksAreHeld

\* Every step keeps the locks with those who need them.
LEMMA LocksStep ==
    ASSUME TypeOK, LocksAreHeld, [Next]_vars
    PROVE  LocksAreHeld'
<1>1. ASSUME NEW c \in Caller,
             \/ \E op \in {"select", "start", "pause", "delete"}, e \in Picks : Request(c, op, e)
             \/ LockPicking(c) \/ Lock(c) \/ Serve(c)
      PROVE  LocksAreHeld'
  BY <1>1, RequestStep
<1>2. ASSUME NEW h \in Holder, Install(h) PROVE LocksAreHeld'
  <2>1. call \in [Caller -> Calls] /\ task \in [Holder -> TaskType] /\ task' \in [Holder -> TaskType]
    BY <1>2, CallType, HolderTyped
  <2>2. /\ lock' = lock /\ picking' = picking /\ task[h].at # "off"
        /\ \A i \in Holder \ {h} : task'[i] = task[i]
    BY <1>2, InstallFacts
  <2>3. Live' => Live
    BY <2>2 DEF Live, Holder
  <2>4. CASE call' = call
    BY <2>2, <2>3, <2>4 DEF LocksAreHeld, Holder
  <2>5. CASE TaskEnds(h) /\ Stray(h) /\ call' = [call EXCEPT ![h] = NoCall]
    <3>1. task'[h].at = "off" /\ h \in Caller
      BY <2>1, <2>5 DEF TaskEnds, Off, Stray
    <3>2. /\ call'[h].at = "off" /\ call'[h].op = "start"
          /\ \A d \in Caller \ {h} : call'[d] = call[d]
      BY <2>1, <2>5, <3>1 DEF NoCall
    <3>3. QED
      BY <2>2, <2>3, <3>1, <3>2 DEF LocksAreHeld, Holder
  <2>6. QED
    BY <1>2, <2>4, <2>5, InstallFacts
<1>3. CASE Crash
  BY <1>3 DEF Crash, NoCall, NoTask, Off, Holder, LocksAreHeld
<1>4. CASE UNCHANGED vars
  BY <1>4 DEF vars, LocksAreHeld, Live
<1>5. QED
  BY <1>1, <1>2, <1>3, <1>4 DEF Next

-----------------------------------------------------------------------------
(* One install at work.                                                    *)

\* While nobody has begun beside another, no install begins while one is at work.
LEMMA OneStep ==
    ASSUME TypeOK, LocksAreHeld, OneAtWork, [Next]_vars
    PROVE  OneAtWork'
<1> SUFFICES ASSUME ~beside' PROVE \A h \in Holder : Busy(h)' => ~Deletes' /\ \A i \in Holder \ {h} : ~Busy(i)'
  BY DEF OneAtWork
<1> DEFINE Alone == \A h \in Holder : Busy(h) => ~Deletes /\ \A i \in Holder \ {h} : ~Busy(i)
<1>0. call \in [Caller -> Calls] /\ task \in [Holder -> TaskType]
  BY CallType
<1>1. ASSUME ~beside, \A h \in Holder : Busy(h)' => Busy(h), Deletes' => Deletes PROVE Alone'
  BY <1>1 DEF OneAtWork
<1>2. ASSUME NEW c \in Caller,
             \/ \E op \in {"select", "start", "pause", "delete"}, e \in Picks : Request(c, op, e)
             \/ LockPicking(c) \/ Lock(c) \/ Serve(c),
             beside' = beside, task' = task,
             call'[c].at \in {"delete", "left"} => call[c].at \in {"delete", "left"}
      PROVE  Alone'
  <2>1. Deletes' => Deletes
    BY <1>2, RequestStep DEF Deletes
  <2>2. QED
    BY <1>1, <1>2, <2>1 DEF Busy
<1>3. ASSUME NEW c \in Caller, NEW op \in {"select", "start", "pause", "delete"}, NEW e \in Picks, Request(c, op, e) PROVE Alone'
  BY <1>0, <1>2, <1>3 DEF Request, job
<1>4. ASSUME NEW c \in Caller, LockPicking(c) \/ Lock(c) \/ Choose(c) PROVE Alone'
  <2>1. call'[c].at \notin {"delete", "left"}
    BY <1>0, <1>4, GotoFacts DEF LockPicking, Lock, Choose, Points, Calls
  <2>2. QED
    BY <1>2, <1>4, <2>1 DEF LockPicking, Lock, Choose, Serve, job
<1>5. ASSUME NEW c \in Caller, Select(c) \/ Save(c) \/ PauseDone(c) \/ DeleteDone(c) \/ DeleteFails(c) PROVE Alone'
  <2>1. Return(c) \/ Goto(c, "save")
    BY <1>5 DEF Select, Save, PauseDone, DeleteDone, DeleteFails
  <2>2. call'[c].at \notin {"delete", "left"}
    BY <2>1, GotoFacts, ReturnFacts DEF Points
  <2>3. QED
    BY <1>2, <1>5, <2>2 DEF Select, Save, PauseDone, DeleteDone, DeleteFails, Serve, job
<1>6. ASSUME NEW c \in Caller, NEW room \in BOOLEAN, Start(c, room) PROVE Alone'
  <2>1. Return(c) /\ lock = c /\ call[c].at = "locked"
    BY <1>6 DEF Start, LocksAreHeld
  <2>2. CASE task' = task /\ beside' = beside
    BY <1>2, <1>6, <2>1, <2>2, ReturnFacts DEF Serve
  <2>3. CASE ~Live /\ beside' = (beside \/ Strays \/ Deletes) /\ task' = [task EXCEPT ![None] = [at |-> "next", todo |-> call[c].todo]]
    <3>1. ~Deletes'
      BY <2>1, <2>3, ReturnFacts DEF Deletes
    <3>2. ASSUME NEW d \in Caller PROVE ~Busy(d)
      <4>1. call[d].at # "await"
        BY <2>1 DEF LocksAreHeld
      <4>2. QED
        BY <2>3, <4>1 DEF LocksAreHeld, Strays, Stray, Busy
    <3>3. \A d \in Caller : ~Busy(d)'
      BY <1>0, <2>3, <3>2, EngineAssumption DEF Busy, Holder
    <3>4. QED
      BY <3>1, <3>3 DEF Holder
  <2>4. QED
    BY <1>6, <2>2, <2>3 DEF Start, job
<1>7. ASSUME NEW c \in Caller, PauseTake(c) PROVE Alone'
  <2>1. CASE task' = task /\ Return(c)
    BY <1>2, <1>7, <2>1, ReturnFacts DEF PauseTake, Serve
  <2>2. CASE task' = [task EXCEPT ![None] = Off, ![c] = task[None]] /\ Goto(c, "await")
    <3>1. ~Deletes' \/ Deletes
      BY <2>2, GotoFacts DEF Deletes, Points
    <3>2. ~Busy(None)' /\ Busy(c)' = Busy(None) /\ \A d \in Caller \ {c} : task'[d] = task[d]
      BY <1>0, <2>2, EngineAssumption DEF Busy, Holder, Off
    <3>3. ~beside /\ Alone
      BY <1>7 DEF PauseTake, OneAtWork
    <3>4. ASSUME NEW h \in Holder, Busy(h)' PROVE ~Deletes' /\ \A i \in Holder \ {h} : ~Busy(i)'
      <4>1. CASE h = c
        <5>1. ~Deletes /\ \A i \in Caller : ~Busy(i)
          BY <3>2, <3>3, <3>4, <4>1, EngineAssumption DEF Holder
        <5>2. QED
          BY <3>1, <3>2, <4>1, <5>1 DEF Holder, Busy
      <4>2. CASE h # c
        <5>1. h \in Caller /\ Busy(h)
          BY <3>2, <3>4, <4>2 DEF Holder, Busy
        <5>2. ~Deletes /\ ~Busy(None) /\ \A i \in Caller \ {h} : ~Busy(i)
          BY <3>3, <5>1, EngineAssumption DEF Holder
        <5>3. QED
          BY <3>1, <3>2, <5>2 DEF Holder, Busy
      <4>3. QED
        BY <4>1, <4>2
    <3>5. QED
      BY <3>4
  <2>3. QED
    BY <1>7, <2>1, <2>2 DEF PauseTake
<1>8. ASSUME NEW c \in Caller, Leave(c) PROVE Alone'
  <2>1. call'[c].at \in {"delete", "left"} => call[c].at \in {"delete", "left"}
    BY <1>8, GotoFacts, ReturnFacts DEF Leave, Points
  <2>2. QED
    BY <1>2, <1>8, <2>1 DEF Leave, Serve, job
<1>9. ASSUME NEW c \in Caller, DeleteLook(c) PROVE Alone'
  <2>1. lock = c /\ call[c].at = "locked" /\ task' = task
    BY <1>9 DEF DeleteLook, LocksAreHeld, job
  <2>2. CASE Return(c) /\ beside' = beside
    BY <1>2, <1>9, <2>1, <2>2, ReturnFacts DEF Serve
  <2>3. CASE ~Live /\ beside' = (beside \/ Strays)
    <3>1. ASSUME NEW d \in Caller PROVE ~Busy(d)
      <4>1. call[d].at # "await"
        BY <2>1 DEF LocksAreHeld
      <4>2. QED
        BY <2>3, <4>1 DEF LocksAreHeld, Strays, Stray, Busy
    <3>2. ~Busy(None)
      BY <2>3 DEF Live, Busy
    <3>3. QED
      BY <2>1, <3>1, <3>2 DEF Holder, Busy
  <2>4. QED
    BY <1>9, <2>2, <2>3 DEF DeleteLook
<1>10. ASSUME NEW c \in Caller, DeleteOne(c) PROVE Alone'
  BY <1>1, <1>10 DEF DeleteOne, SameCalls, job, Deletes, Busy
<1>11. ASSUME NEW h \in Holder, Install(h) PROVE Alone'
  <2>1. /\ beside' = beside /\ (Busy(h)' => Busy(h))
        /\ \A i \in Holder \ {h} : task'[i] = task[i]
        /\ call' = call \/ (Stray(h) /\ call' = [call EXCEPT ![h] = NoCall])
    BY <1>11, InstallFacts
  <2>2. \A i \in Holder : Busy(i)' => Busy(i)
    BY <2>1 DEF Busy
  <2>3. Deletes' => Deletes
    <3>1. CASE call' = call
      BY <3>1 DEF Deletes
    <3>2. CASE Stray(h) /\ call' = [call EXCEPT ![h] = NoCall]
      BY <1>0, <3>2 DEF Deletes, Stray, NoCall
    <3>3. QED
      BY <2>1, <3>1, <3>2
  <2>4. QED
    BY <1>1, <2>1, <2>2, <2>3
<1>12. CASE Crash
  BY <1>12 DEF Crash, NoTask, Off, Busy
<1>13. CASE UNCHANGED vars
  BY <1>1, <1>13 DEF vars, Busy, Deletes
<1>14. QED
  BY <1>3, <1>4, <1>5, <1>6, <1>7, <1>8, <1>9, <1>10, <1>11, <1>12, <1>13 DEF Next, Serve

-----------------------------------------------------------------------------
(* The engine folders.                                                     *)

\* An install that is alone at work leaves only what was checked in place.
LEMMA OwnChecked ==
    ASSUME TypeOK, TaskIsTold, OnlyChecked, ~beside, NEW h \in Holder, Install(h)
    PROVE  /\ \A d \in dirs' : d.checked
           /\ task'[h].at \in {"unpack", "check", "discard", "mark", "move"} =>
                 staging' \in Dir /\ staging'.engine = Now(h)' /\ staging'.tag = "pinned"
           /\ task'[h].at = "move" => staging'.checked
           /\ task'[h].at = "sweep" => \E d \in dirs' : d.engine = Now(h)' /\ d.tag = "pinned"
<1> DEFINE Own ==
      /\ task[h].at \in {"unpack", "check", "discard", "mark", "move"} =>
              staging \in Dir /\ staging.engine = Now(h) /\ staging.tag = "pinned"
      /\ task[h].at = "move" => staging.checked
      /\ task[h].at = "sweep" => \E d \in dirs : d.engine = Now(h) /\ d.tag = "pinned"
      /\ \A d \in dirs : d.checked
<1>0. Own
  BY DEF OnlyChecked
<1>1. task \in [Holder -> TaskType]
  BY CallType
<1>2. ASSUME Try(h) PROVE Own'
  <2>1. task'[h].at \in {"ending", "fetch"} /\ dirs' = dirs
    BY <1>2, StepFacts DEF Try, Tasks
  <2>2. QED
    BY <1>0, <2>1
<1>3. ASSUME Fetched(h) PROVE Own'
  BY <1>3, <1>0 DEF Fetched
<1>4. ASSUME Fails(h) PROVE Own'
  <2>1. task'[h].at = "ending" /\ dirs' = dirs
    BY <1>4, StepFacts DEF Fails, Tasks, disk
  <2>2. QED
    BY <1>0, <2>1
<1>5. ASSUME Paused(h) PROVE Own'
  <2>1. task'[h].at = "ending" /\ dirs' = dirs
    BY <1>5, StepFacts DEF Paused, Tasks, disk
  <2>2. QED
    BY <1>0, <2>1
<1>6. ASSUME AllFetched(h) PROVE Own'
  <2>1. task'[h].at = "unpack" /\ Now(h)' = Now(h) /\ dirs' = dirs
    BY <1>6, StepFacts DEF AllFetched, Tasks
  <2>2. staging' = Unchecked(Now(h)) /\ Now(h) \in Downloaded
    BY <1>6, NowFacts DEF AllFetched, Busy
  <2>3. staging' \in Dir /\ staging'.engine = Now(h) /\ staging'.tag = "pinned"
    BY <2>2 DEF Dir, Unchecked
  <2>4. QED
    BY <1>0, <2>1, <2>3
<1>7. ASSUME Unpacked(h) PROVE Own'
  <2>1. task[h].at = "unpack" /\ task'[h].at = "check" /\ Now(h)' = Now(h) /\ dirs' = dirs
    BY <1>7, StepFacts DEF Unpacked, Tasks
  <2>2. Now(h) \in Downloaded
    BY <2>1, NowFacts DEF Busy
  <2>3. staging' = staging \/ staging' = Unchecked(Now(h))
    BY <1>7 DEF Unpacked
  <2>4. staging' \in Dir /\ staging'.engine = Now(h) /\ staging'.tag = "pinned"
    <3>1. CASE staging' = staging
      BY <1>0, <2>1, <3>1
    <3>2. CASE staging' = Unchecked(Now(h))
      BY <2>2, <3>2 DEF Dir, Unchecked
    <3>3. QED
      BY <2>3, <3>1, <3>2
  <2>5. QED
    BY <1>0, <2>1, <2>4
<1>8. ASSUME NEW result \in {"runs", "wrong", "paused"}, CheckEnds(h, result) PROVE Own'
  <2>1. PICK to \in Tasks : to \in {"move", "mark", "discard"} /\ Step(h, "check", to) /\ (to = "move" => result = "runs")
    BY <1>8 DEF CheckEnds, Tasks
  <2>2. task[h].at = "check" /\ task'[h].at = to /\ Now(h)' = Now(h)
    BY <2>1, StepFacts
  <2>3. /\ dirs' = dirs /\ (result = "runs" => staging # None)
        /\ IF staging = None THEN staging' = None ELSE staging' = [staging EXCEPT !.checked = result = "runs"]
    BY <1>8 DEF CheckEnds, Tested
  <2>4. staging \in Dir /\ staging.engine = Now(h) /\ staging.tag = "pinned"
    BY <1>0, <2>2
  <2>5. /\ staging' \in Dir /\ staging'.engine = Now(h) /\ staging'.tag = "pinned"
        /\ result = "runs" => staging'.checked
    BY <2>3, <2>4 DEF Dir
  <2>6. QED
    BY <1>0, <2>1, <2>2, <2>3, <2>5
<1>9. ASSUME Discarded(h) PROVE Own'
  <2>1. task'[h].at = "ending" /\ dirs' = dirs
    BY <1>9, StepFacts DEF Discarded, Tasks, disk
  <2>2. QED
    BY <1>0, <2>1
<1>10. ASSUME Mark(h) PROVE Own'
  <2>1. task'[h].at = "next" /\ dirs' = dirs
    BY <1>10, <1>1 DEF Mark
  <2>2. QED
    BY <1>0, <2>1
<1>11. ASSUME Move(h) PROVE Own'
  <2>1. task[h].at = "move" /\ task'[h].at = "sweep" /\ Now(h)' = Now(h)
    BY <1>11, StepFacts DEF Move, Tasks
  <2>2. staging.engine = Now(h) /\ staging.checked
    BY <1>0, <2>1
  <2>3. dirs' \subseteq dirs \union {Placed(h)} /\ Placed(h) \in dirs'
    BY <1>11 DEF Move, Others
  <2>4. Placed(h).engine = Now(h) /\ Placed(h).tag = "pinned" /\ Placed(h).checked
    BY <2>2 DEF Placed
  <2>5. QED
    BY <1>0, <2>1, <2>3, <2>4
<1>12. ASSUME Sweep(h) PROVE Own'
  <2>1. task[h].at = "sweep" /\ dirs' \subseteq dirs
    BY <1>12 DEF Sweep
  <2>2. CASE task' = task /\ \E d \in Others(h) : dirs' = dirs \ {d}
    <3>1. PICK d \in dirs : d.engine = Now(h) /\ d.tag = "pinned"
      BY <1>0, <2>1
    <3>2. d \in dirs'
      BY <2>2, <3>1 DEF Others
    <3>3. task'[h].at = "sweep" /\ Now(h)' = Now(h)
      BY <2>1, <2>2 DEF Now
    <3>4. QED
      BY <1>0, <2>1, <3>1, <3>2, <3>3
  <2>3. CASE Step(h, "sweep", "ending")
    BY <1>0, <2>1, <2>3, StepFacts DEF Tasks
  <2>4. QED
    BY <1>12, <2>2, <2>3 DEF Sweep
<1>13. ASSUME TaskEnds(h) PROVE Own'
  <2>1. task'[h].at = "off" /\ dirs' = dirs
    BY <1>13, <1>1 DEF TaskEnds, Off, disk
  <2>2. QED
    BY <1>0, <2>1
<1>14. QED
  BY <1>2, <1>3, <1>4, <1>5, <1>6, <1>7, <1>8, <1>9, <1>10, <1>11, <1>12, <1>13 DEF Install

\* What is in place was checked.
LEMMA CheckedStep ==
    ASSUME TypeOK, LocksAreHeld, OneAtWork, TaskIsTold, OnlyChecked, [Next]_vars
    PROVE  OnlyChecked'
<1> SUFFICES ASSUME ~beside' PROVE OnlyChecked'
  BY DEF OnlyChecked
<1> DEFINE Sound(h) ==
        /\ task[h].at \in {"unpack", "check", "discard", "mark", "move"} =>
              staging \in Dir /\ staging.engine = Now(h) /\ staging.tag = "pinned"
        /\ task[h].at = "move" => staging.checked
        /\ task[h].at = "sweep" => \E d \in dirs : d.engine = Now(h) /\ d.tag = "pinned"
    Checked == (\A d \in dirs : d.checked) /\ \A h \in Holder : Sound(h)
<1>0. ~beside => Checked
  BY DEF OnlyChecked
<1>1. task \in [Holder -> TaskType]
  BY CallType
<1>9. ASSUME ~beside, dirs' = dirs, staging' = staging, task' = task PROVE Checked'
  BY <1>0, <1>9 DEF Now
<1>10. ASSUME NEW c \in Caller, NEW op \in {"select", "start", "pause", "delete"}, NEW e \in Picks, Request(c, op, e) PROVE Checked'
  BY <1>10, <1>9 DEF Request, disk, job
<1>11. ASSUME NEW c \in Caller, LockPicking(c) PROVE Checked'
  BY <1>11, <1>9 DEF LockPicking, disk, job
<1>12. ASSUME NEW c \in Caller, Lock(c) PROVE Checked'
  BY <1>12, <1>9 DEF Lock, disk, job
<1>13. ASSUME NEW c \in Caller, Choose(c) PROVE Checked'
  BY <1>13, <1>9 DEF Choose, disk, job
<1>14. ASSUME NEW c \in Caller, Select(c) PROVE Checked'
  BY <1>14, <1>9 DEF Select, disk, job
<1>15. ASSUME NEW c \in Caller, Save(c) PROVE Checked'
  BY <1>15, <1>9 DEF Save, job
<1>16. ASSUME NEW c \in Caller, NEW room \in BOOLEAN, Start(c, room) PROVE Checked'
  <2>1. dirs' = dirs /\ staging' = staging /\ (beside => beside')
    BY <1>16 DEF Start, job
  <2>2. CASE task' = task
    BY <1>9, <2>1, <2>2
  <2>3. CASE task' = [task EXCEPT ![None] = [at |-> "next", todo |-> call[c].todo]]
    <3>1. ASSUME NEW h \in Holder PROVE Sound(h)'
      BY <1>0, <1>1, <2>1, <2>3, <3>1 DEF Now
    <3>2. QED
      BY <1>0, <2>1, <3>1
  <2>4. QED
    BY <1>16, <2>2, <2>3 DEF Start, job
<1>17. ASSUME NEW c \in Caller, PauseTake(c) PROVE Checked'
  <2>1. dirs' = dirs /\ staging' = staging /\ beside' = beside
    BY <1>17 DEF PauseTake, disk
  <2>2. CASE task' = task
    BY <1>9, <2>1, <2>2
  <2>3. CASE task' = [task EXCEPT ![None] = Off, ![c] = task[None]]
    <3>1. /\ task'[None].at = "off" /\ task'[c] = task[None] /\ Sound(None)
          /\ \A h \in Caller \ {c} : task'[h] = task[h]
      BY <1>0, <1>1, <2>1, <2>3, EngineAssumption DEF Off, Holder
    <3>2. ASSUME NEW h \in Holder PROVE Sound(h)'
      <4>1. CASE h = None
        BY <3>1, <4>1
      <4>2. CASE h = c
        BY <2>1, <3>1, <4>2 DEF Now
      <4>3. CASE h \in Caller \ {c}
        BY <1>0, <2>1, <3>1, <4>3 DEF Now
      <4>4. QED
        BY <4>1, <4>2, <4>3 DEF Holder
    <3>3. QED
      BY <1>0, <2>1, <3>2
  <2>4. QED
    BY <1>17, <2>2, <2>3 DEF PauseTake
<1>18. ASSUME NEW c \in Caller, PauseDone(c) PROVE Checked'
  BY <1>18, <1>9 DEF PauseDone, disk, job
<1>19. ASSUME NEW c \in Caller, Leave(c) PROVE Checked'
  BY <1>19, <1>9 DEF Leave, disk, job
<1>20. ASSUME NEW c \in Caller, DeleteLook(c) PROVE Checked'
  <2>1. dirs' = dirs /\ staging' = staging /\ task' = task /\ ~beside
    BY <1>20 DEF DeleteLook, disk, job
  <2>2. QED
    BY <1>0, <2>1 DEF Now
<1>21. ASSUME NEW c \in Caller, DeleteOne(c) PROVE Checked'
  <2>1. task' = task /\ dirs' \subseteq dirs /\ beside' = beside /\ Deletes
    BY <1>21 DEF DeleteOne, job, Deletes
  <2>2. \A h \in Holder : ~Busy(h)
    BY <2>1 DEF OneAtWork
  <2>3. QED
    BY <1>0, <2>1, <2>2 DEF Busy
<1>22. ASSUME NEW c \in Caller, DeleteDone(c) PROVE Checked'
  BY <1>22, <1>9 DEF DeleteDone, disk
<1>23. ASSUME NEW c \in Caller, DeleteFails(c) PROVE Checked'
  BY <1>23, <1>9 DEF DeleteFails, disk, job
<1>24. ASSUME NEW h \in Holder, Install(h) PROVE Checked'
  <2>1. ~beside /\ \A i \in Holder \ {h} : task'[i] = task[i]
    BY <1>24, InstallFacts
  <2>2. (\A d \in dirs' : d.checked) /\ Sound(h)'
    BY <1>24, <2>1, OwnChecked
  <2>3. ASSUME NEW i \in Holder \ {h} PROVE Sound(i)'
    <3>1. CASE ~Busy(i)
      BY <2>1, <3>1 DEF Busy
    <3>2. CASE Busy(i)
      <4>1. ~Busy(h) /\ task[h].at = "ending"
        BY <1>24, <2>1, <3>2, InstallFacts DEF OneAtWork, Busy
      <4>2. TaskEnds(h)
        BY <1>24, <4>1 DEF Install, Try, Fetched, Fails, Paused, AllFetched, Unpacked, CheckEnds, Discarded,
             Mark, Move, Sweep, Step
      <4>3. dirs' = dirs /\ staging' = staging /\ task'[i] = task[i] /\ Sound(i)
        BY <1>0, <2>1, <4>2 DEF TaskEnds, disk
      <4>4. QED
        BY <4>3 DEF Now
    <3>3. QED
      BY <3>1, <3>2
  <2>4. QED
    BY <2>2, <2>3
<1>25. ASSUME Crash PROVE Checked'
  <2>1. dirs' = dirs /\ ~beside /\ \A h \in Holder : task'[h].at = "off"
    BY <1>25 DEF Crash, NoTask, Off, disk
  <2>2. QED
    BY <1>0, <2>1
<1>26. ASSUME UNCHANGED vars PROVE Checked'
  BY <1>26, <1>9 DEF vars
<1>27. QED
  BY <1>10, <1>11, <1>12, <1>13, <1>14, <1>15, <1>16, <1>17, <1>18, <1>19, <1>20,
     <1>21, <1>22, <1>23, <1>24, <1>25, <1>26 DEF Next, Serve, OnlyChecked
-----------------------------------------------------------------------------
(* What is told about the install.                                         *)

\* The engines a start is to try are known when it looks at the task, and the one
\* that comes with Tiles is among them.
LEMMA CallsTold ==
    ASSUME TypeOK, LocksAreHeld, TaskIsTold, NEW c \in Caller,
           \/ \E op \in {"select", "start", "pause", "delete"}, e \in Picks : Request(c, op, e)
           \/ LockPicking(c) \/ Lock(c) \/ Serve(c)
    PROVE  \A d \in Caller :
               IF call'[d].todo = {} THEN call'[d].op = "start" => call'[d].at # "locked"
               ELSE /\ call'[d].op = "start" /\ call'[d].at \in {"lock", "locked"}
                    /\ call'[d].todo \intersect Bundled # {}
<1> DEFINE Told(d) ==
        IF call[d].todo = {} THEN call[d].op = "start" => call[d].at # "locked"
        ELSE /\ call[d].op = "start" /\ call[d].at \in {"lock", "locked"}
             /\ call[d].todo \intersect Bundled # {}
<1>0. Told(c)
  BY DEF TaskIsTold
<1>1. call \in [Caller -> Calls]
  BY CallType
<1>2. ASSUME NEW op \in {"select", "start", "pause", "delete"}, NEW e \in Picks, Request(c, op, e) PROVE Told(c)'
  <2>1. call'[c].todo = {} /\ call'[c].at # "locked"
    BY <1>2, <1>1 DEF Request
  <2>2. QED
    BY <2>1
<1>3. ASSUME LockPicking(c) PROVE Told(c)'
  <2>1. Goto(c, "lock") /\ call[c].at = "picking"
    BY <1>3 DEF LockPicking
  <2>2. QED
    BY <1>0, <2>1, GotoFacts DEF Points
<1>4. ASSUME Lock(c) PROVE Told(c)'
  <2>1. Goto(c, "locked") /\ call[c].at = "lock" /\ (call[c].op = "start" => call[c].todo # {})
    BY <1>4 DEF Lock
  <2>2. QED
    BY <1>0, <2>1, GotoFacts DEF Points
<1>5. ASSUME Choose(c) PROVE Told(c)'
  <2>1. "cpu" \in From(EngineToRun(pick, hw, failed), hw, failed)
    BY FromFacts DEF TypeOK
  <2>2. /\ call'[c].todo = From(EngineToRun(pick, hw, failed), hw, failed)
        /\ call'[c].op = "start" /\ call'[c].at = "lock"
    BY <1>5, <1>1 DEF Choose, Calls
  <2>3. QED
    BY <2>1, <2>2 DEF Bundled
<1>6. ASSUME Select(c) PROVE Told(c)'
  <2>1. call[c].op # "start" /\ (Return(c) \/ Goto(c, "save"))
    BY <1>6 DEF Select
  <2>2. QED
    BY <1>0, <2>1, GotoFacts, ReturnFacts DEF Points
<1>7. ASSUME Save(c) PROVE Told(c)'
  BY <1>7, ReturnFacts DEF Save
<1>8. ASSUME NEW room \in BOOLEAN, Start(c, room) PROVE Told(c)'
  BY <1>8, ReturnFacts DEF Start
<1>9. ASSUME PauseTake(c) PROVE Told(c)'
  <2>1. call[c].op # "start" /\ (Return(c) \/ Goto(c, "await"))
    BY <1>9 DEF PauseTake
  <2>2. QED
    BY <1>0, <2>1, GotoFacts, ReturnFacts DEF Points
<1>10. ASSUME PauseDone(c) PROVE Told(c)'
  BY <1>10, ReturnFacts DEF PauseDone
<1>30. ASSUME Leave(c) PROVE Told(c)'
  <2>1. Return(c) \/ (call[c].at \in {"await", "delete"} /\ (Goto(c, "stray") \/ Goto(c, "left")))
    BY <1>30 DEF Leave
  <2>2. QED
    BY <1>0, <2>1, GotoFacts, ReturnFacts DEF Points
<1>11. ASSUME DeleteLook(c) PROVE Told(c)'
  <2>1. call[c].op # "start" /\ (Return(c) \/ Goto(c, "delete"))
    BY <1>11 DEF DeleteLook
  <2>2. QED
    BY <1>0, <2>1, GotoFacts, ReturnFacts DEF Points
<1>12. ASSUME DeleteOne(c) PROVE Told(c)'
  BY <1>12, <1>0 DEF DeleteOne, SameCalls
<1>13. ASSUME DeleteDone(c) PROVE Told(c)'
  BY <1>13, ReturnFacts DEF DeleteDone
<1>14. ASSUME DeleteFails(c) PROVE Told(c)'
  BY <1>14, ReturnFacts DEF DeleteFails
<1>15. Told(c)'
  BY <1>2, <1>3, <1>4, <1>5, <1>6, <1>7, <1>8, <1>9, <1>10, <1>11,
     <1>12, <1>13, <1>14, <1>30 DEF Serve
<1>16. ASSUME NEW d \in Caller \ {c} PROVE Told(d)'
  <2>1. Told(d) /\ call'[d] = call[d]
    BY RequestStep DEF TaskIsTold
  <2>2. QED
    BY <2>1
<1>17. QED
  BY <1>15, <1>16

\* An install that ends leaves a state that does not run; one that goes on has an
\* engine left to try.
LEMMA OwnTold ==
    ASSUME TypeOK, TaskIsTold, NEW h \in Holder, Install(h)
    PROVE  /\ Busy(h)' \/ (task[h].at = "ending" /\ state' = state) \/ state'.is \notin Running
           /\ Busy(h)' /\ task'[h].at # "next" => Now(h)' \in Downloaded
           /\ Busy(h)' => task'[h].todo \intersect Bundled # {}
<1> DEFINE Own == /\ Busy(h)' \/ (task[h].at = "ending" /\ state' = state) \/ state'.is \notin Running
                  /\ Busy(h)' /\ task'[h].at # "next" => Now(h)' \in Downloaded
                  /\ Busy(h)' => task'[h].todo \intersect Bundled # {}
<1>0. /\ Busy(h) /\ task[h].at # "next" => Now(h) \in Downloaded
      /\ Busy(h) => task[h].todo \intersect Bundled # {}
  BY DEF TaskIsTold
<1>1. task \in [Holder -> TaskType]
  BY CallType
<1>2. ASSUME Try(h) PROVE Own
  <2>1. task[h].at = "next" /\ task[h].todo # {}
    BY <1>2, <1>0 DEF Try, Busy
  <2>2. CASE Now(h) \in Bundled
    <3>1. task'[h].at = "ending" /\ state'.is = "done"
      BY <1>2, <2>1, <2>2, StepFacts DEF Try, Tasks, Is
    <3>2. QED
      BY <3>1 DEF Running, Busy
  <2>3. CASE Now(h) \notin Bundled
    <3>1. task'[h].at = "fetch" /\ task'[h].todo = task[h].todo /\ Now(h)' = Now(h)
      BY <1>2, <2>1, <2>3, StepFacts DEF Try, Tasks
    <3>2. Now(h) \in Downloaded
      BY <1>1, <2>1, <2>3, NowFacts DEF Engine, Busy, TaskType
    <3>3. QED
      BY <1>0, <2>1, <3>1, <3>2 DEF Busy
  <2>4. QED
    BY <2>2, <2>3
<1>3. ASSUME Fetched(h) PROVE Own
  <2>1. task[h].at = "fetch" /\ task' = task
    BY <1>3 DEF Fetched
  <2>2. QED
    BY <1>0, <2>1 DEF Busy, Now
<1>4. ASSUME Fails(h) PROVE Own
  <2>1. task'[h].at = "ending" /\ state'.is = "failed"
    BY <1>4, StepFacts DEF Fails, Tasks, Is
  <2>2. QED
    BY <2>1 DEF Running, Busy
<1>5. ASSUME Paused(h) PROVE Own
  <2>1. task'[h].at = "ending" /\ state'.is = "paused"
    BY <1>5, StepFacts DEF Paused, Tasks, Is
  <2>2. QED
    BY <2>1 DEF Running, Busy
<1>6. ASSUME AllFetched(h) PROVE Own
  <2>1. task[h].at = "fetch" /\ task'[h].at = "unpack" /\ task'[h].todo = task[h].todo /\ Now(h)' = Now(h)
    BY <1>6, StepFacts DEF AllFetched, Tasks
  <2>2. QED
    BY <1>0, <2>1 DEF Busy
<1>7. ASSUME Unpacked(h) PROVE Own
  <2>1. task[h].at = "unpack" /\ task'[h].at = "check" /\ task'[h].todo = task[h].todo /\ Now(h)' = Now(h)
    BY <1>7, StepFacts DEF Unpacked, Tasks
  <2>2. QED
    BY <1>0, <2>1 DEF Busy
<1>8. ASSUME NEW result \in {"runs", "wrong", "paused"}, CheckEnds(h, result) PROVE Own
  <2>1. PICK to \in Tasks : to \in {"move", "mark", "discard"} /\ Step(h, "check", to)
    BY <1>8 DEF CheckEnds, Tasks
  <2>2. task[h].at = "check" /\ task'[h].at = to /\ task'[h].todo = task[h].todo /\ Now(h)' = Now(h)
    BY <2>1, StepFacts
  <2>3. QED
    BY <1>0, <2>1, <2>2 DEF Busy
<1>9. ASSUME Discarded(h) PROVE Own
  <2>1. task'[h].at = "ending" /\ state'.is = "paused"
    BY <1>9, StepFacts DEF Discarded, Tasks, Is
  <2>2. QED
    BY <2>1 DEF Running, Busy
<1>10. ASSUME Mark(h) PROVE Own
  <2>1. task[h].at = "mark" /\ task'[h].at = "next" /\ task'[h].todo = task[h].todo \ {Now(h)}
    BY <1>10, <1>1 DEF Mark
  <2>2. Now(h) \in Downloaded /\ task[h].todo \intersect Bundled # {}
    BY <1>0, <2>1 DEF Busy
  <2>3. task'[h].todo \intersect Bundled # {}
    BY <2>1, <2>2 DEF Downloaded, Bundled
  <2>4. QED
    BY <2>1, <2>3 DEF Busy
<1>11. ASSUME Move(h) PROVE Own
  <2>1. task[h].at = "move" /\ task'[h].at = "sweep" /\ task'[h].todo = task[h].todo /\ Now(h)' = Now(h)
    BY <1>11, StepFacts DEF Move, Tasks
  <2>2. QED
    BY <1>0, <2>1 DEF Busy
<1>12. ASSUME Sweep(h) PROVE Own
  <2>1. CASE UNCHANGED task
    BY <1>12, <1>0, <2>1 DEF Sweep, Now, Busy
  <2>2. CASE Step(h, "sweep", "ending") /\ state' = Is("done", Now(h))
    <3>1. task'[h].at = "ending" /\ state'.is = "done"
      BY <2>2, StepFacts DEF Tasks, Is
    <3>2. QED
      BY <3>1 DEF Running, Busy
  <2>3. QED
    BY <1>12, <2>1, <2>2 DEF Sweep
<1>13. ASSUME TaskEnds(h) PROVE Own
  <2>1. task[h].at = "ending" /\ task'[h].at = "off" /\ state' = state
    BY <1>13, <1>1 DEF TaskEnds, Off
  <2>2. QED
    BY <2>1 DEF Busy
<1>14. QED
  BY <1>2, <1>3, <1>4, <1>5, <1>6, <1>7, <1>8, <1>9, <1>10, <1>11, <1>12, <1>13 DEF Install

\* A state that runs has an install behind it, and every install an engine left to try.
LEMMA TaskTold ==
    ASSUME TypeOK, LocksAreHeld, TaskIsTold, [Next]_vars
    PROVE  /\ state'.is \in Running => \E h \in Holder : Busy(h)'
           /\ \A h \in Holder :
               /\ Busy(h)' /\ task'[h].at # "next" => Now(h)' \in Downloaded
               /\ Busy(h)' => task'[h].todo \intersect Bundled # {}
<1> DEFINE Has(h) == /\ Busy(h) /\ task[h].at # "next" => Now(h) \in Downloaded
                     /\ Busy(h) => task[h].todo \intersect Bundled # {}
           Told == (state.is \in Running => \E h \in Holder : Busy(h)) /\ \A h \in Holder : Has(h)
<1>0. Told
  BY DEF TaskIsTold
<1>1. task \in [Holder -> TaskType]
  BY CallType
<1>2. ASSUME state' = state, task' = task PROVE Told'
  BY <1>0, <1>2 DEF Busy, Now
<1>10. ASSUME NEW c \in Caller, NEW op \in {"select", "start", "pause", "delete"}, NEW e \in Picks, Request(c, op, e) PROVE Told'
  BY <1>10, <1>2 DEF Request, job
<1>11. ASSUME NEW c \in Caller, LockPicking(c) PROVE Told'
  BY <1>11, <1>2 DEF LockPicking, job
<1>12. ASSUME NEW c \in Caller, Lock(c) PROVE Told'
  BY <1>12, <1>2 DEF Lock, job
<1>13. ASSUME NEW c \in Caller, Choose(c) PROVE Told'
  BY <1>13, <1>2 DEF Choose, job
<1>14. ASSUME NEW c \in Caller, Select(c) PROVE Told'
  BY <1>14, <1>2 DEF Select, job
<1>15. ASSUME NEW c \in Caller, Save(c) PROVE Told'
  BY <1>15, <1>2 DEF Save, job
<1>16. ASSUME NEW c \in Caller, NEW room \in BOOLEAN, Start(c, room) PROVE Told'
  <2>1. CASE task' = task /\ (state' = state \/ state'.is = "done")
    BY <1>0, <2>1 DEF Running, Busy, Now
  <2>2. CASE task' = [task EXCEPT ![None] = [at |-> "next", todo |-> call[c].todo]]
    <3>1. task'[None] = [at |-> "next", todo |-> call[c].todo] /\ \A h \in Caller : task'[h] = task[h]
      BY <1>1, <2>2, EngineAssumption DEF Holder
    <3>2. call[c].todo \intersect Bundled # {}
      BY <1>16 DEF Start, TaskIsTold
    <3>3. ASSUME NEW h \in Holder PROVE Has(h)'
      <4>1. CASE h = None
        BY <3>1, <3>2, <4>1 DEF Busy
      <4>2. CASE h \in Caller
        BY <1>0, <3>1, <4>2 DEF Busy, Now, Holder
      <4>3. QED
        BY <4>1, <4>2 DEF Holder
    <3>4. Busy(None)'
      BY <3>1 DEF Busy
    <3>5. QED
      BY <3>3, <3>4 DEF Holder
  <2>3. QED
    BY <1>16, <2>1, <2>2 DEF Start, job, Is
<1>17. ASSUME NEW c \in Caller, PauseTake(c) PROVE Told'
  <2>1. state' = state
    BY <1>17 DEF PauseTake
  <2>2. CASE task' = task
    BY <1>2, <2>1, <2>2
  <2>3. CASE task' = [task EXCEPT ![None] = Off, ![c] = task[None]] /\ task[c].at = "off"
    <3>1. /\ task'[None].at = "off" /\ task'[c] = task[None] /\ Has(None)
          /\ \A h \in Caller \ {c} : task'[h] = task[h]
      BY <1>0, <1>1, <2>3, EngineAssumption DEF Off, Holder
    <3>2. ASSUME NEW h \in Holder PROVE Has(h)'
      <4>1. CASE h = None
        BY <3>1, <4>1 DEF Busy
      <4>2. CASE h = c
        BY <3>1, <4>2 DEF Now, Busy
      <4>3. CASE h \in Caller \ {c}
        BY <1>0, <3>1, <4>3 DEF Now, Busy, Holder
      <4>4. QED
        BY <4>1, <4>2, <4>3 DEF Holder
    <3>3. ASSUME NEW h \in Holder, Busy(h) PROVE \E i \in Holder : Busy(i)'
      <4>1. CASE h = None
        BY <3>1, <3>3, <4>1 DEF Busy, Holder
      <4>2. CASE h \in Caller
        BY <2>3, <3>1, <3>3, <4>2 DEF Busy, Holder
      <4>3. QED
        BY <4>1, <4>2 DEF Holder
    <3>4. QED
      BY <1>0, <2>1, <3>2, <3>3
  <2>4. QED
    BY <1>17, <2>2, <2>3 DEF PauseTake, LocksAreHeld
<1>18. ASSUME NEW c \in Caller, PauseDone(c) PROVE Told'
  BY <1>18, <1>2 DEF PauseDone, job
<1>19. ASSUME NEW c \in Caller, Leave(c) PROVE Told'
  BY <1>19, <1>2 DEF Leave, job
<1>20. ASSUME NEW c \in Caller, DeleteLook(c) PROVE Told'
  BY <1>20, <1>2 DEF DeleteLook, job
<1>21. ASSUME NEW c \in Caller, DeleteOne(c) PROVE Told'
  BY <1>21, <1>2 DEF DeleteOne, job
<1>22. ASSUME NEW c \in Caller, DeleteDone(c) PROVE Told'
  <2>1. task' = task /\ state'.is = "idle"
    BY <1>22 DEF DeleteDone, Is
  <2>2. QED
    BY <1>0, <2>1 DEF Running, Busy, Now
<1>23. ASSUME NEW c \in Caller, DeleteFails(c) PROVE Told'
  BY <1>23, <1>2 DEF DeleteFails, job
<1>24. ASSUME NEW h \in Holder, Install(h) PROVE Told'
  <2>1. \A i \in Holder \ {h} : task'[i] = task[i]
    BY <1>24, InstallFacts
  <2>2. /\ Has(h)'
        /\ Busy(h)' \/ (task[h].at = "ending" /\ state' = state) \/ state'.is \notin Running
    BY <1>24, OwnTold
  <2>3. ASSUME NEW i \in Holder \ {h} PROVE Has(i)' /\ Busy(i)' = Busy(i)
    BY <1>0, <2>1 DEF Busy, Now
  <2>4. ASSUME state'.is \in Running, ~Busy(h)' PROVE \E i \in Holder : Busy(i)'
    <3>1. PICK i \in Holder : Busy(i)
      BY <1>0, <2>2, <2>4
    <3>2. i # h
      BY <2>2, <2>4, <3>1 DEF Busy
    <3>3. QED
      BY <2>3, <3>1, <3>2
  <2>5. QED
    BY <2>2, <2>3, <2>4
<1>25. ASSUME Crash PROVE Told'
  <2>1. state'.is = "idle" /\ \A h \in Holder : task'[h].at = "off"
    BY <1>25 DEF Crash, NoTask, Off, Is
  <2>2. QED
    BY <2>1 DEF Running, Busy
<1>26. ASSUME UNCHANGED vars PROVE Told'
  BY <1>26, <1>2 DEF vars
<1>27. QED
  BY <1>10, <1>11, <1>12, <1>13, <1>14, <1>15, <1>16, <1>17, <1>18, <1>19, <1>20,
     <1>21, <1>22, <1>23, <1>24, <1>25, <1>26 DEF Next, Serve

\* Every step keeps what is told.
LEMMA ToldStep ==
    ASSUME TypeOK, LocksAreHeld, TaskIsTold, [Next]_vars
    PROVE  TaskIsTold'
<1> DEFINE Told(d) ==
        IF call[d].todo = {} THEN call[d].op = "start" => call[d].at # "locked"
        ELSE /\ call[d].op = "start" /\ call[d].at \in {"lock", "locked"}
             /\ call[d].todo \intersect Bundled # {}
<1>1. \A d \in Caller : Told(d)'
  <2>1. ASSUME NEW c \in Caller,
               \/ \E op \in {"select", "start", "pause", "delete"}, e \in Picks : Request(c, op, e)
               \/ LockPicking(c) \/ Lock(c) \/ Serve(c)
        PROVE  \A d \in Caller : Told(d)'
    BY <2>1, CallsTold
  <2>2. CASE call' = call
    BY <2>2 DEF TaskIsTold
  <2>3. CASE Crash
    BY <2>3 DEF Crash, NoCall
  <2>4. ASSUME NEW h, call' = [call EXCEPT ![h] = NoCall] PROVE \A d \in Caller : Told(d)'
    <3>1. \A d \in Caller : call'[d] = call[d] \/ call'[d] = NoCall
      BY <2>4, CallType
    <3>2. QED
      BY <3>1 DEF TaskIsTold, NoCall
  <2>5. QED
    BY <2>1, <2>2, <2>3, <2>4, InstallFacts DEF Next, vars
<1>2. QED
  BY <1>1, TaskTold DEF TaskIsTold

-----------------------------------------------------------------------------
(* What is still to be tried.                                              *)

\* The computer stays, and with it the engines that are good for it.
LEMMA GoodStays ==
    ASSUME TypeOK, [Next]_vars
    PROVE  hw' = hw /\ Good' = Good
<1>1. machine' = machine
  BY InstallFacts DEF Next, vars, Request, LockPicking, Lock, Serve, Choose, Select, Save, Start, PauseTake,
     PauseDone, Leave, DeleteLook, DeleteOne, DeleteDone, DeleteFails, Crash
<1>2. QED
  BY <1>1 DEF Good, hw

\* Until an install ends or marks an engine it has the same ones to try.
LEMMA TodoStays ==
    ASSUME TypeOK, NEW h \in Holder, Install(h), ~Mark(h)
    PROVE  failed' = failed /\ (Busy(h)' => task'[h].todo = task[h].todo)
<1>1. ASSUME NEW result \in {"runs", "wrong", "paused"}, CheckEnds(h, result)
      PROVE  task'[h].todo = task[h].todo /\ failed' = failed
  <2>1. PICK to \in Tasks : Step(h, "check", to)
    BY <1>1 DEF CheckEnds, Tasks
  <2>2. QED
    BY <1>1, <2>1, StepFacts DEF CheckEnds
<1>2. CASE Fails(h) \/ Paused(h) \/ Discarded(h)
  BY <1>2, StepFacts DEF Fails, Paused, Discarded, Tasks, disk
<1>3. CASE Try(h) \/ Fetched(h) \/ AllFetched(h) \/ Unpacked(h)
  BY <1>3, StepFacts DEF Try, Fetched, AllFetched, Unpacked, Tasks, disk
<1>4. CASE Move(h) \/ Sweep(h)
  BY <1>4, StepFacts DEF Move, Sweep, Tasks
<1>5. CASE TaskEnds(h)
  BY <1>5, CallType DEF TaskEnds, Off, Busy, disk
<1>6. QED
  BY <1>1, <1>2, <1>3, <1>4, <1>5 DEF Install

\* The engines that a start chose are all there is to try.
LEMMA TriesStep ==
    ASSUME TypeOK, LocksAreHeld, TaskIsTold, TriesAll, [Next]_vars
    PROVE  TriesAll'
<1> DEFINE Tasked(h) == Busy(h) /\ ~Stray(h) => ToTry(task[h].todo)
           Tries(d) == call[d].todo # {} => ToTry(call[d].todo)
           All == (\A h \in Holder : Tasked(h)) /\ \A d \in Caller : Tries(d)
<1> SUFFICES ASSUME pick' = "auto" PROVE All'
  BY DEF TriesAll
<1>0. call \in [Caller -> Calls] /\ task \in [Holder -> TaskType]
  BY CallType
<1>1. hw' = hw /\ Good' = Good
  BY GoodStays
<1>2. pick = "auto" => All
  BY DEF TriesAll
<1>3. ASSUME NEW c \in Caller, Save(c) PROVE All'
  <2>1. call[c].op = "select" /\ call[c].at = "save" /\ picking = c /\ ~Live /\ task' = task
    BY <1>3 DEF Save, LocksAreHeld, job
  <2>2. \A d \in Caller : call[d].todo = {}
    <3>1. SUFFICES ASSUME NEW d \in Caller, call[d].todo # {} PROVE FALSE
      OBVIOUS
    <3>2. call[d].op = "start" /\ picking = d
      BY <3>1 DEF TaskIsTold, LocksAreHeld
    <3>3. QED
      BY <2>1, <3>2
  <2>3. Return(c)
    BY <1>3 DEF Save
  <2>4. call'[c].todo = {} /\ \A d \in Caller \ {c} : call'[d] = call[d]
    BY <2>3, ReturnFacts
  <2>5. \A d \in Caller : call'[d].todo = {}
    BY <2>2, <2>4
  <2>6. ASSUME NEW h \in Holder, Busy(h)' PROVE Stray(h)'
    <3>1. h \in Caller /\ task[h].at # "off"
      BY <2>1, <2>6 DEF Busy, Live, Holder
    <3>2. call[h].at = "stray"
      BY <2>1, <3>1 DEF LocksAreHeld
    <3>3. QED
      BY <2>1, <2>4, <3>1, <3>2 DEF Stray
  <2>7. QED
    BY <2>5, <2>6
<1>4. ASSUME pick = "auto", failed' = failed,
             \A d \in Caller : call'[d].todo \in {call[d].todo, {}},
             \A h \in Holder : Busy(h)' /\ ~Stray(h)' => Busy(h) /\ ~Stray(h) /\ task'[h].todo = task[h].todo
      PROVE  All'
  BY <1>1, <1>2, <1>4 DEF ToTry
<1>5. ASSUME NEW c \in Caller, Choose(c) PROVE All'
  <2>1. pick = "auto" /\ failed' = failed /\ task' = task /\ failed \in SUBSET Downloaded
    BY <1>5 DEF Choose, disk, job, TypeOK
  <2>2. "auto" \notin Choices(hw, failed)
    BY <2>1, ChoicesFacts DEF Tried, Downloaded
  <2>3. call'[c].todo = From(AutoEngine(hw, failed), hw, failed) /\ call'[c].at = call[c].at
    BY <1>0, <1>5, <2>1, <2>2 DEF Choose, EngineToRun, Calls
  <2>4. ToTry(call'[c].todo)
    BY <2>1, <2>3, AutoTriesAll
  <2>5. \A d \in Caller \ {c} : call'[d] = call[d]
    BY <1>0, <1>5 DEF Choose
  <2>6. ASSUME NEW h \in Holder PROVE Tasked(h)'
    BY <1>1, <1>2, <2>1, <2>3, <2>5 DEF ToTry, Busy, Stray
  <2>7. QED
    BY <1>1, <1>2, <2>1, <2>4, <2>5, <2>6 DEF ToTry
<1>6. ASSUME NEW c \in Caller, NEW room \in BOOLEAN, Start(c, room) PROVE All'
  <2>1. /\ pick = "auto" /\ failed' = failed /\ Return(c) /\ call[c].at = "locked"
        /\ task' = task \/ task' = [task EXCEPT ![None] = [at |-> "next", todo |-> call[c].todo]]
    BY <1>6 DEF Start, job
  <2>2. call[c].todo # {}
    BY <1>6 DEF Start, TaskIsTold
  <2>3. /\ call'[c].todo = {} /\ call'[c].at = "off"
        /\ \A d \in Caller \ {c} : call'[d] = call[d]
    BY <2>1, ReturnFacts
  <2>4. \A d \in Caller : Tries(d)'
    BY <1>1, <1>2, <2>1, <2>3 DEF ToTry
  <2>5. ASSUME NEW h \in Holder, task'[h] = task[h] PROVE Tasked(h)'
    BY <1>1, <1>2, <2>1, <2>3, <2>5 DEF ToTry, Busy, Stray
  <2>6. ASSUME task'[None].todo = call[c].todo PROVE Tasked(None)'
    BY <1>1, <1>2, <2>1, <2>2, <2>6 DEF ToTry
  <2>7. task' = task \/ (task'[None].todo = call[c].todo /\ \A h \in Caller : task'[h] = task[h])
    BY <1>0, <2>1, EngineAssumption DEF Holder
  <2>8. QED
    BY <2>4, <2>5, <2>6, <2>7 DEF Holder
<1>7. ASSUME NEW c \in Caller, PauseTake(c) PROVE All'
  <2>1. pick = "auto" /\ failed' = failed /\ call[c].at = "locked"
    BY <1>7 DEF PauseTake, disk
  <2>2. /\ call'[c].todo \in {call[c].todo, {}} /\ call'[c].at # "stray"
        /\ \A d \in Caller \ {c} : call'[d] = call[d]
    BY <1>7, GotoFacts, ReturnFacts DEF PauseTake, Points
  <2>3. CASE task' = task
    BY <1>4, <2>1, <2>2, <2>3 DEF Busy, Stray
  <2>4. CASE task' = [task EXCEPT ![None] = Off, ![c] = task[None]]
    <3>1. /\ task'[None].at = "off" /\ task'[c] = task[None]
          /\ \A h \in Caller \ {c} : task'[h] = task[h]
      BY <1>0, <2>4, EngineAssumption DEF Off, Holder
    <3>2. Busy(None) => ToTry(task[None].todo)
      BY <1>2, <2>1, EngineAssumption DEF Stray, Holder
    <3>3. Tasked(c)'
      BY <1>1, <2>1, <3>1, <3>2 DEF ToTry, Busy
    <3>4. Tasked(None)'
      BY <3>1 DEF Busy
    <3>5. ASSUME NEW h \in Caller \ {c} PROVE Tasked(h)'
      BY <1>1, <1>2, <2>1, <2>2, <3>1 DEF ToTry, Busy, Stray, Holder
    <3>6. \A d \in Caller : Tries(d)'
      BY <1>1, <1>2, <2>1, <2>2 DEF ToTry
    <3>7. QED
      BY <3>3, <3>4, <3>5, <3>6 DEF Holder
  <2>5. QED
    BY <1>7, <2>3, <2>4 DEF PauseTake
<1>8. ASSUME NEW c \in Caller,
             \/ \E op \in {"select", "start", "pause", "delete"}, e \in Picks : Request(c, op, e)
             \/ LockPicking(c) \/ Lock(c) \/ Select(c) \/ PauseDone(c) \/ Leave(c)
             \/ DeleteLook(c) \/ DeleteOne(c) \/ DeleteDone(c) \/ DeleteFails(c)
      PROVE  All'
  <2>1. pick = "auto" /\ task' = task /\ failed' = failed /\ call[c].at # "stray"
    BY <1>8 DEF Request, LockPicking, Lock, Select, PauseDone, Leave, DeleteLook, DeleteOne,
                DeleteDone, DeleteFails, disk, job
  <2>2. \A d \in Caller \ {c} : call'[d] = call[d]
    BY <1>8, RequestStep DEF Serve
  <2>3. ASSUME NEW op, NEW e, Request(c, op, e) PROVE call'[c].todo = {}
    BY <1>0, <2>3 DEF Request
  <2>4. ASSUME ~\E op \in {"select", "start", "pause", "delete"}, e \in Picks : Request(c, op, e)
        PROVE  Return(c) \/ call' = call \/ \E point \in Points : Goto(c, point)
    BY <1>8, <2>4 DEF LockPicking, Lock, Select, PauseDone, Leave, DeleteLook, DeleteOne,
                DeleteDone, DeleteFails, SameCalls, Points
  <2>5. call'[c].todo \in {call[c].todo, {}}
    BY <2>3, <2>4, GotoFacts, ReturnFacts
  <2>6. \A h \in Holder : Busy(h)' /\ ~Stray(h)' => Busy(h) /\ ~Stray(h) /\ task'[h].todo = task[h].todo
    BY <2>1, <2>2 DEF Busy, Stray
  <2>7. QED
    BY <1>4, <2>1, <2>2, <2>5, <2>6
<1>9. ASSUME NEW h \in Holder, Install(h) PROVE All'
  <2>1. /\ pick = "auto" /\ (Busy(h)' => Busy(h))
        /\ \A i \in Holder \ {h} : task'[i] = task[i]
    BY <1>9, InstallFacts
  <2>2. \A d \in Caller : call'[d] = call[d] \/ (call'[d] = NoCall /\ d = h /\ ~Busy(h))
    BY <1>0, <1>9, InstallFacts DEF TaskEnds, Busy
  <2>3. \A d \in Caller : call'[d].todo \in {call[d].todo, {}}
    BY <2>2 DEF NoCall
  <2>4. \A i \in Holder : Busy(i)' /\ ~Stray(i)' => Busy(i) /\ ~Stray(i)
    BY <2>1, <2>2 DEF Busy, Stray
  <2>5. CASE ~Mark(h)
    <3>1. failed' = failed /\ (Busy(h)' => task'[h].todo = task[h].todo)
      BY <1>9, <2>5, TodoStays
    <3>2. QED
      BY <1>4, <2>1, <2>3, <2>4, <3>1
  <2>6. CASE Mark(h)
    <3>1. task'[h].todo = task[h].todo \ {Now(h)} /\ failed' = failed \union {Now(h)}
      BY <1>0, <2>6 DEF Mark
    <3>2. ASSUME NEW todo, ToTry(todo) PROVE todo \subseteq Good' /\ Good' \subseteq todo \union failed'
      BY <1>1, <3>1, <3>2 DEF ToTry
    <3>3. ASSUME NEW i \in Holder PROVE Tasked(i)'
      <4>1. CASE i = h
        BY <1>1, <1>2, <2>1, <2>4, <3>1, <4>1 DEF ToTry
      <4>2. CASE i # h
        BY <1>1, <1>2, <2>1, <2>4, <3>1, <4>2 DEF ToTry
      <4>3. QED
        BY <4>1, <4>2
    <3>4. ASSUME NEW d \in Caller PROVE Tries(d)'
      BY <1>1, <1>2, <2>1, <2>3, <3>1 DEF ToTry
    <3>5. QED
      BY <3>3, <3>4
  <2>7. QED
    BY <2>5, <2>6
<1>10. CASE Crash
  BY <1>10 DEF Crash, NoCall, NoTask, Off, Busy
<1>11. CASE UNCHANGED vars
  BY <1>4, <1>11 DEF vars, Busy, Stray
<1>12. QED
  BY <1>3, <1>5, <1>6, <1>7, <1>8, <1>9, <1>10, <1>11 DEF Next, Serve

-----------------------------------------------------------------------------
(* The theorems.                                                           *)

\* EngineInv is inductive: it holds when the daemon starts with an empty disk or an
\* older engine, and every step of a request, of an install or of a crash keeps it.
LEMMA InvInit == Init => EngineInv
<1> SUFFICES ASSUME Init PROVE EngineInv
  OBVIOUS
<1>0. \A h \in Holder : task[h].at = "off" /\ ~Busy(h)
  BY DEF Init, NoTask, Off, Busy
<1>1. TypeOK
  <2>1. [engine |-> "vulkan", tag |-> "older", checked |-> TRUE] \in Dir
    BY DEF Dir, Downloaded
  <2>2. NoCall \in Calls
    BY DEF NoCall, Calls, Points
  <2>3. 0 \in 0 .. Files
    BY EngineAssumption
  <2>4. Is("idle", None) \in State
    BY DEF Is, State
  <2>5. dirs \subseteq Dir
    BY <2>1 DEF Init
  <2>6. QED
    BY <2>2, <2>3, <2>4, <2>5 DEF Init, TypeOK, NoTask, Off, Calls, Points
<1>2. LocksAreHeld
  BY <1>0 DEF Init, NoCall, LocksAreHeld, Holder
<1>3. TaskIsTold /\ TriesAll /\ OneAtWork
  BY <1>0 DEF Init, NoCall, Is, Running, TaskIsTold, TriesAll, OneAtWork
<1>4. OnlyChecked
  BY <1>0 DEF Init, OnlyChecked
<1>5. QED
  BY <1>1, <1>2, <1>3, <1>4 DEF EngineInv

\* Every step of the program keeps EngineInv, which joins the lemmas above.
LEMMA InvStep == EngineInv /\ [Next]_vars => EngineInv'
BY TypeStep, LocksStep, OneStep, CheckedStep, ToldStep, TriesStep DEF EngineInv

\* The locks, the engine folders, the state and the installs agree, whatever the
\* computer tells, however requests, installs and crashes interleave and whichever
\* request is dropped; one install is at work and what is in place was checked, until
\* an install begins beside one whose pause was dropped, or beside such a delete.
THEOREM InvHolds == Spec => []EngineInv
<1>1. QED
  BY InvInit, InvStep, PTL DEF Spec

\* Type correctness.
THEOREM TypeCorrect == Spec => []TypeOK
<1>1. EngineInv => TypeOK
  BY DEF EngineInv
<1>2. QED
  BY <1>1, InvHolds, PTL

\* Only a delete leaves the computer without an engine, unless two installs were at
\* work at once: an install moves the new build into place before it removes the old ones.
THEOREM KeepsAnEngineHolds == Spec => KeepsAnEngine
<1> DEFINE Keeps == (dirs # {} /\ dirs' = {}) => Deletes \/ beside
<1>1. ASSUME EngineInv, [Next]_vars PROVE Keeps
  <2>1. CASE dirs' = dirs
    BY <2>1
  <2>2. ASSUME NEW c \in Caller, DeleteOne(c) PROVE Keeps
    BY <2>2 DEF DeleteOne, Deletes
  <2>3. ASSUME NEW h \in Holder, Move(h) PROVE Keeps
    BY <2>3 DEF Move
  <2>4. ASSUME NEW h \in Holder, Sweep(h), ~beside PROVE Keeps
    <3>1. task[h].at = "sweep"
      BY <2>4 DEF Sweep
    <3>2. PICK d \in dirs : d.engine = Now(h) /\ d.tag = "pinned"
      BY <1>1, <2>4, <3>1 DEF EngineInv, OnlyChecked
    <3>3. d \in dirs'
      BY <2>4, <3>2 DEF Sweep, Others
    <3>4. QED
      BY <3>3
  <2>5. ASSUME NEW h \in Holder, Install(h), ~Move(h), ~Sweep(h) PROVE dirs' = dirs
    BY <2>5 DEF Install, Try, Fetched, Fails, Paused, AllFetched, Unpacked, CheckEnds, Discarded, Mark,
       TaskEnds, disk
  <2>6. QED
    BY <1>1, <2>1, <2>2, <2>3, <2>4, <2>5 DEF Next, Serve, Request, LockPicking, Lock, Choose,
       Select, Save, Start, PauseTake, PauseDone, Leave, DeleteLook, DeleteDone, DeleteFails, Crash,
       disk, vars
<1>2. QED
  BY <1>1, InvHolds, PTL DEF Spec, KeepsAnEngine

\* An install that ends well is done with the engine it was at.
LEMMA EndsNow ==
    ASSUME EngineInv, [Next]_vars, NEW h \in Holder, Ends(h)
    PROVE  state'.of = Now(h) /\ pick' = pick
<1>0. task[h].at \in {"next", "sweep"} /\ task'[h].at = "ending" /\ state'.is = "done" /\ TypeOK /\ LocksAreHeld
  BY DEF Ends, EngineInv
<1>1. ASSUME NEW c \in Caller,
             \/ \E op \in {"select", "start", "pause", "delete"}, e \in Picks : Request(c, op, e)
             \/ LockPicking(c) \/ Lock(c) \/ Serve(c)
      PROVE  FALSE
  <2>1. task \in [Holder -> TaskType]
    BY <1>0, CallType
  <2>2. CASE task' = task
    BY <1>0, <2>2
  <2>3. ASSUME NEW room \in BOOLEAN, Start(c, room) PROVE FALSE
    <3>1. task' = task \/ (task'[None].at = "next" /\ \A d \in Caller : task'[d] = task[d])
      BY <2>1, <2>3, EngineAssumption DEF Start, job, Holder
    <3>2. QED
      BY <1>0, <3>1 DEF Holder
  <2>4. ASSUME PauseTake(c) PROVE FALSE
    <3>1. task[c].at = "off"
      BY <1>0, <2>4 DEF PauseTake, LocksAreHeld
    <3>2. task' = task \/ (task'[None].at = "off" /\ \A d \in Caller \ {c} : task'[d] = task[d])
      BY <2>1, <2>4, EngineAssumption DEF PauseTake, Off, Holder
    <3>3. QED
      BY <1>0, <3>1, <3>2 DEF Holder
  <2>5. QED
    BY <1>1, <2>2, <2>3, <2>4 DEF Request, LockPicking, Lock, Serve, Choose, Select, Save, PauseDone, Leave,
       DeleteLook, DeleteOne, DeleteDone, DeleteFails, job
<1>2. ASSUME NEW i \in Holder, Install(i) PROVE state'.of = Now(h) /\ pick' = pick
  <2>1. i = h /\ pick' = pick
    BY <1>0, <1>2, InstallFacts
  <2>2. CASE Try(h)
    <3>1. task[h].todo # {}
      BY <1>0, <2>2 DEF Try, EngineInv, TaskIsTold, Busy
    <3>2. Now(h) \in Bundled
      <4>1. SUFFICES ASSUME Now(h) \notin Bundled PROVE task'[h].at = "fetch"
        BY <1>0
      <4>2. Step(h, "next", "fetch")
        BY <2>2, <3>1, <4>1 DEF Try
      <4>3. QED
        BY <1>0, <4>2, StepFacts DEF Tasks
    <3>3. QED
      BY <2>1, <2>2, <3>1, <3>2 DEF Try, Is
  <2>3. CASE Sweep(h)
    BY <1>0, <2>1, <2>3 DEF Sweep, Is
  <2>4. CASE ~Try(h) /\ ~Sweep(h)
    BY <1>0, <1>2, <2>1, <2>4 DEF Install, Fetched, Fails, Paused, AllFetched, Unpacked, CheckEnds, Discarded,
       Mark, Move, TaskEnds, Step, Is
  <2>5. QED
    BY <2>1, <2>2, <2>3, <2>4
<1>3. CASE Crash
  BY <1>0, <1>3 DEF Crash, NoTask, Off
<1>4. CASE UNCHANGED vars
  BY <1>0, <1>4 DEF vars
<1>5. QED
  BY <1>1, <1>2, <1>3, <1>4 DEF Next

\* With no engine picked, an install whose pause was not dropped ends with the engine
\* that Tiles would run on this computer: of those that suit it and are not marked,
\* the foremost.
THEOREM SettlesHolds == Spec => Settles
<1> DEFINE Ran == \A h \in Holder :
                      Ends(h) /\ ~Stray(h) /\ pick = "auto"
                          => EngineToRun(pick, hw, failed \ {state'.of}) = state'.of
<1>1. ASSUME EngineInv, [Next]_vars PROVE Ran
  <2> SUFFICES ASSUME NEW h \in Holder, Ends(h), ~Stray(h), pick = "auto"
               PROVE  EngineToRun(pick, hw, failed \ {state'.of}) = state'.of
    OBVIOUS
  <2>1. Busy(h)
    BY DEF Ends, Busy
  <2>2. state'.of = Now(h)
    BY <1>1, EndsNow
  <2>3. Now(h) \in task[h].todo /\ \A d \in task[h].todo : Rank(Now(h)) <= Rank(d)
    BY <1>1, <2>1, NowFacts DEF EngineInv
  <2>4. task[h].todo \subseteq Good /\ Good \subseteq task[h].todo \union failed /\ failed \in SUBSET Downloaded
    BY <1>1, <2>1 DEF EngineInv, TriesAll, ToTry, TypeOK
  <2> DEFINE S == {e \in Choices(hw, failed \ {Now(h)}) : Suits(e, hw)}
  <2>5. /\ Choices(hw, {}) = {e \in Tried : CanRun(e, hw)}
        /\ Choices(hw, failed \ {Now(h)}) = {e \in Tried : CanRun(e, hw) /\ e \notin failed \ {Now(h)}}
    BY <2>4, ChoicesFacts
  <2>6. S \in SUBSET Tried /\ Now(h) \in S /\ \A d \in S : Rank(Now(h)) <= Rank(d)
    BY <2>3, <2>4, <2>5 DEF Good
  <2>7. AutoEngine(hw, failed \ {Now(h)}) = Now(h)
    BY <2>6, ForemostIs DEF AutoEngine
  <2>8. "auto" \notin Choices(hw, failed \ {Now(h)})
    BY <2>5 DEF Tried, Downloaded
  <2>9. QED
    BY <2>2, <2>7, <2>8 DEF EngineToRun
<1>2. QED
  BY <1>1, InvHolds, PTL DEF Spec, Settles
=============================================================================
