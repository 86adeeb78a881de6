------------------------ MODULE InferenceServerProof ------------------------
(***************************************************************************)
(* Theorems about InferenceServer and their proofs.                        *)
(***************************************************************************)
EXTENDS InferenceServer, TLAPS

Points == {"off", "flock", "look", "file", "leftover", "unlink", "spawn", "ready",
           "ping", "term", "exit", "clean", "cleaned"}
Calls == [op : {"start", "stop"}, pid : Pid \union {None}, at : Points]
Llamas == [is : Goes \union {"none"}, model : Model \union {None}]
Requests == [at : {"off", "ensure", "locked", "spawn", "wait", "stream"},
             model : Model \union {None}, of : Pid \union {None}]

-----------------------------------------------------------------------------
(* What the steps of a start or a stop do to its record.                   *)

\* The types of the calls and of the model requests, by their names.
LEMMA CallType ==
    TypeOK => call \in [Caller -> Calls] /\ req \in [Request -> Requests]
BY DEF TypeOK, Calls, Points, Requests

\* It goes on, with the pid it has or one that it found.
LEMMA GotoFacts ==
    ASSUME TypeOK, NEW c \in Caller, NEW point \in Points, Goto(c, point)
    PROVE  /\ call' \in [Caller -> Calls] /\ flock' = flock
           /\ call'[c].at = point /\ call'[c].op = call[c].op /\ call'[c].pid = call[c].pid
           /\ \A d \in Caller \ {c} : call'[d] = call[d]
BY CallType DEF Goto, Calls

\* It goes on with a pid that it found or spawned.
LEMMA HoldingFacts ==
    ASSUME TypeOK, NEW c \in Caller, NEW pid \in Pid, NEW point \in Points, Holding(c, pid, point)
    PROVE  /\ call' \in [Caller -> Calls] /\ flock' = flock
           /\ call'[c].at = point /\ call'[c].op = call[c].op /\ call'[c].pid = pid
           /\ \A d \in Caller \ {c} : call'[d] = call[d]
BY CallType DEF Holding, Calls

\* It answers, and lets go of the file lock.
LEMMA ReturnFacts ==
    ASSUME TypeOK, NEW c \in Caller, Return(c)
    PROVE  /\ call' \in [Caller -> Calls] /\ flock' = None
           /\ call'[c].at = "off" /\ call'[c].pid = None
           /\ \A d \in Caller \ {c} : call'[d] = call[d]
BY CallType DEF Return, NoCall, Calls, Points

-----------------------------------------------------------------------------
(* The types.                                                              *)

\* Every step keeps the types of the starts and stops.
LEMMA CallsTyped ==
    ASSUME TypeOK, [Next]_vars
    PROVE  call' \in [Caller -> Calls] /\ flock' \in Caller \union {None}
<1> DEFINE Typed == call \in [Caller -> Calls] /\ flock \in Caller \union {None}
<1>0. Typed
  BY CallType DEF TypeOK
<1>1. ASSUME NEW c \in Caller, NEW op \in {"start", "stop"}, Ask(c, op) PROVE Typed'
  <2>1. [op |-> op, at |-> "flock", pid |-> None] \in Calls
    BY DEF Calls, Points
  <2>2. QED
    BY <1>1, <1>0, <2>1 DEF Ask
<1>2. ASSUME NEW c \in Caller, Flock(c) PROVE Typed'
  <2>1. \A point \in {"look", "file"} : [call[c] EXCEPT !.at = point] \in Calls
    BY <1>0, <1>0 DEF Calls, Points
  <2>2. QED
    BY <1>2, <1>0, <2>1 DEF Flock
<1>3. ASSUME NEW c \in Caller, NEW answer \in Pings, Look(c, answer) PROVE Typed'
  BY <1>3, <1>0, GotoFacts, HoldingFacts, ReturnFacts DEF Look, NotTold, Points, TypeOK, servers, models
<1>4. ASSUME NEW c \in Caller, ReadFile(c) PROVE Typed'
  BY <1>4, <1>0, GotoFacts, HoldingFacts, ReturnFacts DEF ReadFile, NotTold, Points, TypeOK, servers, models
<1>5. ASSUME NEW c \in Caller, RemoveRead(c) PROVE Typed'
  BY <1>5, <1>0, GotoFacts, HoldingFacts, ReturnFacts DEF RemoveRead, NotTold, Points, TypeOK, servers, models
<1>6. ASSUME NEW c \in Caller, RemoveUnlink(c) PROVE Typed'
  BY <1>6, <1>0, GotoFacts, HoldingFacts, ReturnFacts DEF RemoveUnlink, NotTold, Points, TypeOK, servers, models
<1>7. ASSUME NEW c \in Caller, Spawn(c) PROVE Typed'
  BY <1>7, <1>0, GotoFacts, HoldingFacts, ReturnFacts DEF Spawn, NotTold, Points, TypeOK, servers, models
<1>8. ASSUME NEW c \in Caller, WaitReady(c) PROVE Typed'
  BY <1>8, <1>0, GotoFacts, HoldingFacts, ReturnFacts DEF WaitReady, NotTold, Points, TypeOK, servers, models
<1>9. ASSUME NEW c \in Caller, StopPing(c) PROVE Typed'
  BY <1>9, <1>0, GotoFacts, HoldingFacts, ReturnFacts DEF StopPing, NotTold, Points, TypeOK, servers, models
<1>10. ASSUME NEW c \in Caller, Terminate(c) PROVE Typed'
  BY <1>10, <1>0, GotoFacts, HoldingFacts, ReturnFacts DEF Terminate, NotTold, Points, TypeOK, servers, models
<1>11. ASSUME NEW c \in Caller, Exited(c) PROVE Typed'
  BY <1>11, <1>0, GotoFacts, HoldingFacts, ReturnFacts DEF Exited, NotTold, Points, TypeOK, servers, models
<1>12. ASSUME NEW c \in Caller, ForceKill(c) PROVE Typed'
  BY <1>12, <1>0, GotoFacts, HoldingFacts, ReturnFacts DEF ForceKill, NotTold, Points, TypeOK, servers, models
<1>13. ASSUME NEW d, DaemonDies(d) PROVE Typed'
  <2>1. NoCall \in Calls
    BY DEF NoCall, Calls, Points
  <2>2. QED
    BY <1>13, <1>0, <2>1 DEF DaemonDies
<1>14. ASSUME NEW p \in Pid, Bind(p) PROVE Typed'
  BY <1>14, <1>0 DEF Bind, calls, servers, models, SameServers
<1>15. ASSUME NEW p \in Pid, WriteFile(p) PROVE Typed'
  BY <1>15, <1>0 DEF WriteFile, calls, servers, models, SameServers
<1>16. ASSUME NEW p \in Pid, StopBackend(p) PROVE Typed'
  BY <1>16, <1>0 DEF StopBackend, calls, servers, models, SameServers
<1>17. ASSUME NEW p \in Pid, Leave(p) PROVE Typed'
  BY <1>17, <1>0 DEF Leave, calls, servers, models, SameServers
<1>18. ASSUME NEW p \in Pid, Unlink(p) PROVE Typed'
  BY <1>18, <1>0 DEF Unlink, calls, servers, models, SameServers
<1>19. ASSUME NEW p \in Pid, Crash(p) PROVE Typed'
  BY <1>19, <1>0 DEF Crash, calls, servers, models, SameServers
<1>20. ASSUME NEW p \in Pid, Reap(p) PROVE Typed'
  BY <1>20, <1>0 DEF Reap, calls, servers, models, SameServers
<1>21. ASSUME NEW p \in Pid, Reuse(p) PROVE Typed'
  BY <1>21, <1>0 DEF Reuse, calls, servers, models, SameServers
<1>22. ASSUME NEW r \in Request, NEW m \in Model, Wants(r, m) PROVE Typed'
  BY <1>22, <1>0 DEF Wants, calls, servers, models, SameServers
<1>23. ASSUME NEW r \in Request, Ensure(r) PROVE Typed'
  BY <1>23, <1>0 DEF Ensure, calls, servers, models, SameServers
<1>24. ASSUME NEW r \in Request, Compare(r) PROVE Typed'
  BY <1>24, <1>0 DEF Compare, calls, servers, models, SameServers
<1>25. ASSUME NEW r \in Request, SpawnLlama(r) PROVE Typed'
  BY <1>25, <1>0 DEF SpawnLlama, calls, servers, models, SameServers
<1>26. ASSUME NEW r \in Request, Ready(r) PROVE Typed'
  BY <1>26, <1>0 DEF Ready, calls, servers, models, SameServers
<1>27. ASSUME NEW r \in Request, NotReady(r) PROVE Typed'
  BY <1>27, <1>0 DEF NotReady, calls, servers, models, SameServers
<1>28. ASSUME NEW r \in Request, Stream(r) PROVE Typed'
  BY <1>28, <1>0 DEF Stream, calls, servers, models, SameServers
<1>29. ASSUME NEW p \in Pid, LlamaBind(p) PROVE Typed'
  BY <1>29, <1>0 DEF LlamaBind, calls, servers, models, SameServers
<1>30. ASSUME NEW p \in Pid, LlamaLoads(p) PROVE Typed'
  BY <1>30, <1>0 DEF LlamaLoads, calls, servers, models, SameServers
<1>31. ASSUME NEW p \in Pid, LlamaDies(p) PROVE Typed'
  BY <1>31, <1>0 DEF LlamaDies, calls, servers, models, SameServers
<1>32. ASSUME UNCHANGED vars PROVE Typed'
  BY <1>32, <1>0 DEF vars
<1>33. QED
  BY <1>1, <1>2, <1>3, <1>4, <1>5, <1>6, <1>7, <1>8, <1>9, <1>10, <1>11,
     <1>12, <1>13, <1>14, <1>15, <1>16, <1>17, <1>18, <1>19, <1>20,
     <1>21, <1>22, <1>23, <1>24, <1>25, <1>26, <1>27, <1>28, <1>29,
     <1>30, <1>31, <1>32 DEF Next, Serve, Server, Load

\* Every step keeps the types of the processes and of the pid file.
LEMMA ProcsTyped ==
    ASSUME TypeOK, [Next]_vars
    PROVE  proc' \in [Pid -> Process] /\ file' \in Pid \union {None}
<1> DEFINE Typed == proc \in [Pid -> Process] /\ file \in Pid \union {None}
<1>0. Typed
  BY DEF TypeOK
<1>1. ASSUME NEW c \in Caller, NEW op \in {"start", "stop"}, Ask(c, op) PROVE Typed'
  BY <1>1, <1>0 DEF Ask, servers
<1>2. ASSUME NEW c \in Caller, Flock(c) PROVE Typed'
  BY <1>2, <1>0 DEF Flock, servers
<1>3. ASSUME NEW c \in Caller, NEW answer \in Pings, Look(c, answer) PROVE Typed'
  BY <1>3, <1>0 DEF Look, servers
<1>4. ASSUME NEW c \in Caller, ReadFile(c) PROVE Typed'
  BY <1>4, <1>0 DEF ReadFile, servers
<1>5. ASSUME NEW c \in Caller, RemoveRead(c) PROVE Typed'
  BY <1>5, <1>0 DEF RemoveRead, Becomes, calls, servers, models, SameServers
<1>6. ASSUME NEW c \in Caller, RemoveUnlink(c) PROVE Typed'
  BY <1>6, <1>0 DEF RemoveUnlink, Becomes, calls, servers, models, SameServers
<1>7. ASSUME NEW c \in Caller, Spawn(c) PROVE Typed'
  BY <1>7, <1>0 DEF Spawn, Up, Process
<1>8. ASSUME NEW c \in Caller, WaitReady(c) PROVE Typed'
  BY <1>8, <1>0 DEF WaitReady, Becomes, calls, servers, models, SameServers
<1>9. ASSUME NEW c \in Caller, StopPing(c) PROVE Typed'
  BY <1>9, <1>0 DEF StopPing, Becomes, calls, servers, models, SameServers
<1>10. ASSUME NEW c \in Caller, Terminate(c) PROVE Typed'
  BY <1>10, <1>0 DEF Terminate, Up, Process
<1>11. ASSUME NEW c \in Caller, Exited(c) PROVE Typed'
  BY <1>11, <1>0 DEF Exited, Becomes, calls, servers, models, SameServers
<1>12. ASSUME NEW c \in Caller, ForceKill(c) PROVE Typed'
  BY <1>12, <1>0 DEF ForceKill, Up, Process
<1>13. ASSUME NEW d, DaemonDies(d) PROVE Typed'
  BY <1>13, <1>0 DEF DaemonDies, Becomes, calls, servers, models, SameServers
<1>14. ASSUME NEW p \in Pid, Bind(p) PROVE Typed'
  BY <1>14, <1>0 DEF Bind, Becomes, Up, Process
<1>15. ASSUME NEW p \in Pid, WriteFile(p) PROVE Typed'
  BY <1>15, <1>0 DEF WriteFile, Becomes, Up, Process
<1>16. ASSUME NEW p \in Pid, StopBackend(p) PROVE Typed'
  BY <1>16, <1>0 DEF StopBackend, Becomes, Up, Process
<1>17. ASSUME NEW p \in Pid, Leave(p) PROVE Typed'
  BY <1>17, <1>0 DEF Leave, Becomes, Up, Process
<1>18. ASSUME NEW p \in Pid, Unlink(p) PROVE Typed'
  BY <1>18, <1>0 DEF Unlink, Becomes, Up, Process
<1>19. ASSUME NEW p \in Pid, Crash(p) PROVE Typed'
  BY <1>19, <1>0 DEF Crash, Becomes, Up, Process
<1>20. ASSUME NEW p \in Pid, Reap(p) PROVE Typed'
  BY <1>20, <1>0 DEF Reap, Becomes, Up, Process
<1>21. ASSUME NEW p \in Pid, Reuse(p) PROVE Typed'
  BY <1>21, <1>0 DEF Reuse, Becomes, Up, Process
<1>22. ASSUME NEW r \in Request, NEW m \in Model, Wants(r, m) PROVE Typed'
  BY <1>22, <1>0 DEF Wants, Becomes, calls, servers, models, SameServers
<1>23. ASSUME NEW r \in Request, Ensure(r) PROVE Typed'
  BY <1>23, <1>0 DEF Ensure, Becomes, calls, servers, models, SameServers
<1>24. ASSUME NEW r \in Request, Compare(r) PROVE Typed'
  BY <1>24, <1>0 DEF Compare, Becomes, calls, servers, models, SameServers
<1>25. ASSUME NEW r \in Request, SpawnLlama(r) PROVE Typed'
  BY <1>25, <1>0 DEF SpawnLlama, Becomes, calls, servers, models, SameServers
<1>26. ASSUME NEW r \in Request, Ready(r) PROVE Typed'
  BY <1>26, <1>0 DEF Ready, Becomes, calls, servers, models, SameServers
<1>27. ASSUME NEW r \in Request, NotReady(r) PROVE Typed'
  BY <1>27, <1>0 DEF NotReady, Becomes, calls, servers, models, SameServers
<1>28. ASSUME NEW r \in Request, Stream(r) PROVE Typed'
  BY <1>28, <1>0 DEF Stream, Becomes, calls, servers, models, SameServers
<1>29. ASSUME NEW p \in Pid, LlamaBind(p) PROVE Typed'
  BY <1>29, <1>0 DEF LlamaBind, Becomes, calls, servers, models, SameServers
<1>30. ASSUME NEW p \in Pid, LlamaLoads(p) PROVE Typed'
  BY <1>30, <1>0 DEF LlamaLoads, Becomes, calls, servers, models, SameServers
<1>31. ASSUME NEW p \in Pid, LlamaDies(p) PROVE Typed'
  BY <1>31, <1>0 DEF LlamaDies, Becomes, calls, servers, models, SameServers
<1>32. ASSUME UNCHANGED vars PROVE Typed'
  BY <1>32, <1>0 DEF vars
<1>33. QED
  BY <1>1, <1>2, <1>3, <1>4, <1>5, <1>6, <1>7, <1>8, <1>9, <1>10, <1>11,
     <1>12, <1>13, <1>14, <1>15, <1>16, <1>17, <1>18, <1>19, <1>20,
     <1>21, <1>22, <1>23, <1>24, <1>25, <1>26, <1>27, <1>28, <1>29,
     <1>30, <1>31, <1>32 DEF Next, Serve, Server, Load

\* Every step keeps the types of the llama-servers and of the model requests.
LEMMA ModelsTyped ==
    ASSUME TypeOK, [Next]_vars
    PROVE  /\ llama' \in [Pid -> Llamas] /\ loaded' \in [Pid -> Model \union {None}]
           /\ ensure' \in [Pid -> Request \union {None}] /\ req' \in [Request -> Requests]
<1> DEFINE Typed == /\ llama \in [Pid -> Llamas] /\ loaded \in [Pid -> Model \union {None}]
                    /\ ensure \in [Pid -> Request \union {None}] /\ req \in [Request -> Requests]
<1>0. Typed
  BY CallType DEF TypeOK, Llamas
<1>1. ASSUME NEW c \in Caller, NEW op \in {"start", "stop"}, Ask(c, op) PROVE Typed'
  BY <1>1, <1>0 DEF Ask, calls, servers, models, SameServers
<1>2. ASSUME NEW c \in Caller, Flock(c) PROVE Typed'
  BY <1>2, <1>0 DEF Flock, calls, servers, models, SameServers
<1>3. ASSUME NEW c \in Caller, NEW answer \in Pings, Look(c, answer) PROVE Typed'
  BY <1>3, <1>0 DEF Look, calls, servers, models, SameServers
<1>4. ASSUME NEW c \in Caller, ReadFile(c) PROVE Typed'
  BY <1>4, <1>0 DEF ReadFile, calls, servers, models, SameServers
<1>5. ASSUME NEW c \in Caller, RemoveRead(c) PROVE Typed'
  BY <1>5, <1>0 DEF RemoveRead, calls, servers, models, SameServers
<1>6. ASSUME NEW c \in Caller, RemoveUnlink(c) PROVE Typed'
  BY <1>6, <1>0 DEF RemoveUnlink, calls, servers, models, SameServers
<1>7. ASSUME NEW c \in Caller, Spawn(c) PROVE Typed'
  BY <1>7, <1>0 DEF Spawn, calls, servers, models, SameServers
<1>8. ASSUME NEW c \in Caller, WaitReady(c) PROVE Typed'
  BY <1>8, <1>0 DEF WaitReady, calls, servers, models, SameServers
<1>9. ASSUME NEW c \in Caller, StopPing(c) PROVE Typed'
  BY <1>9, <1>0 DEF StopPing, calls, servers, models, SameServers
<1>10. ASSUME NEW c \in Caller, Terminate(c) PROVE Typed'
  BY <1>10, <1>0 DEF Terminate, calls, servers, models, SameServers
<1>11. ASSUME NEW c \in Caller, Exited(c) PROVE Typed'
  BY <1>11, <1>0 DEF Exited, calls, servers, models, SameServers
<1>12. ASSUME NEW c \in Caller, ForceKill(c) PROVE Typed'
  BY <1>12, <1>0 DEF ForceKill, Drop, NoLlama, NoRequest, Requests, Llamas
<1>13. ASSUME NEW d, DaemonDies(d) PROVE Typed'
  BY <1>13, <1>0 DEF DaemonDies, calls, servers, models, SameServers
<1>14. ASSUME NEW p \in Pid, Bind(p) PROVE Typed'
  BY <1>14, <1>0 DEF Bind, calls, servers, models, SameServers
<1>15. ASSUME NEW p \in Pid, WriteFile(p) PROVE Typed'
  BY <1>15, <1>0 DEF WriteFile, calls, servers, models, SameServers
<1>16. ASSUME NEW p \in Pid, StopBackend(p) PROVE Typed'
  BY <1>16, <1>0 DEF StopBackend, NoLlama, Llamas
<1>17. ASSUME NEW p \in Pid, Leave(p) PROVE Typed'
  BY <1>17, <1>0 DEF Leave, calls, servers, models, SameServers
<1>18. ASSUME NEW p \in Pid, Unlink(p) PROVE Typed'
  BY <1>18, <1>0 DEF Unlink, calls, servers, models, SameServers
<1>19. ASSUME NEW p \in Pid, Crash(p) PROVE Typed'
  BY <1>19, <1>0 DEF Crash, Drop, NoLlama, NoRequest, Requests, Llamas
<1>20. ASSUME NEW p \in Pid, Reap(p) PROVE Typed'
  BY <1>20, <1>0 DEF Reap, calls, servers, models, SameServers
<1>21. ASSUME NEW p \in Pid, Reuse(p) PROVE Typed'
  BY <1>21, <1>0 DEF Reuse, calls, servers, models, SameServers
<1>22. ASSUME NEW r \in Request, NEW m \in Model, Wants(r, m) PROVE Typed'
  BY <1>22, <1>0 DEF Wants, Requests, SameServers
<1>23. ASSUME NEW r \in Request, Ensure(r) PROVE Typed'
  <2>1. req' \in [Request -> Requests]
    BY <1>23, <1>0 DEF Ensure, At, Answered, NoRequest, Requests
  <2>2. llama' \in [Pid -> Llamas] /\ loaded' \in [Pid -> Model \union {None}]
    BY <1>23, <1>0 DEF Ensure, NoLlama, Llamas, Requests, Goes
  <2>3. ensure' \in [Pid -> Request \union {None}]
    BY <1>23, <1>0 DEF Ensure, Answered, LetGo
  <2>4. QED
    BY <2>1, <2>2, <2>3
<1>24. ASSUME NEW r \in Request, Compare(r) PROVE Typed'
  <2>1. req' \in [Request -> Requests]
    BY <1>24, <1>0 DEF Compare, At, Answered, NoRequest, Requests
  <2>2. llama' \in [Pid -> Llamas] /\ loaded' \in [Pid -> Model \union {None}]
    BY <1>24, <1>0 DEF Compare, NoLlama, Llamas, Requests, Goes
  <2>3. ensure' \in [Pid -> Request \union {None}]
    BY <1>24, <1>0 DEF Compare, Answered, LetGo
  <2>4. QED
    BY <2>1, <2>2, <2>3
<1>25. ASSUME NEW r \in Request, SpawnLlama(r) PROVE Typed'
  <2>1. req' \in [Request -> Requests]
    BY <1>25, <1>0 DEF SpawnLlama, At, Answered, NoRequest, Requests
  <2>2. llama' \in [Pid -> Llamas] /\ loaded' \in [Pid -> Model \union {None}]
    BY <1>25, <1>0 DEF SpawnLlama, NoLlama, Llamas, Requests, Goes
  <2>3. ensure' \in [Pid -> Request \union {None}]
    BY <1>25, <1>0 DEF SpawnLlama, Answered, LetGo
  <2>4. QED
    BY <2>1, <2>2, <2>3
<1>26. ASSUME NEW r \in Request, Ready(r) PROVE Typed'
  <2>1. req' \in [Request -> Requests]
    BY <1>26, <1>0 DEF Ready, At, Answered, NoRequest, Requests
  <2>2. llama' \in [Pid -> Llamas] /\ loaded' \in [Pid -> Model \union {None}]
    BY <1>26, <1>0 DEF Ready, NoLlama, Llamas, Requests, Goes
  <2>3. ensure' \in [Pid -> Request \union {None}]
    BY <1>26, <1>0 DEF Ready, Answered, LetGo
  <2>4. QED
    BY <2>1, <2>2, <2>3
<1>27. ASSUME NEW r \in Request, NotReady(r) PROVE Typed'
  <2>1. req' \in [Request -> Requests]
    BY <1>27, <1>0 DEF NotReady, At, Answered, NoRequest, Requests
  <2>2. llama' \in [Pid -> Llamas] /\ loaded' \in [Pid -> Model \union {None}]
    BY <1>27, <1>0 DEF NotReady, NoLlama, Llamas, Requests, Goes
  <2>3. ensure' \in [Pid -> Request \union {None}]
    BY <1>27, <1>0 DEF NotReady, Answered, LetGo
  <2>4. QED
    BY <2>1, <2>2, <2>3
<1>28. ASSUME NEW r \in Request, Stream(r) PROVE Typed'
  <2>1. req' \in [Request -> Requests]
    BY <1>28, <1>0 DEF Stream, At, Answered, NoRequest, Requests
  <2>2. llama' \in [Pid -> Llamas] /\ loaded' \in [Pid -> Model \union {None}]
    BY <1>28, <1>0 DEF Stream, NoLlama, Llamas, Requests, Goes
  <2>3. ensure' \in [Pid -> Request \union {None}]
    BY <1>28, <1>0 DEF Stream, Answered, LetGo
  <2>4. QED
    BY <2>1, <2>2, <2>3
<1>29. ASSUME NEW p \in Pid, LlamaBind(p) PROVE Typed'
  BY <1>29, <1>0 DEF LlamaBind, NoLlama, Llamas, Goes, SameServers
<1>30. ASSUME NEW p \in Pid, LlamaLoads(p) PROVE Typed'
  BY <1>30, <1>0 DEF LlamaLoads, Llamas, Goes, SameServers
<1>31. ASSUME NEW p \in Pid, LlamaDies(p) PROVE Typed'
  BY <1>31, <1>0 DEF LlamaDies, NoLlama, Llamas, SameServers
<1>32. ASSUME UNCHANGED vars PROVE Typed'
  BY <1>32, <1>0 DEF vars
<1>33. QED
  BY <1>1, <1>2, <1>3, <1>4, <1>5, <1>6, <1>7, <1>8, <1>9, <1>10, <1>11,
     <1>12, <1>13, <1>14, <1>15, <1>16, <1>17, <1>18, <1>19, <1>20,
     <1>21, <1>22, <1>23, <1>24, <1>25, <1>26, <1>27, <1>28, <1>29,
     <1>30, <1>31, <1>32 DEF Next, Serve, Server, Load

\* Every step keeps the types.
LEMMA TypeStep ==
    ASSUME TypeOK, [Next]_vars
    PROVE  TypeOK'
<1>1. foreign' = foreign
  BY DEF Next, Ask, Flock, Serve, Look, ReadFile, RemoveRead, RemoveUnlink, Spawn, WaitReady, StopPing,
         Terminate, Exited, ForceKill, DaemonDies, Server, Bind, WriteFile, StopBackend, Leave, Unlink,
         Crash, Reap, Reuse, Wants, Ensure, Load, Compare, SpawnLlama, Ready, NotReady, Stream,
         LlamaBind, LlamaLoads, LlamaDies, SameServers, vars
<1>2. QED
  BY CallsTyped, ProcsTyped, ModelsTyped DEF TypeOK, Calls, Points, Requests, Llamas

-----------------------------------------------------------------------------
(* The starts and stops.                                                   *)

\* The steps that change a start or stop, or the file lock.
LEMMA CallSteps ==
    ASSUME [Next]_vars, ~UNCHANGED calls
    PROVE  \E c \in Caller : Serve(c) \/ Flock(c) \/ (\E op \in {"start", "stop"} : Ask(c, op))
                            \/ DaemonDies(Daemon[c])
BY DEF Next, Server, Bind, WriteFile, StopBackend, Leave, Unlink, Crash, Reap, Reuse, Wants, Ensure, Load,
       Compare, SpawnLlama, Ready, NotReady, Stream, LlamaBind, LlamaLoads, LlamaDies, SameServers,
       vars, calls

\* A start or stop that is served has the file lock, and keeps it or answers.
LEMMA ServeTurn ==
    ASSUME TypeOK, OneAtATime, NEW c \in Caller, Serve(c)
    PROVE  /\ \A d \in Caller \ {c} : call'[d] = call[d]
           /\ flock = c
           /\ flock' = c \/ (flock' = None /\ call'[c].at = "off")
<1> DEFINE Turn == /\ \A d \in Caller \ {c} : call'[d] = call[d]
                   /\ flock = c
                   /\ flock' = c \/ (flock' = None /\ call'[c].at = "off")
<1>0. call[c].at \notin {"off", "flock"} => flock = c
  BY DEF OneAtATime
<1>1. ASSUME NEW answer \in Pings, Look(c, answer) PROVE Turn
  BY <1>1, <1>0, GotoFacts, HoldingFacts, ReturnFacts DEF Look, Points
<1>2. ASSUME ReadFile(c) PROVE Turn
  BY <1>2, <1>0, GotoFacts, HoldingFacts, ReturnFacts DEF ReadFile, NotTold, Points, Alive, TypeOK
<1>3. ASSUME RemoveRead(c) PROVE Turn
  <2>1. Return(c) \/ Goto(c, "cleaned") \/ Goto(c, "unlink") \/ Goto(c, "ping")
    BY <1>3 DEF RemoveRead, NotTold
  <2>2. QED
    BY <1>3, <1>0, <2>1, GotoFacts, ReturnFacts DEF RemoveRead, Points
<1>4. ASSUME RemoveUnlink(c) PROVE Turn
  <2>1. Return(c) \/ Goto(c, "ping")
    BY <1>4 DEF RemoveUnlink, NotTold
  <2>2. QED
    BY <1>4, <1>0, <2>1, GotoFacts, ReturnFacts DEF RemoveUnlink, Points
<1>5. ASSUME Spawn(c) PROVE Turn
  BY <1>5, <1>0, GotoFacts, HoldingFacts, ReturnFacts DEF Spawn, Points
<1>6. ASSUME WaitReady(c) PROVE Turn
  BY <1>6, <1>0, GotoFacts, HoldingFacts, ReturnFacts DEF WaitReady, Points
<1>7. ASSUME StopPing(c) PROVE Turn
  BY <1>7, <1>0, GotoFacts, HoldingFacts, ReturnFacts DEF StopPing, Points
<1>8. ASSUME Terminate(c) PROVE Turn
  BY <1>8, <1>0, GotoFacts, HoldingFacts, ReturnFacts DEF Terminate, Points
<1>9. ASSUME Exited(c) PROVE Turn
  BY <1>9, <1>0, GotoFacts, HoldingFacts, ReturnFacts DEF Exited, Points
<1>10. ASSUME ForceKill(c) PROVE Turn
  BY <1>10, <1>0, GotoFacts, HoldingFacts, ReturnFacts DEF ForceKill, Points
<1>11. QED
  BY <1>1, <1>2, <1>3, <1>4, <1>5, <1>6, <1>7, <1>8, <1>9, <1>10 DEF Serve

\* The file lock is only taken when nobody has it, and a daemon that dies drops it
\* together with the requests it served.
LEMMA OneStep ==
    ASSUME TypeOK, OneAtATime, [Next]_vars
    PROVE  OneAtATime'
<1>0. None \notin Caller
  BY InferenceAssumption
<1>1. ASSUME NEW c \in Caller, Serve(c) PROVE OneAtATime'
  BY <1>1, <1>0, ServeTurn DEF OneAtATime
<1>2. ASSUME NEW c \in Caller, NEW op \in {"start", "stop"}, Ask(c, op) PROVE OneAtATime'
  BY <1>2, CallType DEF Ask, OneAtATime
<1>3. ASSUME NEW c \in Caller, Flock(c) PROVE OneAtATime'
  BY <1>3, <1>0, CallType DEF Flock, Calls, OneAtATime
<1>4. ASSUME NEW d, DaemonDies(d) PROVE OneAtATime'
  BY <1>4, <1>0, CallType DEF DaemonDies, NoCall, OneAtATime
<1>5. ASSUME UNCHANGED calls PROVE OneAtATime'
  BY <1>5 DEF calls, OneAtATime
<1>6. ASSUME ~UNCHANGED calls
      PROVE  \E c \in Caller : Serve(c) \/ Flock(c) \/ (\E op \in {"start", "stop"} : Ask(c, op))
                              \/ DaemonDies(Daemon[c])
  BY <1>6, CallSteps
<1>7. QED
  BY <1>1, <1>2, <1>3, <1>4, <1>5, <1>6

\* Only the process of a pid file may come to be another program.
LEMMA PidsStay ==
    ASSUME TypeOK, NEW o \in Pid, proc[o] \notin {"unused", "other"}, [Next]_vars
    PROVE  proc'[o] \notin {"unused", "other"} \/ Reuse(o)
<1> DEFINE Stays == proc'[o] \notin {"unused", "other"} \/ Reuse(o)
<1>0. proc \in [Pid -> Process]
  BY DEF TypeOK
<1>1. ASSUME NEW c \in Caller, NEW op \in {"start", "stop"}, Ask(c, op) PROVE Stays
  BY <1>1, <1>0 DEF Ask, calls, servers, models, SameServers
<1>2. ASSUME NEW c \in Caller, Flock(c) PROVE Stays
  BY <1>2, <1>0 DEF Flock, calls, servers, models, SameServers
<1>3. ASSUME NEW c \in Caller, NEW answer \in Pings, Look(c, answer) PROVE Stays
  BY <1>3, <1>0 DEF Look, calls, servers, models, SameServers
<1>4. ASSUME NEW c \in Caller, ReadFile(c) PROVE Stays
  BY <1>4, <1>0 DEF ReadFile, calls, servers, models, SameServers
<1>5. ASSUME NEW c \in Caller, RemoveRead(c) PROVE Stays
  BY <1>5, <1>0 DEF RemoveRead, calls, servers, models, SameServers
<1>6. ASSUME NEW c \in Caller, RemoveUnlink(c) PROVE Stays
  BY <1>6, <1>0 DEF RemoveUnlink, calls, servers, models, SameServers
<1>7. ASSUME NEW c \in Caller, Spawn(c) PROVE Stays
  BY <1>7, <1>0 DEF Spawn
<1>8. ASSUME NEW c \in Caller, WaitReady(c) PROVE Stays
  BY <1>8, <1>0 DEF WaitReady, calls, servers, models, SameServers
<1>9. ASSUME NEW c \in Caller, StopPing(c) PROVE Stays
  BY <1>9, <1>0 DEF StopPing, calls, servers, models, SameServers
<1>10. ASSUME NEW c \in Caller, Terminate(c) PROVE Stays
  BY <1>10, <1>0 DEF Terminate
<1>11. ASSUME NEW c \in Caller, Exited(c) PROVE Stays
  BY <1>11, <1>0 DEF Exited, calls, servers, models, SameServers
<1>12. ASSUME NEW c \in Caller, ForceKill(c) PROVE Stays
  BY <1>12, <1>0 DEF ForceKill
<1>13. ASSUME NEW d, DaemonDies(d) PROVE Stays
  BY <1>13, <1>0 DEF DaemonDies, calls, servers, models, SameServers
<1>14. ASSUME NEW p \in Pid, Bind(p) PROVE Stays
  BY <1>14, <1>0 DEF Bind, Becomes
<1>15. ASSUME NEW p \in Pid, WriteFile(p) PROVE Stays
  BY <1>15, <1>0 DEF WriteFile, Becomes
<1>16. ASSUME NEW p \in Pid, StopBackend(p) PROVE Stays
  BY <1>16, <1>0 DEF StopBackend, Becomes
<1>17. ASSUME NEW p \in Pid, Leave(p) PROVE Stays
  BY <1>17, <1>0 DEF Leave, Becomes
<1>18. ASSUME NEW p \in Pid, Unlink(p) PROVE Stays
  BY <1>18, <1>0 DEF Unlink, Becomes
<1>19. ASSUME NEW p \in Pid, Crash(p) PROVE Stays
  BY <1>19, <1>0 DEF Crash, Becomes
<1>20. ASSUME NEW p \in Pid, Reap(p) PROVE Stays
  BY <1>20, <1>0 DEF Reap, Becomes
<1>21. ASSUME NEW p \in Pid, Reuse(p) PROVE Stays
  BY <1>21, <1>0 DEF Reuse, Becomes
<1>22. ASSUME NEW r \in Request, NEW m \in Model, Wants(r, m) PROVE Stays
  BY <1>22, <1>0 DEF Wants, calls, servers, models, SameServers
<1>23. ASSUME NEW r \in Request, Ensure(r) PROVE Stays
  BY <1>23, <1>0 DEF Ensure, calls, servers, models, SameServers
<1>24. ASSUME NEW r \in Request, Compare(r) PROVE Stays
  BY <1>24, <1>0 DEF Compare, calls, servers, models, SameServers
<1>25. ASSUME NEW r \in Request, SpawnLlama(r) PROVE Stays
  BY <1>25, <1>0 DEF SpawnLlama, calls, servers, models, SameServers
<1>26. ASSUME NEW r \in Request, Ready(r) PROVE Stays
  BY <1>26, <1>0 DEF Ready, calls, servers, models, SameServers
<1>27. ASSUME NEW r \in Request, NotReady(r) PROVE Stays
  BY <1>27, <1>0 DEF NotReady, calls, servers, models, SameServers
<1>28. ASSUME NEW r \in Request, Stream(r) PROVE Stays
  BY <1>28, <1>0 DEF Stream, calls, servers, models, SameServers
<1>29. ASSUME NEW p \in Pid, LlamaBind(p) PROVE Stays
  BY <1>29, <1>0 DEF LlamaBind, calls, servers, models, SameServers
<1>30. ASSUME NEW p \in Pid, LlamaLoads(p) PROVE Stays
  BY <1>30, <1>0 DEF LlamaLoads, calls, servers, models, SameServers
<1>31. ASSUME NEW p \in Pid, LlamaDies(p) PROVE Stays
  BY <1>31, <1>0 DEF LlamaDies, calls, servers, models, SameServers
<1>32. ASSUME UNCHANGED vars PROVE Stays
  BY <1>32 DEF vars
<1>33. QED
  BY <1>1, <1>2, <1>3, <1>4, <1>5, <1>6, <1>7, <1>8, <1>9, <1>10, <1>11,
     <1>12, <1>13, <1>14, <1>15, <1>16, <1>17, <1>18, <1>19, <1>20,
     <1>21, <1>22, <1>23, <1>24, <1>25, <1>26, <1>27, <1>28, <1>29,
     <1>30, <1>31, <1>32 DEF Next, Serve, Server, Load

\* A stop signals the server it found: until it has stopped, its pid is nobody
\* else's.
LEMMA OursStep ==
    ASSUME TypeOK, OneAtATime, StopsOurs, [Next]_vars
    PROVE  StopsOurs'
<1> DEFINE Ours(c) == call[c].at \in {"term", "exit", "clean", "cleaned"} =>
                          call[c].pid \in Pid /\ proc[call[c].pid] \notin {"unused", "other"}
<1>0. \A c \in Caller : Ours(c)
  BY DEF StopsOurs
<1>1. ASSUME NEW c \in Caller, call'[c] = call[c] PROVE Ours(c)'
  BY <1>0, <1>1, PidsStay DEF Reuse
<1>2. ASSUME NEW c \in Caller, Serve(c) PROVE Ours(c)'
  <2>1. ASSUME NEW answer \in Pings, Look(c, answer) PROVE Ours(c)'
    BY <2>1, GotoFacts, ReturnFacts DEF Look, Points
  <2>2. ASSUME ReadFile(c) PROVE Ours(c)'
    <3>1. \/ Return(c) \/ Goto(c, "ping")
          \/ file \in Pid /\ Holding(c, file, "leftover")
          \/ file \in Pid /\ proc[file] \in Up /\ Holding(c, file, "term")
      BY <2>2 DEF ReadFile, NotTold, TypeOK
    <3>2. proc' = proc
      BY <2>2 DEF ReadFile, servers
    <3>3. QED
      BY <3>1, <3>2, GotoFacts, HoldingFacts, ReturnFacts DEF Points, Up
  <2>3. ASSUME RemoveRead(c) PROVE Ours(c)'
    <3>1. \/ Return(c) \/ Goto(c, "unlink") \/ Goto(c, "ping")
          \/ call[c].at = "clean" /\ Goto(c, "cleaned")
      BY <2>3 DEF RemoveRead, NotTold
    <3>2. proc' = proc
      BY <2>3 DEF RemoveRead, servers
    <3>3. QED
      BY <3>1, <3>2, <1>0, GotoFacts, ReturnFacts DEF Points
  <2>4. ASSUME RemoveUnlink(c) PROVE Ours(c)'
    <3>1. Return(c) \/ Goto(c, "ping")
      BY <2>4 DEF RemoveUnlink, NotTold
    <3>2. QED
      BY <3>1, GotoFacts, ReturnFacts DEF Points
  <2>5. ASSUME Spawn(c) PROVE Ours(c)'
    BY <2>5, HoldingFacts DEF Spawn, Points
  <2>6. ASSUME WaitReady(c) PROVE Ours(c)'
    BY <2>6, GotoFacts, ReturnFacts DEF WaitReady, Points
  <2>7. ASSUME StopPing(c) PROVE Ours(c)'
    BY <2>7, GotoFacts, ReturnFacts DEF StopPing, Points
  <2>8. ASSUME Terminate(c) PROVE Ours(c)'
    <3>1. call[c].at \in {"term", "exit"} /\ Goto(c, "exit")
      BY <2>8 DEF Terminate
    <3>2. proc'[call[c].pid] \notin {"unused", "other"}
      BY <2>8, <3>1, <1>0 DEF Terminate, TypeOK, servers
    <3>3. QED
      BY <3>1, <3>2, <1>0, GotoFacts DEF Points
  <2>9. ASSUME Exited(c) PROVE Ours(c)'
    <3>1. call[c].at \in {"term", "exit"} /\ Goto(c, "clean")
      BY <2>9 DEF Exited
    <3>2. proc'[call[c].pid] \notin {"unused", "other"}
      BY <2>9, <3>1, <1>0 DEF Exited, TypeOK, servers
    <3>3. QED
      BY <3>1, <3>2, <1>0, GotoFacts DEF Points
  <2>10. ASSUME ForceKill(c) PROVE Ours(c)'
    <3>1. call[c].at \in {"term", "exit"} /\ Goto(c, "clean")
      BY <2>10 DEF ForceKill
    <3>2. proc'[call[c].pid] \notin {"unused", "other"}
      BY <2>10, <3>1, <1>0 DEF ForceKill, TypeOK, servers
    <3>3. QED
      BY <3>1, <3>2, <1>0, GotoFacts DEF Points
  <2>11. QED
    BY <2>1, <2>2, <2>3, <2>4, <2>5, <2>6, <2>7, <2>8, <2>9, <2>10, <1>2 DEF Serve
<1>3. ASSUME NEW c \in Caller, Serve(c), NEW d \in Caller PROVE Ours(d)'
  BY <1>1, <1>2, <1>3, ServeTurn
<1>4. ASSUME NEW c \in Caller, Flock(c) \/ (\E op \in {"start", "stop"} : Ask(c, op)), NEW d \in Caller
      PROVE  Ours(d)'
  <2>1. CASE d = c
    BY <1>4, <2>1, CallType DEF Flock, Ask, Calls
  <2>2. CASE d # c
    BY <1>1, <1>4, <2>2, CallType DEF Flock, Ask
  <2>3. QED
    BY <2>1, <2>2
<1>5. ASSUME NEW d, DaemonDies(d), NEW c \in Caller PROVE Ours(c)'
  BY <1>1, <1>5, CallType DEF DaemonDies, NoCall
<1>6. ASSUME UNCHANGED calls, NEW c \in Caller PROVE Ours(c)'
  BY <1>1, <1>6 DEF calls
<1>7. ASSUME ~UNCHANGED calls
      PROVE  \E c \in Caller : Serve(c) \/ Flock(c) \/ (\E op \in {"start", "stop"} : Ask(c, op))
                              \/ DaemonDies(Daemon[c])
  BY <1>7, CallSteps
<1>8. QED
  BY <1>3, <1>4, <1>5, <1>6, <1>7 DEF StopsOurs

-----------------------------------------------------------------------------
(* The model requests.                                                     *)

\* A server that ends has answered its requests, or they are dropped with it; the
\* lock of one server is had by one request.
LEMMA ServedStep ==
    ASSUME TypeOK, StopsOurs, RequestsAreServed, [Next]_vars
    PROVE  RequestsAreServed'
<1> DEFINE Served == \A s \in Request :
                 /\ req[s].at = "off" <=> req[s].of = None
                 /\ req[s].of # None => proc[req[s].of] \in {"serving", "closing"}
                 /\ req[s].at \in {"locked", "spawn", "wait"} => ensure[req[s].of] = s
<1>0. Served /\ None \notin Pid \union Request
  BY InferenceAssumption DEF RequestsAreServed
<1>a. /\ proc \in [Pid -> Process] /\ ensure \in [Pid -> Request \union {None}] /\ req \in [Request -> Requests]
      /\ call \in [Caller -> Calls]
  BY CallType DEF TypeOK
<1>b. \A c \in Caller : call[c].at = "exit" => call[c].pid \in Pid
  BY DEF StopsOurs
<1>1. ASSUME NEW c \in Caller, NEW op \in {"start", "stop"}, Ask(c, op) PROVE Served'
  <2>1. proc' = proc /\ req' = req /\ ensure' = ensure
    BY <1>1 DEF Ask, servers, models, SameServers
  <2>2. QED
    BY <2>1, <1>0
<1>2. ASSUME NEW c \in Caller, Flock(c) PROVE Served'
  <2>1. proc' = proc /\ req' = req /\ ensure' = ensure
    BY <1>2 DEF Flock, servers, models, SameServers
  <2>2. QED
    BY <2>1, <1>0
<1>3. ASSUME NEW c \in Caller, NEW answer \in Pings, Look(c, answer) PROVE Served'
  <2>1. proc' = proc /\ req' = req /\ ensure' = ensure
    BY <1>3 DEF Look, servers, models, SameServers
  <2>2. QED
    BY <2>1, <1>0
<1>4. ASSUME NEW c \in Caller, ReadFile(c) PROVE Served'
  <2>1. proc' = proc /\ req' = req /\ ensure' = ensure
    BY <1>4 DEF ReadFile, servers, models, SameServers
  <2>2. QED
    BY <2>1, <1>0
<1>5. ASSUME NEW c \in Caller, RemoveRead(c) PROVE Served'
  <2>1. proc' = proc /\ req' = req /\ ensure' = ensure
    BY <1>5 DEF RemoveRead, servers, models, SameServers
  <2>2. QED
    BY <2>1, <1>0
<1>6. ASSUME NEW c \in Caller, RemoveUnlink(c) PROVE Served'
  <2>1. proc' = proc /\ req' = req /\ ensure' = ensure
    BY <1>6 DEF RemoveUnlink, servers, models, SameServers
  <2>2. QED
    BY <2>1, <1>0
<1>7. ASSUME NEW c \in Caller, Spawn(c) PROVE Served'
  <2>1. req' = req /\ ensure' = ensure
    BY <1>7 DEF Spawn, models
  <2>2. \A p \in Pid : proc[p] \in {"serving", "closing"} => proc'[p] \in {"serving", "closing"}
    BY <1>7, <1>a DEF Spawn
  <2>3. QED
    BY <2>1, <2>2, <1>0, <1>a DEF Requests
<1>8. ASSUME NEW c \in Caller, WaitReady(c) PROVE Served'
  <2>1. proc' = proc /\ req' = req /\ ensure' = ensure
    BY <1>8 DEF WaitReady, servers, models, SameServers
  <2>2. QED
    BY <2>1, <1>0
<1>9. ASSUME NEW c \in Caller, StopPing(c) PROVE Served'
  <2>1. proc' = proc /\ req' = req /\ ensure' = ensure
    BY <1>9 DEF StopPing, servers, models, SameServers
  <2>2. QED
    BY <2>1, <1>0
<1>10. ASSUME NEW c \in Caller, Terminate(c) PROVE Served'
  <2>1. req' = req /\ ensure' = ensure
    BY <1>10 DEF Terminate, models
  <2>2. \A p \in Pid : proc[p] \in {"serving", "closing"} => proc'[p] \in {"serving", "closing"}
    BY <1>10, <1>a DEF Terminate
  <2>3. QED
    BY <2>1, <2>2, <1>0, <1>a DEF Requests
<1>11. ASSUME NEW c \in Caller, Exited(c) PROVE Served'
  <2>1. proc' = proc /\ req' = req /\ ensure' = ensure
    BY <1>11 DEF Exited, servers, models, SameServers
  <2>2. QED
    BY <2>1, <1>0
<1>12. ASSUME NEW c \in Caller, ForceKill(c) PROVE Served'
  <2>0. PICK o \in Pid : o = call[c].pid
    BY <1>12, <1>b DEF ForceKill
  <2>1. \A r \in Request : req'[r] = IF req[r].of = o THEN NoRequest ELSE req[r]
    BY <1>12, <2>0 DEF ForceKill, Drop
  <2>2. \A p \in Pid \ {o} : proc'[p] = proc[p] /\ ensure'[p] = ensure[p]
    BY <1>12, <2>0, <1>a DEF ForceKill, Drop, Becomes
  <2>3. QED
    BY <2>1, <2>2, <1>0, <1>a DEF NoRequest, Requests
<1>13. ASSUME NEW d, DaemonDies(d) PROVE Served'
  <2>1. proc' = proc /\ req' = req /\ ensure' = ensure
    BY <1>13 DEF DaemonDies, servers, models, SameServers
  <2>2. QED
    BY <2>1, <1>0
<1>14. ASSUME NEW p \in Pid, Bind(p) PROVE Served'
  <2>1. req' = req /\ ensure' = ensure
    BY <1>14 DEF Bind, models
  <2>2. \A o \in Pid : proc[o] \in {"serving", "closing"} => proc'[o] = proc[o]
    BY <1>14, <1>a DEF Bind, Becomes
  <2>3. QED
    BY <2>1, <2>2, <1>0, <1>a DEF Requests
<1>15. ASSUME NEW p \in Pid, WriteFile(p) PROVE Served'
  <2>1. req' = req /\ ensure' = ensure
    BY <1>15 DEF WriteFile, models
  <2>2. \A o \in Pid : proc[o] \in {"serving", "closing"} => proc'[o] = proc[o]
    BY <1>15, <1>a DEF WriteFile, Becomes
  <2>3. QED
    BY <2>1, <2>2, <1>0, <1>a DEF Requests
<1>16. ASSUME NEW p \in Pid, StopBackend(p) PROVE Served'
  <2>1. req' = req /\ ensure' = ensure /\ \A r \in Request : req[r].of # p
    BY <1>16 DEF StopBackend
  <2>2. \A o \in Pid \ {p} : proc'[o] = proc[o]
    BY <1>16, <1>a DEF StopBackend, Becomes
  <2>3. QED
    BY <2>1, <2>2, <1>0, <1>a DEF Requests
<1>17. ASSUME NEW p \in Pid, Leave(p) PROVE Served'
  <2>1. req' = req /\ ensure' = ensure
    BY <1>17 DEF Leave, models
  <2>2. \A o \in Pid : proc[o] \in {"serving", "closing"} => proc'[o] = proc[o]
    BY <1>17, <1>a DEF Leave, Becomes
  <2>3. QED
    BY <2>1, <2>2, <1>0, <1>a DEF Requests
<1>18. ASSUME NEW p \in Pid, Unlink(p) PROVE Served'
  <2>1. req' = req /\ ensure' = ensure
    BY <1>18 DEF Unlink, models
  <2>2. \A o \in Pid : proc[o] \in {"serving", "closing"} => proc'[o] = proc[o]
    BY <1>18, <1>a DEF Unlink, Becomes
  <2>3. QED
    BY <2>1, <2>2, <1>0, <1>a DEF Requests
<1>19. ASSUME NEW p \in Pid, Crash(p) PROVE Served'
  <2>0. PICK o \in Pid : o = p
    OBVIOUS
  <2>1. \A r \in Request : req'[r] = IF req[r].of = o THEN NoRequest ELSE req[r]
    BY <1>19, <2>0 DEF Crash, Drop
  <2>2. \A q \in Pid \ {o} : proc'[q] = proc[q] /\ ensure'[q] = ensure[q]
    BY <1>19, <2>0, <1>a DEF Crash, Drop, Becomes
  <2>3. QED
    BY <2>1, <2>2, <1>0, <1>a DEF NoRequest, Requests
<1>20. ASSUME NEW p \in Pid, Reap(p) PROVE Served'
  <2>1. req' = req /\ ensure' = ensure
    BY <1>20 DEF Reap, models
  <2>2. \A o \in Pid : proc[o] \in {"serving", "closing"} => proc'[o] = proc[o]
    BY <1>20, <1>a DEF Reap, Becomes
  <2>3. QED
    BY <2>1, <2>2, <1>0, <1>a DEF Requests
<1>21. ASSUME NEW p \in Pid, Reuse(p) PROVE Served'
  <2>1. req' = req /\ ensure' = ensure
    BY <1>21 DEF Reuse, models
  <2>2. \A o \in Pid : proc[o] \in {"serving", "closing"} => proc'[o] = proc[o]
    BY <1>21, <1>a DEF Reuse, Becomes
  <2>3. QED
    BY <2>1, <2>2, <1>0, <1>a DEF Requests
<1>22. ASSUME NEW r \in Request, NEW m \in Model, Wants(r, m) PROVE Served'
  <2>1. PICK p \in Pid : proc[p] = "serving" /\ req' = [req EXCEPT ![r] = [at |-> "ensure", model |-> m, of |-> p]]
    BY <1>22 DEF Wants
  <2>2. proc' = proc /\ ensure' = ensure
    BY <1>22 DEF Wants, SameServers, servers
  <2>3. QED
    BY <2>1, <2>2, <1>0, <1>a, InferenceAssumption
<1>23. ASSUME NEW r \in Request, Ensure(r) PROVE Served'
  <2>1. /\ req'[r].at = "locked" /\ req'[r].of = req[r].of /\ ensure'[req[r].of] = r
        /\ \A s \in Request \ {r} : req'[s] = req[s]
        /\ req[r].of \in Pid /\ ensure[req[r].of] = None
    BY <1>23, <1>0, <1>a DEF Ensure, At, Requests
  <2>2. proc' = proc /\ \A p \in Pid \ {req[r].of} : ensure'[p] = ensure[p]
    BY <1>23, <1>a DEF Ensure, SameServers, servers
  <2>3. QED
    BY <1>23, <2>1, <2>2, <1>0, <1>a DEF Requests, Ensure
<1>24. ASSUME NEW r \in Request, Compare(r) PROVE Served'
  <2>1. /\ req'[r].at \in {"wait", "spawn"} /\ req'[r].of = req[r].of /\ req[r].at \in {"locked", "spawn"}
        /\ \A s \in Request \ {r} : req'[s] = req[s]
    BY <1>24, <1>a DEF Compare, At, Requests
  <2>2. proc' = proc /\ ensure' = ensure
    BY <1>24 DEF Compare, SameServers, servers
  <2>3. QED
    BY <2>1, <2>2, <1>0, <1>a DEF Requests
<1>25. ASSUME NEW r \in Request, SpawnLlama(r) PROVE Served'
  <2>1. /\ req'[r].at \in {"wait", "spawn"} /\ req'[r].of = req[r].of /\ req[r].at \in {"locked", "spawn"}
        /\ \A s \in Request \ {r} : req'[s] = req[s]
    BY <1>25, <1>a DEF SpawnLlama, At, Requests
  <2>2. proc' = proc /\ ensure' = ensure
    BY <1>25 DEF SpawnLlama, SameServers, servers
  <2>3. QED
    BY <2>1, <2>2, <1>0, <1>a DEF Requests
<1>26. ASSUME NEW r \in Request, Ready(r) PROVE Served'
  <2>1. /\ \/ req'[r].at = "stream" /\ req'[r].of = req[r].of /\ req[r].at = "wait"
           \/ req'[r].at = "off" /\ req'[r].of = None
        /\ \A s \in Request \ {r} : req'[s] = req[s]
    BY <1>26, <1>a DEF Ready, At, Answered, NoRequest, Requests
  <2>2. proc' = proc /\ \A p \in Pid : ensure'[p] = IF ensure[p] = r THEN None ELSE ensure[p]
    BY <1>26 DEF Ready, Answered, LetGo, SameServers, servers
  <2>3. QED
    BY <2>1, <2>2, <1>0, <1>a DEF Requests
<1>27. ASSUME NEW r \in Request, NotReady(r) PROVE Served'
  <2>1. /\ \/ req'[r].at = "stream" /\ req'[r].of = req[r].of /\ req[r].at = "wait"
           \/ req'[r].at = "off" /\ req'[r].of = None
        /\ \A s \in Request \ {r} : req'[s] = req[s]
    BY <1>27, <1>a DEF NotReady, At, Answered, NoRequest, Requests
  <2>2. proc' = proc /\ \A p \in Pid : ensure'[p] = IF ensure[p] = r THEN None ELSE ensure[p]
    BY <1>27 DEF NotReady, Answered, LetGo, SameServers, servers
  <2>3. QED
    BY <2>1, <2>2, <1>0, <1>a DEF Requests
<1>28. ASSUME NEW r \in Request, Stream(r) PROVE Served'
  <2>1. /\ \/ req'[r].at = "stream" /\ req'[r].of = req[r].of /\ req[r].at = "wait"
           \/ req'[r].at = "off" /\ req'[r].of = None
        /\ \A s \in Request \ {r} : req'[s] = req[s]
    BY <1>28, <1>a DEF Stream, At, Answered, NoRequest, Requests
  <2>2. proc' = proc /\ \A p \in Pid : ensure'[p] = IF ensure[p] = r THEN None ELSE ensure[p]
    BY <1>28 DEF Stream, Answered, LetGo, SameServers, servers
  <2>3. QED
    BY <2>1, <2>2, <1>0, <1>a DEF Requests
<1>29. ASSUME NEW p \in Pid, LlamaBind(p) PROVE Served'
  <2>1. proc' = proc /\ req' = req /\ ensure' = ensure
    BY <1>29 DEF LlamaBind, servers, models, SameServers
  <2>2. QED
    BY <2>1, <1>0
<1>30. ASSUME NEW p \in Pid, LlamaLoads(p) PROVE Served'
  <2>1. proc' = proc /\ req' = req /\ ensure' = ensure
    BY <1>30 DEF LlamaLoads, servers, models, SameServers
  <2>2. QED
    BY <2>1, <1>0
<1>31. ASSUME NEW p \in Pid, LlamaDies(p) PROVE Served'
  <2>1. proc' = proc /\ req' = req /\ ensure' = ensure
    BY <1>31 DEF LlamaDies, servers, models, SameServers
  <2>2. QED
    BY <2>1, <1>0
<1>32. ASSUME UNCHANGED vars PROVE Served'
  BY <1>32, <1>0 DEF vars
<1>33. QED
  BY <1>1, <1>2, <1>3, <1>4, <1>5, <1>6, <1>7, <1>8, <1>9, <1>10, <1>11,
     <1>12, <1>13, <1>14, <1>15, <1>16, <1>17, <1>18, <1>19, <1>20,
     <1>21, <1>22, <1>23, <1>24, <1>25, <1>26, <1>27, <1>28, <1>29,
     <1>30, <1>31, <1>32 DEF Next, Serve, Server, Load, RequestsAreServed

\* What is loaded changes under the lock of the server, and a llama-server that
\* starts is the one of the model that is loaded.
LEMMA LoadedStep ==
    ASSUME TypeOK, StopsOurs, RequestsAreServed, LoadedIsRunning, [Next]_vars
    PROVE  LoadedIsRunning'
<1> DEFINE Loaded == /\ \A o \in Pid : llama[o].is \in Goes => loaded[o] = llama[o].model
                     /\ \A s \in Request : req[s].at = "wait" => loaded[req[s].of] = req[s].model
                     /\ \A o \in Pid : proc[o] \in {"leaving", "unlinking"} => llama[o].is \notin Goes
<1>0. Loaded
  BY DEF LoadedIsRunning
<1>a. /\ proc \in [Pid -> Process] /\ ensure \in [Pid -> Request \union {None}] /\ req \in [Request -> Requests]
      /\ llama \in [Pid -> Llamas] /\ loaded \in [Pid -> Model \union {None}]
  BY CallType DEF TypeOK, Llamas
<1>b. \A c \in Caller : call[c].at = "exit" => call[c].pid \in Pid
  BY DEF StopsOurs
<1>c. \A s \in Request :
         /\ req[s].at # "off" => req[s].of \in Pid /\ proc[req[s].of] \in {"serving", "closing"}
         /\ req[s].at \in {"locked", "spawn", "wait"} => ensure[req[s].of] = s
  BY CallType DEF RequestsAreServed, Requests
<1>1. ASSUME NEW c \in Caller, NEW op \in {"start", "stop"}, Ask(c, op) PROVE Loaded'
  <2>1. llama' = llama /\ loaded' = loaded /\ req' = req
    BY <1>1 DEF Ask, models
  <2>2. \A o \in Pid : proc'[o] \in {"leaving", "unlinking"} => proc[o] \in {"leaving", "unlinking"}
    BY <1>1, <1>a DEF Ask, servers, Becomes
  <2>3. QED
    BY <2>1, <2>2, <1>0
<1>2. ASSUME NEW c \in Caller, Flock(c) PROVE Loaded'
  <2>1. llama' = llama /\ loaded' = loaded /\ req' = req
    BY <1>2 DEF Flock, models
  <2>2. \A o \in Pid : proc'[o] \in {"leaving", "unlinking"} => proc[o] \in {"leaving", "unlinking"}
    BY <1>2, <1>a DEF Flock, servers, Becomes
  <2>3. QED
    BY <2>1, <2>2, <1>0
<1>3. ASSUME NEW c \in Caller, NEW answer \in Pings, Look(c, answer) PROVE Loaded'
  <2>1. llama' = llama /\ loaded' = loaded /\ req' = req
    BY <1>3 DEF Look, models
  <2>2. \A o \in Pid : proc'[o] \in {"leaving", "unlinking"} => proc[o] \in {"leaving", "unlinking"}
    BY <1>3, <1>a DEF Look, servers, Becomes
  <2>3. QED
    BY <2>1, <2>2, <1>0
<1>4. ASSUME NEW c \in Caller, ReadFile(c) PROVE Loaded'
  <2>1. llama' = llama /\ loaded' = loaded /\ req' = req
    BY <1>4 DEF ReadFile, models
  <2>2. \A o \in Pid : proc'[o] \in {"leaving", "unlinking"} => proc[o] \in {"leaving", "unlinking"}
    BY <1>4, <1>a DEF ReadFile, servers, Becomes
  <2>3. QED
    BY <2>1, <2>2, <1>0
<1>5. ASSUME NEW c \in Caller, RemoveRead(c) PROVE Loaded'
  <2>1. llama' = llama /\ loaded' = loaded /\ req' = req
    BY <1>5 DEF RemoveRead, models
  <2>2. \A o \in Pid : proc'[o] \in {"leaving", "unlinking"} => proc[o] \in {"leaving", "unlinking"}
    BY <1>5, <1>a DEF RemoveRead, servers, Becomes
  <2>3. QED
    BY <2>1, <2>2, <1>0
<1>6. ASSUME NEW c \in Caller, RemoveUnlink(c) PROVE Loaded'
  <2>1. llama' = llama /\ loaded' = loaded /\ req' = req
    BY <1>6 DEF RemoveUnlink, models
  <2>2. \A o \in Pid : proc'[o] \in {"leaving", "unlinking"} => proc[o] \in {"leaving", "unlinking"}
    BY <1>6, <1>a DEF RemoveUnlink, servers, Becomes
  <2>3. QED
    BY <2>1, <2>2, <1>0
<1>7. ASSUME NEW c \in Caller, Spawn(c) PROVE Loaded'
  <2>1. llama' = llama /\ loaded' = loaded /\ req' = req
    BY <1>7 DEF Spawn, models
  <2>2. \A o \in Pid : proc'[o] \in {"leaving", "unlinking"} => proc[o] \in {"leaving", "unlinking"}
    BY <1>7, <1>a DEF Spawn, servers, Becomes
  <2>3. QED
    BY <2>1, <2>2, <1>0
<1>8. ASSUME NEW c \in Caller, WaitReady(c) PROVE Loaded'
  <2>1. llama' = llama /\ loaded' = loaded /\ req' = req
    BY <1>8 DEF WaitReady, models
  <2>2. \A o \in Pid : proc'[o] \in {"leaving", "unlinking"} => proc[o] \in {"leaving", "unlinking"}
    BY <1>8, <1>a DEF WaitReady, servers, Becomes
  <2>3. QED
    BY <2>1, <2>2, <1>0
<1>9. ASSUME NEW c \in Caller, StopPing(c) PROVE Loaded'
  <2>1. llama' = llama /\ loaded' = loaded /\ req' = req
    BY <1>9 DEF StopPing, models
  <2>2. \A o \in Pid : proc'[o] \in {"leaving", "unlinking"} => proc[o] \in {"leaving", "unlinking"}
    BY <1>9, <1>a DEF StopPing, servers, Becomes
  <2>3. QED
    BY <2>1, <2>2, <1>0
<1>10. ASSUME NEW c \in Caller, Terminate(c) PROVE Loaded'
  <2>1. llama' = llama /\ loaded' = loaded /\ req' = req
    BY <1>10 DEF Terminate, models
  <2>2. \A o \in Pid : proc'[o] \in {"leaving", "unlinking"} => proc[o] \in {"leaving", "unlinking"}
    BY <1>10, <1>a DEF Terminate, servers, Becomes
  <2>3. QED
    BY <2>1, <2>2, <1>0
<1>11. ASSUME NEW c \in Caller, Exited(c) PROVE Loaded'
  <2>1. llama' = llama /\ loaded' = loaded /\ req' = req
    BY <1>11 DEF Exited, models
  <2>2. \A o \in Pid : proc'[o] \in {"leaving", "unlinking"} => proc[o] \in {"leaving", "unlinking"}
    BY <1>11, <1>a DEF Exited, servers, Becomes
  <2>3. QED
    BY <2>1, <2>2, <1>0
<1>12. ASSUME NEW c \in Caller, ForceKill(c) PROVE Loaded'
  <2>0. PICK p \in Pid : p = call[c].pid
    BY <1>12, <1>b DEF ForceKill
  <2>1. /\ \A r \in Request : req'[r] = IF req[r].of = p THEN NoRequest ELSE req[r]
        /\ llama' = [llama EXCEPT ![p] = NoLlama] /\ loaded' = [loaded EXCEPT ![p] = None]
    BY <1>12, <2>0 DEF ForceKill, Drop
  <2>2. \A o \in Pid : proc'[o] \in {"leaving", "unlinking"} => proc[o] \in {"leaving", "unlinking"}
    BY <1>12, <1>a DEF ForceKill
  <2>3. QED
    BY <2>1, <2>2, <1>0, <1>a DEF NoRequest, NoLlama, Goes, Requests
<1>13. ASSUME NEW d, DaemonDies(d) PROVE Loaded'
  <2>1. llama' = llama /\ loaded' = loaded /\ req' = req
    BY <1>13 DEF DaemonDies, models
  <2>2. \A o \in Pid : proc'[o] \in {"leaving", "unlinking"} => proc[o] \in {"leaving", "unlinking"}
    BY <1>13, <1>a DEF DaemonDies, servers, Becomes
  <2>3. QED
    BY <2>1, <2>2, <1>0
<1>14. ASSUME NEW p \in Pid, Bind(p) PROVE Loaded'
  <2>1. llama' = llama /\ loaded' = loaded /\ req' = req
    BY <1>14 DEF Bind, models
  <2>2. \A o \in Pid : proc'[o] \in {"leaving", "unlinking"} => proc[o] \in {"leaving", "unlinking"}
    BY <1>14, <1>a DEF Bind, servers, Becomes
  <2>3. QED
    BY <2>1, <2>2, <1>0
<1>15. ASSUME NEW p \in Pid, WriteFile(p) PROVE Loaded'
  <2>1. llama' = llama /\ loaded' = loaded /\ req' = req
    BY <1>15 DEF WriteFile, models
  <2>2. \A o \in Pid : proc'[o] \in {"leaving", "unlinking"} => proc[o] \in {"leaving", "unlinking"}
    BY <1>15, <1>a DEF WriteFile, servers, Becomes
  <2>3. QED
    BY <2>1, <2>2, <1>0
<1>16. ASSUME NEW p \in Pid, StopBackend(p) PROVE Loaded'
  <2>1. /\ req' = req /\ \A r \in Request : req[r].of # p
        /\ llama' = [llama EXCEPT ![p] = NoLlama] /\ loaded' = [loaded EXCEPT ![p] = None]
    BY <1>16 DEF StopBackend
  <2>2. \A o \in Pid \ {p} : proc'[o] = proc[o]
    BY <1>16, <1>a DEF StopBackend, Becomes
  <2>3. QED
    BY <2>1, <2>2, <1>0, <1>a DEF NoLlama, Goes, Requests
<1>17. ASSUME NEW p \in Pid, Leave(p) PROVE Loaded'
  <2>1. llama' = llama /\ loaded' = loaded /\ req' = req
    BY <1>17 DEF Leave, models
  <2>2. \A o \in Pid : proc'[o] \in {"leaving", "unlinking"} => proc[o] \in {"leaving", "unlinking"}
    BY <1>17, <1>a DEF Leave, servers, Becomes
  <2>3. QED
    BY <2>1, <2>2, <1>0
<1>18. ASSUME NEW p \in Pid, Unlink(p) PROVE Loaded'
  <2>1. llama' = llama /\ loaded' = loaded /\ req' = req
    BY <1>18 DEF Unlink, models
  <2>2. \A o \in Pid : proc'[o] \in {"leaving", "unlinking"} => proc[o] \in {"leaving", "unlinking"}
    BY <1>18, <1>a DEF Unlink, servers, Becomes
  <2>3. QED
    BY <2>1, <2>2, <1>0
<1>19. ASSUME NEW p \in Pid, Crash(p) PROVE Loaded'
  <2>1. \A r \in Request : req'[r] = IF req[r].of = p THEN NoRequest ELSE req[r]
    BY <1>19 DEF Crash, Drop
  <2>2. /\ llama' = llama /\ loaded' = loaded
        /\ \A o \in Pid : proc'[o] \in {"leaving", "unlinking"} => proc[o] \in {"leaving", "unlinking"}
    BY <1>19, <1>a DEF Crash, Becomes
  <2>3. QED
    BY <2>1, <2>2, <1>0 DEF NoRequest
<1>20. ASSUME NEW p \in Pid, Reap(p) PROVE Loaded'
  <2>1. llama' = llama /\ loaded' = loaded /\ req' = req
    BY <1>20 DEF Reap, models
  <2>2. \A o \in Pid : proc'[o] \in {"leaving", "unlinking"} => proc[o] \in {"leaving", "unlinking"}
    BY <1>20, <1>a DEF Reap, servers, Becomes
  <2>3. QED
    BY <2>1, <2>2, <1>0
<1>21. ASSUME NEW p \in Pid, Reuse(p) PROVE Loaded'
  <2>1. llama' = llama /\ loaded' = loaded /\ req' = req
    BY <1>21 DEF Reuse, models
  <2>2. \A o \in Pid : proc'[o] \in {"leaving", "unlinking"} => proc[o] \in {"leaving", "unlinking"}
    BY <1>21, <1>a DEF Reuse, servers, Becomes
  <2>3. QED
    BY <2>1, <2>2, <1>0
<1>22. ASSUME NEW r \in Request, NEW m \in Model, Wants(r, m) PROVE Loaded'
  <2>1. \A s \in Request : req'[s].at = "wait" => req'[s] = req[s]
    BY <1>22, <1>a DEF Wants, At, Answered, NoRequest, Requests
  <2>2. llama' = llama /\ loaded' = loaded /\ proc' = proc
    BY <1>22 DEF Wants, SameServers, servers
  <2>3. QED
    BY <2>1, <2>2, <1>0
<1>23. ASSUME NEW r \in Request, Ensure(r) PROVE Loaded'
  <2>1. \A s \in Request : req'[s].at = "wait" => req'[s] = req[s]
    BY <1>23, <1>a DEF Ensure, At, Answered, NoRequest, Requests
  <2>2. llama' = llama /\ loaded' = loaded /\ proc' = proc
    BY <1>23 DEF Ensure, SameServers, servers
  <2>3. QED
    BY <2>1, <2>2, <1>0
<1>24. ASSUME NEW r \in Request, Compare(r) PROVE Loaded'
  <2>1. PICK p \in Pid : p = req[r].of /\ ensure[p] = r
    BY <1>24, <1>c, <1>a DEF Compare, Requests
  <2>2. \A s \in Request \ {r} : req'[s] = req[s] /\ (req[s].at = "wait" => req[s].of # p)
    <3>1. \A s \in Request \ {r} : req'[s] = req[s]
      BY <1>24, <1>a DEF Compare, At
    <3>2. QED
      BY <3>1, <2>1, <1>c
  <2>3. proc' = proc
    BY <1>24 DEF Compare, SameServers, servers
  <2>4. CASE llama[p].is \in Goes /\ loaded[p] = req[r].model
    <3>1. llama' = llama /\ loaded' = loaded /\ req'[r].of = p /\ req'[r].model = req[r].model
      BY <1>24, <2>1, <2>4, <1>a DEF Compare, At, Requests
    <3>2. QED
      BY <3>1, <2>2, <2>3, <2>4, <1>0
  <2>5. CASE ~(llama[p].is \in Goes /\ loaded[p] = req[r].model)
    <3>1. /\ llama' = [llama EXCEPT ![p] = NoLlama] /\ loaded' = [loaded EXCEPT ![p] = None]
          /\ req'[r].at = "spawn"
      BY <1>24, <2>1, <2>5, <1>a DEF Compare, At, Requests
    <3>2. QED
      BY <3>1, <2>2, <2>3, <1>0, <1>a DEF NoLlama, Goes, Requests
  <2>6. QED
    BY <2>4, <2>5
<1>25. ASSUME NEW r \in Request, SpawnLlama(r) PROVE Loaded'
  <2>1. PICK p \in Pid : p = req[r].of /\ ensure[p] = r /\ proc[p] \in {"serving", "closing"}
    BY <1>25, <1>c, <1>a DEF SpawnLlama, Requests
  <2>2. \A s \in Request \ {r} : req'[s] = req[s] /\ (req[s].at = "wait" => req[s].of # p)
    BY <1>25, <2>1, <1>c DEF SpawnLlama, At
  <2>3. proc' = proc
    BY <1>25 DEF SpawnLlama, SameServers, servers
  <2>4. /\ llama' = [llama EXCEPT ![p] = [is |-> "starting", model |-> req[r].model]]
        /\ loaded' = [loaded EXCEPT ![p] = req[r].model]
        /\ req'[r].of = p /\ req'[r].model = req[r].model
    BY <1>25, <2>1, <1>a DEF SpawnLlama, At, Requests
  <2>5. QED
    BY <2>1, <2>2, <2>3, <2>4, <1>0, <1>a DEF Requests
<1>26. ASSUME NEW r \in Request, Ready(r) PROVE Loaded'
  <2>1. \A s \in Request : req'[s].at = "wait" => req'[s] = req[s]
    BY <1>26, <1>a DEF Ready, At, Answered, NoRequest, Requests
  <2>2. llama' = llama /\ loaded' = loaded /\ proc' = proc
    BY <1>26 DEF Ready, SameServers, servers
  <2>3. QED
    BY <2>1, <2>2, <1>0
<1>27. ASSUME NEW r \in Request, NotReady(r) PROVE Loaded'
  <2>1. \A s \in Request : req'[s].at = "wait" => req'[s] = req[s]
    BY <1>27, <1>a DEF NotReady, At, Answered, NoRequest, Requests
  <2>2. llama' = llama /\ loaded' = loaded /\ proc' = proc
    BY <1>27 DEF NotReady, SameServers, servers
  <2>3. QED
    BY <2>1, <2>2, <1>0
<1>28. ASSUME NEW r \in Request, Stream(r) PROVE Loaded'
  <2>1. \A s \in Request : req'[s].at = "wait" => req'[s] = req[s]
    BY <1>28, <1>a DEF Stream, At, Answered, NoRequest, Requests
  <2>2. llama' = llama /\ loaded' = loaded /\ proc' = proc
    BY <1>28 DEF Stream, SameServers, servers
  <2>3. QED
    BY <2>1, <2>2, <1>0
<1>29. ASSUME NEW p \in Pid, LlamaBind(p) PROVE Loaded'
  <2>1. loaded' = loaded /\ req' = req /\ proc' = proc
    BY <1>29 DEF LlamaBind, SameServers, servers
  <2>2. \A o \in Pid : llama'[o].is \in Goes => llama[o].is \in Goes /\ llama'[o].model = llama[o].model
    BY <1>29, <1>a DEF LlamaBind, NoLlama, Goes, Llamas
  <2>3. QED
    BY <2>1, <2>2, <1>0
<1>30. ASSUME NEW p \in Pid, LlamaLoads(p) PROVE Loaded'
  <2>1. loaded' = loaded /\ req' = req /\ proc' = proc
    BY <1>30 DEF LlamaLoads, SameServers, servers
  <2>2. \A o \in Pid : llama'[o].is \in Goes => llama[o].is \in Goes /\ llama'[o].model = llama[o].model
    BY <1>30, <1>a DEF LlamaLoads, NoLlama, Goes, Llamas
  <2>3. QED
    BY <2>1, <2>2, <1>0
<1>31. ASSUME NEW p \in Pid, LlamaDies(p) PROVE Loaded'
  <2>1. loaded' = loaded /\ req' = req /\ proc' = proc
    BY <1>31 DEF LlamaDies, SameServers, servers
  <2>2. \A o \in Pid : llama'[o].is \in Goes => llama[o].is \in Goes /\ llama'[o].model = llama[o].model
    BY <1>31, <1>a DEF LlamaDies, NoLlama, Goes, Llamas
  <2>3. QED
    BY <2>1, <2>2, <1>0
<1>32. ASSUME UNCHANGED vars PROVE Loaded'
  BY <1>32, <1>0 DEF vars
<1>33. QED
  BY <1>1, <1>2, <1>3, <1>4, <1>5, <1>6, <1>7, <1>8, <1>9, <1>10, <1>11,
     <1>12, <1>13, <1>14, <1>15, <1>16, <1>17, <1>18, <1>19, <1>20,
     <1>21, <1>22, <1>23, <1>24, <1>25, <1>26, <1>27, <1>28, <1>29,
     <1>30, <1>31, <1>32 DEF Next, Serve, Server, Load, LoadedIsRunning

\* Only `Ready` tells a request that its model is ready.
LEMMA ReadyTells ==
    ASSUME TypeOK, NEW s \in Request, req[s].at = "wait", req'[s].at = "stream", [Next]_vars
    PROVE  Ready(s)
<1>0. req \in [Request -> Requests]
  BY CallType
<1>1. ASSUME NEW c \in Caller, NEW op \in {"start", "stop"}, Ask(c, op) PROVE Ready(s)
  BY <1>1 DEF Ask, calls, servers, models, SameServers
<1>2. ASSUME NEW c \in Caller, Flock(c) PROVE Ready(s)
  BY <1>2 DEF Flock, calls, servers, models, SameServers
<1>3. ASSUME NEW c \in Caller, NEW answer \in Pings, Look(c, answer) PROVE Ready(s)
  BY <1>3 DEF Look, calls, servers, models, SameServers
<1>4. ASSUME NEW c \in Caller, ReadFile(c) PROVE Ready(s)
  BY <1>4 DEF ReadFile, calls, servers, models, SameServers
<1>5. ASSUME NEW c \in Caller, RemoveRead(c) PROVE Ready(s)
  BY <1>5 DEF RemoveRead, calls, servers, models, SameServers
<1>6. ASSUME NEW c \in Caller, RemoveUnlink(c) PROVE Ready(s)
  BY <1>6 DEF RemoveUnlink, calls, servers, models, SameServers
<1>7. ASSUME NEW c \in Caller, Spawn(c) PROVE Ready(s)
  BY <1>7 DEF Spawn, calls, servers, models, SameServers
<1>8. ASSUME NEW c \in Caller, WaitReady(c) PROVE Ready(s)
  BY <1>8 DEF WaitReady, calls, servers, models, SameServers
<1>9. ASSUME NEW c \in Caller, StopPing(c) PROVE Ready(s)
  BY <1>9 DEF StopPing, calls, servers, models, SameServers
<1>10. ASSUME NEW c \in Caller, Terminate(c) PROVE Ready(s)
  BY <1>10 DEF Terminate, calls, servers, models, SameServers
<1>11. ASSUME NEW c \in Caller, Exited(c) PROVE Ready(s)
  BY <1>11 DEF Exited, calls, servers, models, SameServers
<1>12. ASSUME NEW c \in Caller, ForceKill(c) PROVE Ready(s)
  BY <1>12, <1>0 DEF ForceKill, Drop, NoRequest
<1>13. ASSUME NEW d, DaemonDies(d) PROVE Ready(s)
  BY <1>13 DEF DaemonDies, calls, servers, models, SameServers
<1>14. ASSUME NEW p \in Pid, Bind(p) PROVE Ready(s)
  BY <1>14 DEF Bind, calls, servers, models, SameServers
<1>15. ASSUME NEW p \in Pid, WriteFile(p) PROVE Ready(s)
  BY <1>15 DEF WriteFile, calls, servers, models, SameServers
<1>16. ASSUME NEW p \in Pid, StopBackend(p) PROVE Ready(s)
  BY <1>16 DEF StopBackend, calls, servers, models, SameServers
<1>17. ASSUME NEW p \in Pid, Leave(p) PROVE Ready(s)
  BY <1>17 DEF Leave, calls, servers, models, SameServers
<1>18. ASSUME NEW p \in Pid, Unlink(p) PROVE Ready(s)
  BY <1>18 DEF Unlink, calls, servers, models, SameServers
<1>19. ASSUME NEW p \in Pid, Crash(p) PROVE Ready(s)
  BY <1>19, <1>0 DEF Crash, Drop, NoRequest
<1>20. ASSUME NEW p \in Pid, Reap(p) PROVE Ready(s)
  BY <1>20 DEF Reap, calls, servers, models, SameServers
<1>21. ASSUME NEW p \in Pid, Reuse(p) PROVE Ready(s)
  BY <1>21 DEF Reuse, calls, servers, models, SameServers
<1>22. ASSUME NEW r \in Request, NEW m \in Model, Wants(r, m) PROVE Ready(s)
  BY <1>22, <1>0 DEF Wants, At, Answered, NoRequest, Requests
<1>23. ASSUME NEW r \in Request, Ensure(r) PROVE Ready(s)
  BY <1>23, <1>0 DEF Ensure, At, Answered, NoRequest, Requests
<1>24. ASSUME NEW r \in Request, Compare(r) PROVE Ready(s)
  BY <1>24, <1>0 DEF Compare, At, Answered, NoRequest, Requests
<1>25. ASSUME NEW r \in Request, SpawnLlama(r) PROVE Ready(s)
  BY <1>25, <1>0 DEF SpawnLlama, At, Answered, NoRequest, Requests
<1>26. ASSUME NEW r \in Request, Ready(r) PROVE Ready(s)
  BY <1>26, <1>0 DEF Ready, At, Answered, NoRequest, Requests
<1>27. ASSUME NEW r \in Request, NotReady(r) PROVE Ready(s)
  BY <1>27, <1>0 DEF NotReady, At, Answered, NoRequest, Requests
<1>28. ASSUME NEW r \in Request, Stream(r) PROVE Ready(s)
  BY <1>28, <1>0 DEF Stream, At, Answered, NoRequest, Requests
<1>29. ASSUME NEW p \in Pid, LlamaBind(p) PROVE Ready(s)
  BY <1>29 DEF LlamaBind, calls, servers, models, SameServers
<1>30. ASSUME NEW p \in Pid, LlamaLoads(p) PROVE Ready(s)
  BY <1>30 DEF LlamaLoads, calls, servers, models, SameServers
<1>31. ASSUME NEW p \in Pid, LlamaDies(p) PROVE Ready(s)
  BY <1>31 DEF LlamaDies, calls, servers, models, SameServers
<1>32. ASSUME UNCHANGED vars PROVE Ready(s)
  BY <1>32 DEF vars
<1>33. QED
  BY <1>1, <1>2, <1>3, <1>4, <1>5, <1>6, <1>7, <1>8, <1>9, <1>10, <1>11,
     <1>12, <1>13, <1>14, <1>15, <1>16, <1>17, <1>18, <1>19, <1>20,
     <1>21, <1>22, <1>23, <1>24, <1>25, <1>26, <1>27, <1>28, <1>29,
     <1>30, <1>31, <1>32 DEF Next, Serve, Server, Load

-----------------------------------------------------------------------------
(* The theorems.                                                           *)

\* A daemon starts with no calls and no requests; a pid file may be left over.
LEMMA InitInv == Init => ServerInv
<1> SUFFICES ASSUME Init PROVE ServerInv
  OBVIOUS
<1>1. proc \in [Pid -> Process] /\ file \in Pid \union {None}
  BY DEF Init, Process
<1>2. \A p \in Pid : proc[p] \notin {"leaving", "unlinking"}
  BY DEF Init
<1>3. /\ call = [c \in Caller |-> NoCall] /\ llama = [p \in Pid |-> NoLlama]
      /\ loaded = [p \in Pid |-> None] /\ ensure = [p \in Pid |-> None]
      /\ req = [r \in Request |-> NoRequest] /\ flock = None
  BY DEF Init
<1>4. TypeOK
  BY <1>1, <1>3 DEF TypeOK, NoCall, NoLlama, NoRequest
<1>5. OneAtATime /\ StopsOurs /\ RequestsAreServed /\ LoadedIsRunning
  BY <1>2, <1>3 DEF OneAtATime, StopsOurs, RequestsAreServed, LoadedIsRunning, NoCall, NoLlama, NoRequest, Goes
<1>6. QED
  BY <1>4, <1>5 DEF ServerInv

\* Every step keeps them in agreement.
LEMMA InvStep == ServerInv /\ [Next]_vars => ServerInv'
BY TypeStep, OneStep, OursStep, ServedStep, LoadedStep DEF ServerInv

\* The starts and stops of all daemons, the processes and the model requests agree:
\* no stop ever signals a program that is not our server (stop_pid, server.rs).
THEOREM InvHolds == Spec => []ServerInv
BY InitInv, InvStep, PTL DEF Spec

\* The variables keep their types.
THEOREM TypeCorrect == Spec => []TypeOK
<1>1. ServerInv => TypeOK
  BY DEF ServerInv
<1>2. QED
  BY <1>1, InvHolds, PTL

\* A stop that answers has seen its server gone, and has killed the llama-server of
\* one that it had to kill.
THEOREM StopMeansStoppedHolds == Spec => StopMeansStopped
<1> DEFINE Stopped == \A c \in Caller : (call[c].at = "exit" /\ call'[c].at = "clean")
           => /\ proc'[call[c].pid] \in {"zombie", "gone"}
              /\ proc[call[c].pid] \in Up => llama'[call[c].pid].is \notin Goes
<1>1. ASSUME ServerInv, [Next]_vars PROVE Stopped
  <2>0. TypeOK /\ OneAtATime /\ StopsOurs
    BY <1>1 DEF ServerInv
  <2> SUFFICES ASSUME NEW c \in Caller, call[c].at = "exit", call'[c].at = "clean"
               PROVE  /\ proc'[call[c].pid] \in {"zombie", "gone"}
                      /\ proc[call[c].pid] \in Up => llama'[call[c].pid].is \notin Goes
    OBVIOUS
  <2>1. PICK e \in Caller : Serve(e) \/ Flock(e) \/ (\E op \in {"start", "stop"} : Ask(e, op))
                           \/ DaemonDies(Daemon[e])
    BY <1>1, CallSteps DEF calls
  <2>2. call[c].pid \in Pid /\ proc[call[c].pid] \notin {"unused", "other"}
    BY <2>0 DEF StopsOurs
  <2>3. ~DaemonDies(Daemon[e])
    BY <2>0, CallType DEF DaemonDies, NoCall
  <2>4. ~Flock(e) /\ ~\E op \in {"start", "stop"} : Ask(e, op)
    BY <2>0, CallType DEF Flock, Ask, Calls
  <2>5. Serve(c)
    BY <2>0, <2>1, <2>3, <2>4, ServeTurn
  <2>6. Exited(c) \/ ForceKill(c)
    BY <2>5 DEF Serve, Look, ReadFile, RemoveRead, RemoveUnlink, Spawn, WaitReady, StopPing, Terminate,
                Exited, ForceKill
  <2>7. CASE Exited(c)
    BY <2>2, <2>7 DEF Exited, Alive, servers, Up
  <2>8. CASE ForceKill(c)
    BY <2>0, <2>2, <2>8 DEF ForceKill, NoLlama, Goes, TypeOK
  <2>9. QED
    BY <2>6, <2>7, <2>8
<1>2. ServerInv /\ [Next]_vars => Stopped
  BY <1>1
<1>3. QED
  BY <1>2, InvHolds, PTL DEF Spec, StopMeansStopped

\* A request that is told that its model is ready streams from that model, unless the
\* llama-server of another server has the port.
THEOREM ReadyIsLoadedHolds == Spec => ReadyIsLoaded
<1> DEFINE Told == \A r \in Request : (req[r].at = "wait" /\ req'[r].at = "stream"
                             /\ \A p \in Pid \ {req[r].of} : llama[p].is \notin Goes)
           => Health = {req[r].model}
<1>1. ASSUME ServerInv, [Next]_vars PROVE Told
  <2>0. TypeOK /\ RequestsAreServed /\ LoadedIsRunning
    BY <1>1 DEF ServerInv
  <2> SUFFICES ASSUME NEW r \in Request, req[r].at = "wait", req'[r].at = "stream",
                      \A p \in Pid \ {req[r].of} : llama[p].is \notin Goes
               PROVE  Health = {req[r].model}
    OBVIOUS
  <2>1. Health # {}
    BY <1>1, <2>0, ReadyTells DEF Ready
  <2>2. ASSUME NEW p \in Pid, llama[p].is = "ready" PROVE llama[p].model = req[r].model
    <3>1. p = req[r].of
      BY <2>2 DEF Goes
    <3>2. QED
      BY <2>0, <2>2, <3>1 DEF LoadedIsRunning, Goes
  <2>3. QED
    BY <2>1, <2>2 DEF Health
<1>2. ServerInv /\ [Next]_vars => Told
  BY <1>1
<1>3. QED
  BY <1>2, InvHolds, PTL DEF Spec, ReadyIsLoaded
=============================================================================
