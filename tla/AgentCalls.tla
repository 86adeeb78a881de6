----------------------------- MODULE AgentCalls -----------------------------
(***************************************************************************)
(* The agent the daemon keeps: one Pi process, spoken to over its stdin    *)
(* and stdout, one mutex around it, and the endpoints that use it          *)
(* (daemon/agent.rs, daemon/session.rs, core/agent/pi.rs).                 *)
(*                                                                         *)
(* A call is one HTTP request.  A prompt runs in a task of its own, which  *)
(* holds the mutex for the whole reply and copies Pi's lines into the      *)
(* client's bounded channel; a client that leaves cancels it.  Every other *)
(* call writes a command and waits, at most ANSWER_TIMEOUT, for the line   *)
(* that answers it.  Pi itself is external: it takes commands in order and *)
(* prints the lines the code reads.                                        *)
(***************************************************************************)
EXTENDS FaultBudget, Naturals, Sequences, FiniteSets

CONSTANTS Requests,     \* how many requests arrive, numbered as they do
          Models,       \* the models that can be picked
          Nothing,      \* None
          Room          \* the channel's capacity (32 in the code)

ASSUME RoomAssumption == Room \in Nat \ {0}
ASSUME RequestsAssumption == Requests \in Nat
ASSUME NothingAssumption == Nothing \notin Models \cup (1..Requests)

VARIABLES picked,       \* current model in config.toml
          agent,        \* AppState.agent: the Pi process and its two pipes
          agentModel,   \* AppState.agent_model
          queue,        \* the agent mutex: its holder, then those who wait
          calls         \* the state of each request

vars == <<picked, agent, agentModel, queue, calls, left>>

Calls == 1..Requests

Ops == {"prompt", "session", "state", "start", "end"}

\* How a call may have ended; the reply of a broken one was given up half way.
Ended == {"done", "failed", "broken"}

Line(kind, of, session) == [kind |-> kind, of |-> of, session |-> session]

NoAgent == [up |-> "none", model |-> Nothing, session |-> 0, work |-> Nothing,
            in |-> <<>>, out |-> <<>>]

NewAgent(model, session) ==
    [NoAgent EXCEPT !.up = "alive", !.model = model, !.session = session]

NoCall == [op |-> "none", step |-> "none", want |-> Nothing, held |-> <<>>,
           chan |-> <<>>, gone |-> FALSE, session |-> 0]

Init ==
    /\ picked \in Models
    /\ agent = NoAgent
    /\ agentModel = Nothing
    /\ queue = <<>>
    /\ calls = [c \in Calls |-> NoCall]
    /\ left = Faults

-----------------------------------------------------------------------------
(* What a call does to its own record, and to the mutex.                   *)

Step(c, step) == [calls EXCEPT ![c].step = step]

\* The end of a call: it drops its guard, so the next waiter has the mutex.
End(c, step) ==
    /\ calls' = [calls EXCEPT ![c].step = step, ![c].held = <<>>]
    /\ queue' = Tail(queue)

Holds(c) == queue # <<>> /\ Head(queue) = c

\* A session no Pi has had yet, an id Pi makes up itself.
FreshSession ==
    LET used == {calls[c].session : c \in Calls} \cup {agent.session}
                \cup {agent.out[i].session : i \in DOMAIN agent.out}
    IN  CHOOSE s \in 1..(Cardinality(used) + 1) : s \notin used

\* send_to_pi: the write fails once Pi has gone.
Write(kind, c) ==
    /\ agent.up = "alive"
    /\ agent' = [agent EXCEPT !.in = Append(@, Line(kind, c, 0))]

-----------------------------------------------------------------------------
(* The requests.                                                           *)

\* A handler starts and asks for the mutex.  Session and start read the picked
\* model before, so the pick may be another one once they have it.
Call(c, op) ==
    /\ calls[c] = NoCall
    /\ \A d \in 1..(c - 1) : calls[d] # NoCall
    /\ IF op \in {"session", "start"}
       THEN /\ calls' = [calls EXCEPT ![c].op = op, ![c].step = "called",
                                     ![c].want = picked]
            /\ UNCHANGED queue
       ELSE /\ calls' = [calls EXCEPT ![c].op = op, ![c].step = "waits"]
            /\ queue' = Append(queue, c)
    /\ UNCHANGED <<picked, agent, agentModel, left>>

Lock(c) ==
    /\ calls[c].step = "called"
    /\ queue' = Append(queue, c)
    /\ calls' = Step(c, "waits")
    /\ UNCHANGED <<picked, agent, agentModel, left>>

Enters(c, op) == Holds(c) /\ calls[c].op = op /\ calls[c].step = "waits"

\* Every call but session and start fails without an agent, and every call
\* that writes fails when Pi has gone: the agent stays in place.
NoAgentToUse(c) ==
    /\ Holds(c) /\ calls[c].step = "waits"
    /\ \/ calls[c].op \in {"prompt", "state", "end"} /\ agent.up # "alive"
       \/ /\ calls[c].op = "session"
          /\ agent.up = "dead"
          /\ agentModel \in {Nothing, calls[c].want}
    /\ End(c, "failed")
    /\ UNCHANGED <<picked, agent, agentModel, left>>

Start(c) ==
    /\ Enters(c, "start")
    /\ \/ agent.up # "none" /\ UNCHANGED <<agent, agentModel>>
       \/ /\ agent.up = "none"
          /\ agent' = NewAgent(calls[c].want, FreshSession)
          /\ agentModel' = calls[c].want
    /\ End(c, "done")
    /\ UNCHANGED <<picked, left>>

\* Whether do_create_session kills the Pi that runs: another model was picked.
Outdated(c) == agent.up # "none" /\ agentModel \notin {Nothing, calls[c].want}

\* do_create_session with an agent that stays: Pi is asked for a new session.
NewSession(c) ==
    /\ Enters(c, "session") /\ ~Outdated(c)
    /\ Write("new_session", c)
    /\ calls' = Step(c, "new_session")
    /\ UNCHANGED <<picked, agentModel, queue, left>>

\* Mutant of StartSession: the model is noted only when none was.
StartSessionNamedOnce(c) ==
    /\ Enters(c, "session")
    /\ agent.up = "none" \/ Outdated(c)
    /\ agent' = [NewAgent(calls[c].want, FreshSession) EXCEPT
                   !.in = <<Line("get_state", c, 0)>>]
    /\ agentModel' = IF agentModel = Nothing THEN calls[c].want ELSE agentModel
    /\ calls' = Step(c, "get_state")
    /\ UNCHANGED <<picked, queue, left>>

\* do_create_session without an agent, or with one that has to go: pi::new and
\* the command get_state, written before anyone else has the mutex.
StartSession(c) ==
    /\ Enters(c, "session")
    /\ agent.up = "none" \/ Outdated(c)
    /\ agent' = [NewAgent(calls[c].want, FreshSession) EXCEPT
                   !.in = <<Line("get_state", c, 0)>>]
    /\ agentModel' = calls[c].want
    /\ calls' = Step(c, "get_state")
    /\ UNCHANGED <<picked, queue, left>>

\* pi::new fails: the old Pi is gone by then, and agent_model keeps its name.
StartFails(c) ==
    /\ \/ Enters(c, "session") /\ (agent.up = "none" \/ Outdated(c))
       \/ Enters(c, "start") /\ agent.up = "none"
    /\ Fault
    /\ agent' = NoAgent
    /\ End(c, "failed")
    /\ UNCHANGED <<picked, agentModel>>

State(c) ==
    /\ Enters(c, "state")
    /\ Write("get_state", c)
    /\ calls' = Step(c, "get_state")
    /\ UNCHANGED <<picked, agentModel, queue, left>>

EndSession(c) ==
    /\ Enters(c, "end")
    /\ Write("abort", c)
    /\ End(c, "done")
    /\ UNCHANGED <<picked, agentModel, left>>

-----------------------------------------------------------------------------
(* PiReader::ask: read on until the line that answers this command.        *)

Asks(c) == Holds(c) /\ calls[c].step \in {"new_session", "get_state"}

\* Mutant of Answers: the next response of Pi, whatever it responds to.
AnswersNext(line, c) == line.kind \in {"new_session", "get_state"}

\* The answer carries the id of the command it answers.
Answers(line, c) == line.kind = calls[c].step /\ line.of = c

Skip(c) ==
    /\ Asks(c) /\ agent.out # <<>>
    /\ ~Answers(Head(agent.out), c)
    /\ agent' = [agent EXCEPT !.out = Tail(@)]
    /\ UNCHANGED <<picked, agentModel, queue, calls, left>>

\* The new session is there: ask which one it is.
SessionMade(c) ==
    /\ Asks(c) /\ calls[c].step = "new_session"
    /\ agent.up = "alive" /\ agent.out # <<>> /\ Answers(Head(agent.out), c)
    /\ agent' = [agent EXCEPT !.out = Tail(@), !.in = Append(@, Line("get_state", c, 0))]
    /\ calls' = Step(c, "get_state")
    /\ UNCHANGED <<picked, agentModel, queue, left>>

StateRead(c) ==
    /\ Asks(c) /\ calls[c].step = "get_state"
    /\ agent.out # <<>> /\ Answers(Head(agent.out), c)
    /\ agent' = [agent EXCEPT !.out = Tail(@)]
    /\ calls' = [calls EXCEPT ![c].step = "done", ![c].session = Head(agent.out).session]
    /\ queue' = Tail(queue)
    /\ UNCHANGED <<picked, agentModel, left>>

\* Pi has gone: its stdout ends, or the second command cannot be written.
AskEnds(c) ==
    /\ Asks(c) /\ agent.up = "dead"
    /\ \/ agent.out = <<>>
       \/ /\ agent.out # <<>> /\ Answers(Head(agent.out), c)
          /\ calls[c].step = "new_session"
    /\ agent' = [agent EXCEPT !.out = IF @ = <<>> THEN @ ELSE Tail(@)]
    /\ End(c, "failed")
    /\ UNCHANGED <<picked, agentModel, left>>

\* ANSWER_TIMEOUT: the command stays with Pi, which answers it some day.
AskTimesOut(c) ==
    /\ Asks(c) /\ agent.up = "alive" /\ agent.out = <<>>
    /\ Fault
    /\ End(c, "failed")
    /\ UNCHANGED <<picked, agent, agentModel>>

-----------------------------------------------------------------------------
(* process_chat_prompt and read_from_pi.                                   *)

Prompt(c) ==
    /\ Enters(c, "prompt")
    /\ Write("prompt", c)
    /\ calls' = Step(c, "reads")
    /\ UNCHANGED <<picked, agentModel, queue, left>>

Reads(c) == Holds(c) /\ calls[c].step \in {"reads", "drains"}

\* A line that does not parse ends the reply with an error, wherever Pi is.
ReadLine(c) ==
    /\ Reads(c) /\ calls[c].held = <<>> /\ agent.out # <<>>
    /\ agent' = [agent EXCEPT !.out = Tail(@)]
    /\ IF Head(agent.out).kind = "junk"
       THEN End(c, "broken")
       ELSE /\ calls' = [calls EXCEPT ![c].held = <<Head(agent.out)>>]
            /\ UNCHANGED queue
    /\ UNCHANGED <<picked, agentModel, left>>

\* The line goes to the channel, or nowhere when its receiver has gone.
\* agent_settled is the last one.
SendLine(c) ==
    /\ Reads(c) /\ calls[c].held # <<>>
    /\ calls[c].gone \/ Len(calls[c].chan) < Room
    /\ LET line == Head(calls[c].held)
       IN  calls' = [calls EXCEPT
                       ![c].held = <<>>,
                       ![c].step = IF line.kind = "settled" THEN "done" ELSE @,
                       ![c].chan = IF calls[c].gone THEN @ ELSE Append(@, line)]
    /\ queue' = IF Head(calls[c].held).kind = "settled" THEN Tail(queue) ELSE queue
    /\ UNCHANGED <<picked, agent, agentModel, left>>

\* Mutant of ReplyEnds: only agent_settled ends a reply.
ReplyEndsNever(c) == Reads(c) /\ agent.work = c /\ agent.up = "dead" /\ UNCHANGED vars

\* Pi has gone and its stdout is read to the end: the reply ends, no error.
ReplyEnds(c) ==
    /\ Reads(c) /\ calls[c].held = <<>>
    /\ agent.up = "dead" /\ agent.out = <<>>
    /\ End(c, "done")
    /\ UNCHANGED <<picked, agent, agentModel, left>>

\* Mutant of Cancelled: Pi is told to abort, and its output is left to others.
CancelledAtOnce(c) ==
    /\ Holds(c) /\ calls[c].step = "reads" /\ calls[c].gone
    /\ agent' = IF agent.up = "alive"
                THEN [agent EXCEPT !.in = Append(@, Line("abort", c, 0))] ELSE agent
    /\ End(c, "done")
    /\ UNCHANGED <<picked, agentModel, left>>

\* SseGuard dropped: the read is given up where it is, with the line it holds,
\* Pi is told to abort, and the rest of its output is read.
Cancelled(c) ==
    /\ Holds(c) /\ calls[c].step = "reads" /\ calls[c].gone
    /\ agent' = IF agent.up = "alive"
                THEN [agent EXCEPT !.in = Append(@, Line("abort", c, 0))] ELSE agent
    /\ calls' = [calls EXCEPT ![c].step = "drains", ![c].held = <<>>]
    /\ UNCHANGED <<picked, agentModel, queue, left>>

ClientTakes(c) ==
    /\ calls[c].chan # <<>>
    /\ calls' = [calls EXCEPT ![c].chan = Tail(@)]
    /\ UNCHANGED <<picked, agent, agentModel, queue, left>>

ClientLeaves(c) ==
    /\ calls[c].op = "prompt" /\ ~calls[c].gone
    /\ calls[c].step \notin Ended
    /\ calls' = [calls EXCEPT ![c].gone = TRUE, ![c].chan = <<>>]
    /\ UNCHANGED <<picked, agent, agentModel, queue, left>>

-----------------------------------------------------------------------------
(* Pi, and the user who picks a model.                                     *)

Prints(lines) == agent.out \o lines

\* The end of a reply, on its own or because a command stopped it.
Settled == IF agent.work = Nothing THEN <<>> ELSE <<Line("settled", agent.work, 0)>>

PiReads ==
    /\ agent.up = "alive" /\ agent.in # <<>>
    /\ LET c == Head(agent.in).of
           kind == Head(agent.in).kind
           rest == [agent EXCEPT !.in = Tail(@)]
       IN  agent' =
             CASE kind = "prompt" ->
                    [rest EXCEPT !.work = IF @ = Nothing THEN c ELSE @,
                                 !.out = Prints(<<Line("prompt", c, 0)>>)]
               [] kind = "abort" ->
                    [rest EXCEPT !.work = Nothing,
                                 !.out = Prints(Settled \o <<Line("abort", c, 0)>>)]
               [] kind = "new_session" ->
                    [rest EXCEPT !.work = Nothing, !.session = FreshSession,
                                 !.out = Prints(Settled \o <<Line(kind, c, 0)>>)]
               [] kind = "get_state" ->
                    [rest EXCEPT !.out = Prints(<<Line(kind, c, agent.session)>>)]
    /\ UNCHANGED <<picked, agentModel, queue, calls, left>>

\* The reply of the prompt Pi works on, then agent_settled.
PiReplies ==
    /\ agent.up = "alive" /\ agent.work # Nothing
    /\ agent' = [agent EXCEPT !.out = Prints(<<Line("event", agent.work, 0)>> \o Settled),
                              !.work = Nothing]
    /\ UNCHANGED <<picked, agentModel, queue, calls, left>>

\* A line Tiles cannot parse: a kind of message_update it does not know.
PiPrintsJunk ==
    /\ agent.up = "alive" /\ agent.work # Nothing
    /\ Fault
    /\ agent' = [agent EXCEPT !.out = Prints(<<Line("junk", agent.work, 0)>>)]
    /\ UNCHANGED <<picked, agentModel, queue, calls>>

PiDies ==
    /\ agent.up = "alive"
    /\ Fault
    /\ agent' = [agent EXCEPT !.up = "dead", !.in = <<>>, !.work = Nothing]
    /\ UNCHANGED <<picked, agentModel, queue, calls>>

\* The pick matters to the calls that have still to read it.
Pick ==
    /\ \E c \in Calls : calls[c] = NoCall
    /\ picked' \in Models \ {picked}
    /\ UNCHANGED <<agent, agentModel, queue, calls, left>>

-----------------------------------------------------------------------------
Handles(c) ==
    \/ Lock(c)
    \/ NoAgentToUse(c)
    \/ Start(c)
    \/ NewSession(c)
    \/ StartSession(c)
    \/ State(c)
    \/ EndSession(c)
    \/ Skip(c)
    \/ SessionMade(c)
    \/ StateRead(c)
    \/ AskEnds(c)
    \/ Prompt(c)
    \/ ReadLine(c)
    \/ SendLine(c)
    \/ ReplyEnds(c)
    \/ Cancelled(c)
    \/ ClientTakes(c)

Environment ==
    \/ PiPrintsJunk
    \/ PiDies
    \/ Pick
    \/ \E c \in Calls : StartFails(c) \/ AskTimesOut(c) \/ ClientLeaves(c)
    \/ \E c \in Calls, op \in Ops : Call(c, op)

Next ==
    \/ \E c \in Calls : Handles(c)
    \/ PiReads
    \/ PiReplies
    \/ Environment

\* Tasks run on, a client that stays takes its events, and a live Pi works.
Fairness ==
    /\ \A c \in Calls : WF_vars(Handles(c))
    /\ WF_vars(PiReads)
    /\ WF_vars(PiReplies)

Spec == Init /\ [][Next]_vars /\ Fairness

-----------------------------------------------------------------------------
(* Properties.                                                             *)

Kinds == {"prompt", "abort", "new_session", "get_state", "event", "settled", "junk"}
Lines == [kind : Kinds, of : Calls, session : Nat]
Asking == {"new_session", "get_state"}
Reading == {"reads", "drains"}

\* The types.
TypeOK ==
    /\ picked \in Models
    /\ agent \in [up : {"none", "alive", "dead"}, model : Models \cup {Nothing}, session : Nat,
                  work : Calls \cup {Nothing}, in : Seq(Lines), out : Seq(Lines)]
    /\ agentModel \in Models \cup {Nothing}
    /\ queue \in Seq(Calls)
    /\ calls \in [Calls -> [op : Ops \cup {"none"},
                            step : {"none", "called", "waits"} \cup Asking \cup Reading \cup Ended,
                            want : Models \cup {Nothing}, held : Seq(Lines), chan : Seq(Lines),
                            gone : BOOLEAN, session : Nat]]
    /\ left \in 0..Faults

\* A message is saved with the name in agent_model: a Pi that is there is the
\* one that name was written for, also after a restart or a failed one.
ModelIsThePis == agent.up # "none" => agentModel = agent.model

\* Commands lie in the pipe of a Pi that is there.
InputNeedsPi == agent.in # <<>> => agent.up = "alive"

\* The mutex has one holder, and only calls that have not ended wait for it; one
\* that has written to Pi has it until it ends.
OneAtATime ==
    /\ \A i, j \in DOMAIN queue : queue[i] = queue[j] => i = j
    /\ \A c \in Calls : calls[c].step \notin {"none", "called"} \cup Ended
                        <=> \E i \in DOMAIN queue : queue[i] = c
    /\ \A c \in Calls : calls[c].step \in Asking \cup Reading => Holds(c)

\* Each kind of request takes its own steps.
StepsFit ==
    \A c \in Calls : /\ calls[c].step \in Reading => calls[c].op = "prompt"
                     /\ calls[c].step = "new_session" => calls[c].op = "session"
                     /\ calls[c].step = "get_state" => calls[c].op \in {"session", "state"}
                     /\ calls[c].held # <<>> => calls[c].step \in Reading

\* What is in the pipes, and what Pi works on, was written by a request that had
\* the mutex, and of its kind.
HasWritten(c) == calls[c].step \notin {"none", "called", "waits"}
LinesAreOfCalls ==
    /\ agent.work # Nothing =>
          agent.up = "alive" /\ HasWritten(agent.work) /\ calls[agent.work].op = "prompt"
    /\ \A i \in DOMAIN agent.in :
          /\ HasWritten(agent.in[i].of)
          /\ agent.in[i].kind \in {"prompt", "abort", "new_session", "get_state"}
          /\ agent.in[i].kind = "prompt" => calls[agent.in[i].of].op = "prompt"
    /\ \A i \in DOMAIN agent.out : HasWritten(agent.out[i].of)

OfReply(line) == line.kind \in {"event", "settled", "junk"}
NoReplyIn(lines) == \A i \in DOMAIN lines : ~OfReply(lines[i])
HasLast(c) == \E i \in DOMAIN calls[c].held : calls[c].held[i].kind = "settled"

\* While no reply was given up half way, all that is under way of one, from the
\* prompt in the pipe to the last line, is of the prompt that has the mutex; and
\* nothing more comes after that line.
ReplyIsRead ==
    (\A d \in Calls : calls[d].step # "broken") =>
        /\ \A i \in DOMAIN agent.in : agent.in[i].kind = "prompt" =>
              /\ calls[agent.in[i].of].step \in Reading /\ ~HasLast(agent.in[i].of)
              /\ agent.work = Nothing /\ NoReplyIn(agent.out)
              /\ \A j \in DOMAIN agent.in : agent.in[j].kind = "prompt" => j = i
        /\ agent.work # Nothing =>
              /\ calls[agent.work].step \in Reading /\ ~HasLast(agent.work)
              /\ \A i \in DOMAIN agent.out : agent.out[i].kind # "settled"
        /\ \A i \in DOMAIN agent.out : OfReply(agent.out[i]) =>
              /\ calls[agent.out[i].of].step \in Reading /\ ~HasLast(agent.out[i].of)
              /\ agent.out[i].kind = "settled" =>
                    \A j \in DOMAIN agent.out : OfReply(agent.out[j]) => j <= i
        /\ \A c \in Calls : \A i \in DOMAIN calls[c].held :
              OfReply(calls[c].held[i]) => calls[c].held[i].of = c
        /\ \A c \in Calls : \A i \in DOMAIN calls[c].chan :
              OfReply(calls[c].chan[i]) => calls[c].chan[i].of = c

\* The new session a call asks for is the last thing Pi was told, and is told back
\* last; then Pi is in a session that nobody was handed out yet, with no reply
\* under way, and the only line in the pipes is the one about that session.
IsFresh == agent.work = Nothing /\ \A d \in Calls : calls[d].session # agent.session
SessionIsMade ==
    \A c \in Calls :
        /\ calls[c].step = "new_session" =>
              /\ \A i \in DOMAIN agent.in : agent.in[i].of = c =>
                    i = Len(agent.in) /\ agent.in[i].kind = "new_session"
              /\ \A i \in DOMAIN agent.out : agent.out[i].of = c =>
                    i = Len(agent.out) /\ agent.in = <<>> /\ IsFresh
        /\ calls[c].step = "get_state" /\ calls[c].op = "session" =>
              /\ IsFresh
              /\ agent.in = <<>> \/ agent.out = <<>>
              /\ \A i \in DOMAIN agent.in :
                    i = 1 /\ agent.in[i].kind = "get_state" /\ agent.in[i].of = c
              /\ \A i \in DOMAIN agent.out :
                    i = 1 /\ agent.out[i].kind = "get_state" /\ agent.out[i].session = agent.session

\* The mutex, the pipes, Pi and the calls agree.
AgentInv ==
    /\ TypeOK
    /\ ModelIsThePis
    /\ InputNeedsPi
    /\ OneAtATime
    /\ StepsFit
    /\ LinesAreOfCalls
    /\ ReplyIsRead
    /\ SessionIsMade

\* What a client is sent of a reply is of the reply to its own prompt, unless
\* some reply before it was given up at a line that did not parse: what Pi
\* printed after that line is still in the pipe.
OwnReply ==
    (\A d \in Calls : calls[d].step # "broken") =>
        \A c \in Calls : \A i \in DOMAIN calls[c].chan :
            calls[c].chan[i].kind \in {"event", "settled"} => calls[c].chan[i].of = c

\* A session that is handed out is the one Pi is in, made for this call and for
\* no other, however late Pi answered the calls before; and nothing of an older
\* reply, not even of one given up half way, is left in the pipe for its prompts.
SessionIsNew ==
    [][\A c \in Calls :
         (calls[c].op = "session" /\ calls[c].step # "done" /\ calls'[c].step = "done") =>
             /\ calls'[c].session = agent.session
             /\ \A d \in Calls \ {c} : calls[d].session # agent.session
             /\ agent'.work = Nothing
             /\ \A i \in DOMAIN agent'.out :
                  agent'.out[i].kind \notin {"event", "settled", "junk"}]_vars

\* A call that was told to drain a Pi with nothing left to say.
Stuck(c) == /\ calls[c].step = "drains" /\ calls[c].held = <<>>
            /\ agent.out = <<>> /\ agent.in = <<>> /\ agent.work = Nothing

\* Every call ends, whatever clients do, unless a client left just as the last
\* line of its reply was on its way to it.
EveryCallEnds ==
    \A c \in Calls : calls[c].step # "none" ~>
                        \/ calls[c].step \in Ended
                        \/ \E d \in Calls : Stuck(d)
=============================================================================
