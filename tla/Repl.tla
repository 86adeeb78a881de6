-------------------------------- MODULE Repl --------------------------------
(***************************************************************************)
(* `tiles run`: loading the model with retries and downloads, then the     *)
(* loop of the REPL around a Pi of its own (repl.rs).                      *)
(*                                                                         *)
(* The loop writes what the user typed to Pi and reads Pi's lines until    *)
(* the one that ends its wait: agent_end for a prompt, whose turn is then  *)
(* saved in three statements, or the response to a command.  Ctrl-C sets a *)
(* flag that the loop looks at when it has the next line.  Pi is external. *)
(***************************************************************************)
EXTENDS Naturals, Sequences, FiniteSets

CONSTANTS MaxInputs,    \* what the user types that reaches Pi or the store
          MaxRuns,      \* how often `tiles run` is started
          MaxFaults     \* how many kinds of fault happen, each once

ASSUME ReplAssumption == MaxInputs \in Nat /\ MaxRuns \in Nat \ {0} /\ MaxFaults \in Nat

MAX_LOAD_MODEL_RETRIES == 3

VARIABLES pc,           \* where the REPL is
          run,          \* the number of this run, and the session of its Pi
          retries, cache,               \* load_model, and the model on disk
          interrupted,  \* ~running: Ctrl-C was pressed
          repl,         \* ReplSession
          ended,        \* the agent_end event that is being saved
          pi,           \* the Pi process, its pipes, and its settings.json
          chats, snapshots,             \* the chat database
          inputs, happened              \* what the bounds count

replVars == <<pc, run, retries, cache, interrupted, repl, ended, pi, chats,
              snapshots, inputs, happened>>

Old == 0                \* a session of an earlier version, or of the daemon
Sessions == 0..MaxRuns
Levels == {"low", "high"}           \* those Tiles knows
PiLevels == Levels \cup {"other"}    \* Pi has more, which Tiles does not parse
None == 0

PiLine(kind, of) == [kind |-> kind, of |-> of]

Chat(session, role, parent, turn) ==
    [session |-> session, role |-> role, parent |-> parent, turn |-> turn]

NewPi(setting, level) ==
    [up |-> TRUE, work |-> None, level |-> level, setting |-> setting,
     in |-> <<>>, out |-> <<>>]

\* Tiles' parse of a level that Pi reports.
Parsed(level, otherwise) == IF level \in Levels THEN level ELSE otherwise

\* ReplSession::new, from Pi's first state.
NewRepl(session, level) ==
    [session |-> session, started |-> FALSE, last |-> None, pending |-> FALSE,
     turns |-> <<>>, level |-> Parsed(level, "low")]

NoTurn == 100           \* the turn of the old session's chats

ReplInit ==
    /\ pc = "load" /\ run = 1 /\ retries = 0
    /\ cache \in {"missing", "partial", "whole"}
    /\ interrupted = FALSE
    /\ ended = None
    /\ \E level \in PiLevels : repl = NewRepl(1, level) /\ pi = NewPi("low", level)
    /\ chats = <<Chat(Old, "user", None, NoTurn), Chat(Old, "assistant", 1, NoTurn)>>
    /\ \E turns \in {<<>>, <<NoTurn>>} :
         snapshots = [s \in Sessions |-> IF s = Old THEN turns ELSE <<>>]
    /\ inputs = 0 /\ happened = {}

Happens(fault) ==
    /\ fault \notin happened
    /\ Cardinality(happened) < MaxFaults
    /\ happened' = happened \cup {fault}

Goes(place) == pc' = place

-----------------------------------------------------------------------------
(* load_model.                                                             *)

loadUnchanged == <<run, interrupted, repl, ended, pi, chats, snapshots, inputs>>

\* Loading needs the whole file, and a server that takes it.
Load ==
    /\ pc = "load" /\ retries <= MAX_LOAD_MODEL_RETRIES
    /\ IF cache = "whole" THEN Goes("input") ELSE Goes("download")
    /\ UNCHANGED <<retries, cache, happened, loadUnchanged>>

LoadFails ==
    /\ pc = "load" /\ retries <= MAX_LOAD_MODEL_RETRIES /\ cache = "whole"
    /\ "server" \in happened \/ MaxFaults > Cardinality(happened)
    /\ happened' = happened \cup {"server"}
    /\ Goes("download")
    /\ UNCHANGED <<retries, cache, loadUnchanged>>

TooManyRetries ==
    /\ pc = "load" /\ retries > MAX_LOAD_MODEL_RETRIES
    /\ Goes("failed")
    /\ UNCHANGED <<retries, cache, happened, loadUnchanged>>

\* A model that was not there at all is loaded from the first try again.
Download ==
    /\ pc = "download"
    /\ Goes("load")
    /\ retries' = IF cache = "missing" THEN 0 ELSE retries + 1
    /\ cache' = "whole"
    /\ UNCHANGED <<happened, loadUnchanged>>

DownloadFails ==
    /\ pc = "download" /\ Happens("offline")
    /\ Goes("failed")
    /\ UNCHANGED <<retries, cache, loadUnchanged>>

\* The daemon deletes the model for its user while this process loads it.
Deleted ==
    /\ pc \in {"load", "download"} /\ Happens("deleted")
    /\ cache' = "missing"
    /\ UNCHANGED <<pc, retries, loadUnchanged>>

-----------------------------------------------------------------------------
(* What the user types.                                                    *)

typingUnchanged == <<run, retries, cache, interrupted, ended, chats, snapshots>>

Types == pc = "input" /\ inputs < MaxInputs /\ inputs' = inputs + 1

\* send_to_pi, whose error ends the REPL.
Send(line) ==
    IF pi.up THEN pi' = [pi EXCEPT !.in = Append(@, line)] /\ Goes("reads")
             ELSE pi' = pi /\ Goes("failed")

\* handle_input_prompt, for a prompt or a skill: a resumed history goes along
\* once.  The number of the input stands for its text.
TypePrompt ==
    /\ Types
    /\ Send(PiLine("prompt", inputs'))
    /\ repl' = [repl EXCEPT !.pending = FALSE]
    /\ UNCHANGED <<happened, typingUnchanged>>

\* /reasoning with an effort Tiles knows, and /skills.
TypeCommand ==
    /\ Types
    /\ \E kind \in {"get_commands"} \cup Levels : Send(PiLine(kind, inputs'))
    /\ UNCHANGED <<repl, happened, typingUnchanged>>

ChatsOf(session) == {i \in DOMAIN chats : chats[i].session = session}

LastOf(set) == CHOOSE i \in set : \A j \in set : j <= i

\* Mutants of Resume: the last chat, or the snapshot, of the session before.
ResumeWithoutLast(session) ==
    /\ Types
    /\ ChatsOf(session) # {}
    /\ repl' = [repl EXCEPT !.session = session, !.started = TRUE, !.pending = TRUE,
                            !.turns = snapshots[session]]
    /\ UNCHANGED <<pc, pi, happened, typingUnchanged>>

\* load_session.
Resume(session) ==
    /\ Types
    /\ ChatsOf(session) # {}
    /\ repl' = [repl EXCEPT !.session = session, !.started = TRUE, !.pending = TRUE,
                            !.last = LastOf(ChatsOf(session)),
                            !.turns = snapshots[session]]
    /\ UNCHANGED <<pc, pi, happened, typingUnchanged>>

\* load_session on an id that is in no database: the first of no sessions.
ResumePanics ==
    /\ Types /\ Goes("failed")
    /\ UNCHANGED <<repl, pi, happened, typingUnchanged>>

\* handle_repl_exit: an error of its abort ends the REPL too.
Exit ==
    /\ pc = "input"
    /\ Goes(IF pi.up THEN "ended" ELSE "failed")
    /\ UNCHANGED <<repl, pi, inputs, happened, typingUnchanged>>

\* A new process, with a Pi and a session of its own.  Pi starts at the level
\* that was persisted, or at one its model allows.
Rerun ==
    /\ pc \in {"ended", "failed"} /\ run < MaxRuns
    /\ Goes("load") /\ run' = run + 1 /\ retries' = 0
    /\ interrupted' = FALSE
    /\ \E level \in PiLevels : /\ repl' = NewRepl(run', level)
                               /\ pi' = NewPi(pi.setting, level)
    /\ ended' = None
    /\ UNCHANGED <<cache, chats, snapshots, inputs, happened>>

-----------------------------------------------------------------------------
(* The inner loop.                                                         *)

CtrlC ==
    /\ pc \in {"reads", "asks", "user", "reply", "snapshot"} /\ Happens("ctrlc")
    /\ interrupted' = TRUE
    /\ UNCHANGED <<pc, run, retries, cache, repl, ended, pi, chats, snapshots, inputs>>

HasLine == pc = "reads" /\ pi.out # <<>>
nextLine == Head(pi.out)
loopUnchanged == <<run, retries, cache, chats, snapshots, inputs, happened>>

\* Ctrl-C is seen with the next line, which goes unread.
Interrupt ==
    /\ HasLine /\ interrupted
    /\ interrupted' = FALSE
    /\ IF pi.up THEN /\ pi' = [pi EXCEPT !.out = Tail(@), !.in = Append(@, PiLine("abort", 0))]
                     /\ UNCHANGED pc
                ELSE Goes("failed") /\ pi' = [pi EXCEPT !.out = Tail(@)]
    /\ UNCHANGED <<repl, ended, loopUnchanged>>

\* The lines that end no wait: an accepted prompt and the answer to abort too.
Passes(kind) == kind \in {"accepted", "aborted", "settled"}

Ignore ==
    /\ HasLine /\ ~interrupted /\ Passes(nextLine.kind)
    /\ pi' = [pi EXCEPT !.out = Tail(@)]
    /\ UNCHANGED <<pc, repl, ended, interrupted, loopUnchanged>>

\* Mutant of Respond: the answer to abort ends the wait as well.
RespondToAbort ==
    /\ HasLine /\ ~interrupted /\ nextLine.kind \in {"refused", "get_commands", "aborted"}
    /\ pi' = [pi EXCEPT !.out = Tail(@)]
    /\ Goes("input")
    /\ UNCHANGED <<repl, ended, interrupted, loopUnchanged>>

\* A failed response, or that of get_commands: back to the user.
Respond ==
    /\ HasLine /\ ~interrupted /\ nextLine.kind \in {"refused", "get_commands"}
    /\ pi' = [pi EXCEPT !.out = Tail(@)]
    /\ Goes("input")
    /\ UNCHANGED <<repl, ended, interrupted, loopUnchanged>>

\* The level is set: process_command asks Pi which one it has now.
LevelSet ==
    /\ HasLine /\ ~interrupted /\ nextLine.kind \in Levels
    /\ IF pi.up THEN /\ pi' = [pi EXCEPT !.out = Tail(@), !.in = Append(@, PiLine("get_state", 0))]
                     /\ Goes("asks")
                ELSE pi' = [pi EXCEPT !.out = Tail(@)] /\ Goes("failed")
    /\ UNCHANGED <<repl, ended, interrupted, loopUnchanged>>

\* A line that does not parse ends the REPL.
Unparsed ==
    /\ HasLine /\ ~interrupted /\ nextLine.kind = "junk"
    /\ pi' = [pi EXCEPT !.out = Tail(@)]
    /\ Goes("failed")
    /\ UNCHANGED <<repl, ended, interrupted, loopUnchanged>>

StateSkip ==
    /\ pc = "asks" /\ pi.out # <<>> /\ nextLine.kind # "state"
    /\ pi' = [pi EXCEPT !.out = Tail(@)]
    /\ UNCHANGED <<pc, repl, ended, interrupted, loopUnchanged>>

\* persist_default_thinking_level: the settings, also when they cannot be written.
Persisted(level) == {pi.setting, Parsed(level, pi.setting)}

\* A level that Tiles does not recognize leaves the shown one unchanged.
LevelRead ==
    /\ pc = "asks" /\ pi.out # <<>> /\ nextLine.kind = "state"
    /\ \E setting \in Persisted(nextLine.of) :
         pi' = [pi EXCEPT !.out = Tail(@), !.setting = setting]
    /\ repl' = [repl EXCEPT !.level = Parsed(nextLine.of, @)]
    /\ Goes("input")
    /\ UNCHANGED <<ended, interrupted, loopUnchanged>>

\* No answer within ANSWER_TIMEOUT, or none any more: the error ends the REPL.
StateFails ==
    /\ pc = "asks" /\ pi.out = <<>>
    /\ Goes("failed")
    /\ \/ ~pi.up /\ UNCHANGED happened
       \/ pi.up /\ Happens("slow")
    /\ UNCHANGED <<run, retries, cache, repl, ended, interrupted, pi, chats, snapshots, inputs>>

\* Mutant of OutputEnds: the end of the output is no reason to stop reading.
OutputEndsUnseen ==
    /\ pc = "reads" /\ pi.out = <<>> /\ ~pi.up
    /\ UNCHANGED <<pc, repl, ended, interrupted, pi, loopUnchanged>>

\* Pi's stdout has ended: back to the user, as after an answer.
OutputEnds ==
    /\ pc = "reads" /\ pi.out = <<>> /\ ~pi.up
    /\ Goes("input")
    /\ UNCHANGED <<repl, ended, interrupted, pi, loopUnchanged>>

\* agent_end.  After an error Pi is told to abort whatever it still does.
AgentEnd ==
    /\ HasLine /\ ~interrupted /\ nextLine.kind \in {"end", "error"}
    /\ ended' = nextLine.of
    /\ LET took == [pi EXCEPT !.out = Tail(@)]
       IN  CASE nextLine.kind = "end" -> pi' = took /\ Goes("user")
             [] nextLine.kind = "error" /\ pi.up ->
                  pi' = [took EXCEPT !.in = Append(@, PiLine("abort", 0))] /\ Goes("user")
             [] OTHER -> pi' = took /\ Goes("failed")
    /\ UNCHANGED <<repl, interrupted, loopUnchanged>>

-----------------------------------------------------------------------------
(* save_agent_session: the prompt, the reply, the snapshot.                *)

saveUnchanged == <<run, retries, cache, interrupted, pi, inputs, happened>>

AddChat(role, parent) ==
    chats' = Append(chats, Chat(repl.session, role, parent, ended))

\* save_chat, or save_first_chat with the session in the same transaction.
SaveUser ==
    /\ pc = "user"
    /\ AddChat("user", IF repl.started THEN repl.last ELSE None)
    /\ repl' = [repl EXCEPT !.started = TRUE, !.last = Len(chats')]
    /\ Goes("reply")
    /\ UNCHANGED <<ended, snapshots, saveUnchanged>>

SaveReply ==
    /\ pc = "reply"
    /\ AddChat("assistant", repl.last)
    /\ repl' = [repl EXCEPT !.last = Len(chats'), !.turns = Append(@, ended)]
    /\ Goes("snapshot")
    /\ UNCHANGED <<ended, snapshots, saveUnchanged>>

SaveSnapshot ==
    /\ pc = "snapshot"
    /\ snapshots' = [snapshots EXCEPT ![repl.session] = repl.turns]
    /\ ended' = None
    /\ Goes("input")
    /\ UNCHANGED <<repl, chats, saveUnchanged>>

\* A statement fails, or the process is killed.
SaveFails ==
    /\ pc \in {"user", "reply", "snapshot"} /\ Happens("save")
    /\ Goes("failed")
    /\ UNCHANGED <<run, retries, cache, interrupted, repl, ended, pi, chats, snapshots, inputs>>

-----------------------------------------------------------------------------
(* Pi.                                                                     *)

piUnchanged == <<pc, run, retries, cache, interrupted, repl, ended, chats, snapshots, inputs>>

PiPrints(lines) == pi.out \o lines
SettledLines == IF pi.work = None THEN <<>> ELSE <<PiLine("end", pi.work), PiLine("settled", pi.work)>>

PiObeys ==
    /\ pi.up /\ pi.in # <<>>
    /\ LET cmd == Head(pi.in)
           took == [pi EXCEPT !.in = Tail(@)]
       IN  CASE cmd.kind = "prompt" ->
                  pi' = IF pi.work = None
                        THEN [took EXCEPT !.work = cmd.of,
                                          !.out = PiPrints(<<PiLine("accepted", cmd.of)>>)]
                        ELSE [took EXCEPT !.out = PiPrints(<<PiLine("refused", cmd.of)>>)]
             [] cmd.kind = "abort" ->
                  \E lines \in {SettledLines \o <<PiLine("aborted", 0)>>,
                                <<PiLine("aborted", 0)>> \o SettledLines} :
                     pi' = [took EXCEPT !.work = None, !.out = PiPrints(lines)]
             [] cmd.kind \in Levels ->   \* the level asked for, or one its model allows
                  \E level \in PiLevels :
                     pi' = [took EXCEPT !.level = level,
                                        !.out = PiPrints(<<PiLine(cmd.kind, cmd.of)>>)]
             [] cmd.kind = "get_commands" ->
                  pi' = [took EXCEPT !.out = PiPrints(<<PiLine("get_commands", cmd.of)>>)]
             [] cmd.kind = "get_state" ->
                  pi' = [took EXCEPT !.out = PiPrints(<<PiLine("state", pi.level)>>)]
    /\ UNCHANGED <<happened, piUnchanged>>

PiEnds ==
    /\ pi.up /\ pi.work # None
    /\ pi' = [pi EXCEPT !.work = None, !.out = PiPrints(SettledLines)]
    /\ UNCHANGED <<happened, piUnchanged>>

\* A run that ended in an error.  Pi settles, or tries again by itself.
PiErrs ==
    /\ pi.up /\ pi.work # None /\ Happens("error")
    /\ pi' = [pi EXCEPT !.work = None,
                        !.out = PiPrints(<<PiLine("error", pi.work), PiLine("settled", pi.work)>>)]
    /\ UNCHANGED piUnchanged

PiRetries ==
    /\ pi.up /\ pi.work # None /\ Happens("retry")
    /\ pi' = [pi EXCEPT !.out = PiPrints(<<PiLine("error", pi.work)>>)]
    /\ UNCHANGED piUnchanged

PiGarbles ==
    /\ pi.up /\ pi.work # None /\ Happens("junk")
    /\ pi' = [pi EXCEPT !.out = PiPrints(<<PiLine("junk", pi.work)>>)]
    /\ UNCHANGED piUnchanged

PiCrashes ==
    /\ pi.up /\ pc \notin {"load", "download", "ended", "failed"} /\ Happens("dies")
    /\ pi' = [pi EXCEPT !.up = FALSE, !.work = None, !.in = <<>>]
    /\ UNCHANGED piUnchanged

-----------------------------------------------------------------------------
Loading == Load \/ TooManyRetries \/ Download
LoopSteps ==
    \/ Interrupt
    \/ Ignore
    \/ Respond
    \/ LevelSet
    \/ Unparsed
    \/ StateSkip
    \/ LevelRead
    \/ (StateFails /\ ~pi.up)
    \/ OutputEnds
    \/ AgentEnd
Saving == SaveUser \/ SaveReply \/ SaveSnapshot
PiWorks == PiObeys \/ PiEnds

User ==
    \/ TypePrompt
    \/ TypeCommand
    \/ \E s \in Sessions : Resume(s)
    \/ ResumePanics
    \/ Exit
    \/ Rerun
    \/ CtrlC

Misfortune ==
    \/ LoadFails
    \/ DownloadFails
    \/ Deleted
    \/ StateFails
    \/ SaveFails
    \/ PiErrs
    \/ PiRetries
    \/ PiGarbles
    \/ PiCrashes

ReplNext == Loading \/ LoopSteps \/ Saving \/ PiWorks \/ User \/ Misfortune

\* The process runs on and a live Pi works; nobody has to type anything.
ReplSpec == /\ ReplInit /\ [][ReplNext]_replVars
        /\ WF_replVars(Loading) /\ WF_replVars(LoopSteps) /\ WF_replVars(Saving) /\ WF_replVars(PiWorks)

-----------------------------------------------------------------------------
(* Properties.                                                             *)

Places == {"load", "download", "input", "reads", "asks", "user", "reply",
           "snapshot", "ended", "failed"}

\* What goes over the pipes.
PiCommands == [kind : {"prompt", "abort", "get_commands", "get_state"} \cup Levels,
               of : 0..MaxInputs]
PiLines ==
    [kind : {"accepted", "refused", "end", "error", "settled", "aborted", "junk",
             "get_commands"} \cup Levels, of : 0..MaxInputs]
    \cup [kind : {"state"}, of : PiLevels]

ReplType == [session : Sessions, started : BOOLEAN, last : Nat, pending : BOOLEAN,
             turns : Seq(Nat), level : Levels]
PiType == [up : BOOLEAN, work : 0..MaxInputs, level : PiLevels, setting : Levels,
           in : Seq(PiCommands), out : Seq(PiLines)]
ChatType == [session : Sessions, role : {"user", "assistant"}, parent : Nat, turn : Nat]

\* The types.
ReplTypeOK ==
    /\ pc \in Places /\ run \in 1..MaxRuns
    /\ retries \in 0..(MAX_LOAD_MODEL_RETRIES + 1)
    /\ pc = "download" => retries <= MAX_LOAD_MODEL_RETRIES
    /\ cache \in {"missing", "partial", "whole"}
    /\ interrupted \in BOOLEAN
    /\ repl \in ReplType /\ repl.last <= Len(chats) /\ pi \in PiType
    /\ ended \in 0..MaxInputs /\ inputs \in 0..MaxInputs
    /\ chats \in Seq(ChatType) /\ snapshots \in [Sessions -> Seq(Nat)]

\* The chats of a session are one path: each has the one before it in that
\* session for its parent, also across resumes, failed saves and new runs.
OnePath ==
    \A i \in DOMAIN chats :
        LET before == {j \in 1..(i - 1) : chats[j].session = chats[i].session}
        IN  chats[i].parent = IF before = {} THEN None ELSE LastOf(before)

\* A Pi that tries again after an error prints a second agent_end.  The REPL
\* took the first for the last, and from then on reads behind.
InStep == "retry" \notin happened

\* A snapshot, which /share publishes, has only turns of its own session, each
\* with its reply in the database; and it has all of this run's once the user
\* may type again.
SnapshotIsOfItsSession ==
    /\ \A s \in Sessions : \A i \in DOMAIN snapshots[s] :
         \E c \in DOMAIN chats : /\ chats[c].session = s
                                 /\ chats[c].role = "assistant"
                                 /\ chats[c].turn = snapshots[s][i]
    /\ pc = "input" => repl.turns = snapshots[repl.session]

\* The shown level is Pi's, if that is one Tiles knows.
Shows(shown, level) == level \in Levels => shown = level
LevelShown == pi.up => Shows(repl.level, pi.level)

\* While Pi and the REPL are in step, the turn that is saved is that of the
\* prompt the user waits for, which is the last thing that was typed; and the
\* level the REPL shows at its input is the one Pi has, if Tiles knows that one.
\* (Of a level Tiles does not know it keeps showing what it showed, or "low".)
AnswersWhatWasAsked ==
    InStep => /\ ended # None => ended = inputs
              /\ pc = "input" => LevelShown

\* Why the chats stay one path: what the REPL appends to is the end of its
\* session, and a session that is not begun is nobody's.
AppendsToTheEnd ==
    /\ \A s \in Sessions : ChatsOf(s) # {} => LastOf(ChatsOf(s)) \in ChatsOf(s)
    /\ repl.started => repl.last \in ChatsOf(repl.session)
                       /\ repl.last = LastOf(ChatsOf(repl.session))
    /\ ~repl.started => ChatsOf(repl.session) = {}
    /\ repl.session <= run
    /\ \A s \in Sessions : s > run => ChatsOf(s) = {} /\ snapshots[s] = <<>>
    /\ pc \in {"reply", "snapshot"} => repl.started
    /\ pc \notin {"snapshot", "ended", "failed"} => repl.turns = snapshots[repl.session]
    /\ \A i \in DOMAIN repl.turns :
          \E c \in DOMAIN chats : /\ chats[c].session = repl.session
                                  /\ chats[c].role = "assistant"
                                  /\ chats[c].turn = repl.turns[i]

\* The commands whose answer the REPL waits for, and the lines that end a wait.
Awaited == {"prompt", "get_commands", "get_state"} \cup Levels
Enders == {"refused", "end", "error", "get_commands", "state"} \cup Levels

Without(lines, kinds) == \A i \in DOMAIN lines : lines[i].kind \notin kinds
AtMostOne(lines, kinds) ==
    \A i, j \in DOMAIN lines : lines[i].kind \in kinds /\ lines[j].kind \in kinds => i = j

\* One thing at most is under way between the REPL and Pi.
OneWait ==
    /\ AtMostOne(pi.in, Awaited) /\ AtMostOne(pi.out, Enders)
    /\ pi.work # None \/ ~Without(pi.out, Enders) => Without(pi.in, Awaited)
    /\ pi.work # None => Without(pi.out, Enders)

NothingAwaited == Without(pi.in, Awaited) /\ pi.work = None /\ Without(pi.out, Enders)

\* What may be under way while the loop reads: the prompt typed last, or a
\* command; only the one that sets the level leaves the level open.
Fits(kind, of) ==
    /\ kind \notin {"get_state", "state"}
    /\ kind \in {"prompt", "end", "error"} => of = inputs
    /\ kind \in {"prompt", "get_commands", "refused", "end", "error"} => LevelShown

\* Why the answer is to what was asked: before anything is sent, everything
\* sent before is answered and read.
AnswerIsTheNext ==
    /\ ~pi.up => pi.in = <<>> /\ pi.work = None
    /\ pc \notin {"user", "reply", "snapshot", "failed"} => ended = None
    /\ InStep =>
          /\ ended # None => ended = inputs
          /\ pc \notin {"ended", "failed"} => OneWait
          /\ pc \notin {"reads", "asks", "ended", "failed"} => NothingAwaited /\ LevelShown
          /\ pc = "reads" => /\ \A i \in DOMAIN pi.in : Fits(pi.in[i].kind, pi.in[i].of)
                             /\ \A i \in DOMAIN pi.out : Fits(pi.out[i].kind, pi.out[i].of)
                             /\ pi.work # None => Fits("end", pi.work)
          /\ pc = "asks" => /\ Without(pi.in, Awaited \ {"get_state"}) /\ pi.work = None
                            /\ Without(pi.out, Enders \ {"state"})
                            /\ \A i \in DOMAIN pi.out :
                                  pi.out[i].kind = "state" => pi.out[i].of = pi.level

\* What the database says of the sessions, and what Pi's answers belong to.
ReplInv ==
    /\ ReplTypeOK /\ OnePath /\ SnapshotIsOfItsSession
    /\ AppendsToTheEnd /\ AnswerIsTheNext

\* The wait for a line that will not come.
Hung == pc = "reads" /\ pi.up /\ pi.out = <<>> /\ pi.in = <<>> /\ pi.work = None

\* Loading ends, in a chat or in an error, however often it has to download; and
\* so does every wait for Pi, the model server, the network or the database,
\* unless Ctrl-C took the line that would have ended it.
EveryWaitEnds ==
    /\ pc \in {"load", "download"} ~> pc \in {"input", "failed"}
    /\ pc \in {"reads", "asks", "user", "reply", "snapshot"} ~>
          pc \in {"input", "failed"} \/ (Hung /\ "ctrlc" \in happened)
=============================================================================
