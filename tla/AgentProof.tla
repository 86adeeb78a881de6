----------------------------- MODULE AgentProof -----------------------------
(***************************************************************************)
(* Theorems about the two programs that talk to Pi, and their proofs: the  *)
(* daemon's calls (AgentCalls), for any number of each, and the REPL.      *)
(***************************************************************************)
EXTENDS AgentCalls, Repl, TLAPS, FiniteSetTheorems, SequenceTheorems

Steps == {"none", "called", "waits"} \cup Asking \cup Reading \cup Ended
CallType == [op : Ops \cup {"none"}, step : Steps, want : Models \cup {Nothing},
             held : Seq(Lines), chan : Seq(Lines), gone : BOOLEAN, session : Nat]
AgentType == [up : {"none", "alive", "dead"}, model : Models \cup {Nothing}, session : Nat,
              work : Calls \cup {Nothing}, in : Seq(Lines), out : Seq(Lines)]

-----------------------------------------------------------------------------
(* Pipes and channels: what is appended, and what is taken.                *)

\* A line is written at the end.
LEMMA Appended ==
    ASSUME NEW s \in Seq(Lines), NEW line \in Lines
    PROVE  /\ Append(s, line) \in Seq(Lines)
           /\ Len(Append(s, line)) = Len(s) + 1 /\ Len(s) \in Nat
           /\ DOMAIN s = 1..Len(s) /\ DOMAIN Append(s, line) = 1..(Len(s) + 1)
           /\ \A i \in DOMAIN s : Append(s, line)[i] = s[i]
           /\ Append(s, line)[Len(s) + 1] = line
OBVIOUS

\* The first line is read.
LEMMA Taken ==
    ASSUME NEW s \in Seq(Lines), s # <<>>
    PROVE  /\ Head(s) \in Lines /\ Head(s) = s[1] /\ 1 \in DOMAIN s
           /\ Tail(s) \in Seq(Lines) /\ Len(Tail(s)) = Len(s) - 1 /\ Len(s) \in Nat \ {0}
           /\ DOMAIN s = 1..Len(s) /\ DOMAIN Tail(s) = 1..(Len(s) - 1)
           /\ \A i \in DOMAIN Tail(s) : i + 1 \in DOMAIN s /\ Tail(s)[i] = s[i + 1]
OBVIOUS

\* A pipe without lines.
LEMMA Empty ==
    /\ <<>> \in Seq(Lines) /\ Len(<<>>) = 0 /\ DOMAIN <<>> = {}
    /\ \A s \in Seq(Lines) : /\ Len(s) \in Nat /\ DOMAIN s = 1..Len(s)
                             /\ s = <<>> <=> Len(s) = 0
                             /\ \A i \in DOMAIN s : s[i] \in Lines
OBVIOUS

\* One or two lines are printed after what is there.
LEMMA Printed ==
    ASSUME NEW s \in Seq(Lines), NEW a \in Lines, NEW b \in Lines
    PROVE  /\ s \o <<a>> = Append(s, a)
           /\ s \o (<<>> \o <<a>>) = Append(s, a) /\ s \o (<<a>> \o <<>>) = Append(s, a)
           /\ s \o (<<a>> \o <<b>>) = Append(Append(s, a), b)
<1>1. \A t \in Seq(Lines), e \in Lines : t \o <<e>> = Append(t, e)
  OBVIOUS
<1>2. <<>> \o <<a>> = <<a>> /\ <<a>> \o <<>> = <<a>>
  OBVIOUS
<1>3. s \o (<<a>> \o <<b>>) = (s \o <<a>>) \o <<b>>
  <2>1. <<a>> \in Seq(Lines) /\ <<b>> \in Seq(Lines)
    OBVIOUS
  <2>2. QED
    BY <2>1, ConcatAssociative
<1>4. QED
  BY <1>1, <1>2, <1>3, Appended

\* A line is of a known kind.
LEMMA LineFacts ==
    ASSUME NEW kind \in Kinds, NEW of \in Calls, NEW session \in Nat
    PROVE  /\ Line(kind, of, session) \in Lines
           /\ Line(kind, of, session).kind = kind /\ Line(kind, of, session).of = of
           /\ Line(kind, of, session).session = session
BY DEF Line, Lines

-----------------------------------------------------------------------------
(* Sessions, calls and the mutex.                                          *)

\* There is always a session that no Pi has had.
LEMMA FreshFacts ==
    ASSUME TypeOK
    PROVE  /\ FreshSession \in Nat /\ FreshSession # agent.session
           /\ \A c \in Calls : FreshSession # calls[c].session
<1> DEFINE ofCalls == {calls[c].session : c \in Calls}
           ofLines == {agent.out[i].session : i \in DOMAIN agent.out}
           used == ofCalls \cup {agent.session} \cup ofLines
<1>1. IsFiniteSet(ofCalls)
  <2> DEFINE f == [c \in Calls |-> calls[c].session]
  <2>1. IsFiniteSet(Calls)
    BY FS_Interval, RequestsAssumption DEF Calls
  <2>2. f \in Surjection(Calls, ofCalls)
    BY DEF Surjection
  <2>3. QED
    BY <2>1, <2>2, FS_Surjection
<1>2. IsFiniteSet(ofLines)
  <2> DEFINE f == [i \in DOMAIN agent.out |-> agent.out[i].session]
  <2>1. IsFiniteSet(DOMAIN agent.out)
    <3>1. agent.out \in Seq(Lines)
      BY DEF TypeOK
    <3>2. DOMAIN agent.out = 1..Len(agent.out) /\ Len(agent.out) \in Nat
      BY <3>1, Empty
    <3>3. IsFiniteSet(1..Len(agent.out))
      BY <3>2, FS_Interval
    <3>4. QED
      BY <3>2, <3>3
  <2>2. f \in Surjection(DOMAIN agent.out, ofLines)
    BY DEF Surjection
  <2>3. QED
    BY <2>1, <2>2, FS_Surjection
<1>3. IsFiniteSet(used)
  <2>1. IsFiniteSet({agent.session})
    BY FS_Singleton
  <2>2. IsFiniteSet(ofCalls \cup {agent.session})
    BY <1>1, <2>1, FS_Union
  <2>3. QED
    BY <1>2, <2>2, FS_Union
<1>4. Cardinality(used) \in Nat
  BY <1>3, FS_CardinalityType
<1>5. \E s \in 1..(Cardinality(used) + 1) : s \notin used
  <2> DEFINE n == Cardinality(used) + 1
  <2>1. Cardinality(1..n) = n
    BY <1>4, FS_Interval
  <2>2. SUFFICES ASSUME 1..n \in SUBSET used PROVE FALSE
    OBVIOUS
  <2>3. Cardinality(1..n) <= Cardinality(used)
    <3> HIDE DEF used, n
    <3>1. QED
      BY <1>3, <2>2, FS_Subset
  <2>4. QED
    BY <2>1, <2>3, <1>4
<1>6. FreshSession \in 1..(Cardinality(used) + 1) /\ FreshSession \notin used
  BY <1>5 DEF FreshSession
<1>7. QED
  BY <1>4, <1>6

\* The types, by the names they have here.
LEMMA TypeIs ==
    TypeOK <=> /\ picked \in Models /\ agent \in AgentType /\ agentModel \in Models \cup {Nothing}
               /\ queue \in Seq(Calls) /\ calls \in [Calls -> CallType] /\ left \in 0..Faults
BY DEF TypeOK, AgentType, CallType, Steps

\* A call goes on to another step.
LEMMA StepFacts ==
    ASSUME TypeOK, NEW c \in Calls, NEW step \in Steps, calls' = Step(c, step)
    PROVE  /\ calls' \in [Calls -> CallType]
           /\ \A d \in Calls \ {c} : calls'[d] = calls[d]
           /\ calls'[c].step = step /\ calls'[c].op = calls[c].op /\ calls'[c].held = calls[c].held
           /\ calls'[c].chan = calls[c].chan /\ calls'[c].session = calls[c].session
BY TypeIs DEF Step, CallType

\* A call ends, and the next one has the mutex.
LEMMA EndFacts ==
    ASSUME TypeOK, NEW c \in Calls, NEW step \in Steps, End(c, step), Holds(c)
    PROVE  /\ calls' \in [Calls -> CallType] /\ queue' = Tail(queue) /\ queue' \in Seq(Calls)
           /\ \A d \in Calls \ {c} : calls'[d] = calls[d]
           /\ calls'[c].step = step /\ calls'[c].op = calls[c].op /\ calls'[c].held = <<>>
           /\ calls'[c].chan = calls[c].chan /\ calls'[c].session = calls[c].session
<1>1. calls' = [calls EXCEPT ![c].step = step, ![c].held = <<>>] /\ queue' = Tail(queue) /\ queue # <<>>
  BY DEF End, Holds
<1>2. calls'[c] = [calls[c] EXCEPT !.step = step, !.held = <<>>]
  BY <1>1, TypeIs
<1>3. \A d \in Calls \ {c} : calls'[d] = calls[d]
  BY <1>1, TypeIs
<1>4. calls'[c] \in CallType
  BY <1>2, TypeIs, Empty DEF CallType
<1>5. calls' \in [Calls -> CallType]
  BY <1>1, <1>3, <1>4, TypeIs
<1>6. queue' \in Seq(Calls)
  BY <1>1, TypeIs
<1>7. QED
  BY <1>1, <1>2, <1>3, <1>5, <1>6, TypeIs DEF CallType

\* A command is written to Pi.
LEMMA WriteFacts ==
    ASSUME TypeOK, NEW c \in Calls, NEW kind \in Kinds, Write(kind, c)
    PROVE  /\ agent' \in AgentType /\ agent.up = "alive" /\ agent'.up = "alive"
           /\ agent'.model = agent.model /\ agent'.session = agent.session
           /\ agent'.work = agent.work /\ agent'.out = agent.out
           /\ agent'.in = Append(agent.in, Line(kind, c, 0)) /\ Line(kind, c, 0) \in Lines
<1>1. Line(kind, c, 0) \in Lines
  BY LineFacts
<1>2. Append(agent.in, Line(kind, c, 0)) \in Seq(Lines)
  BY <1>1, TypeIs, Appended DEF AgentType
<1>3. QED
  BY <1>1, <1>2, TypeIs DEF Write, AgentType

\* A line of Pi is read.
LEMMA ReadFacts ==
    ASSUME TypeOK, agent.out # <<>>, agent' = [agent EXCEPT !.out = Tail(@)]
    PROVE  /\ agent' \in AgentType /\ agent'.up = agent.up
           /\ agent'.model = agent.model /\ agent'.session = agent.session
           /\ agent'.work = agent.work /\ agent'.in = agent.in
           /\ agent'.out = Tail(agent.out)
<1>1. Tail(agent.out) \in Seq(Lines)
  BY TypeIs, Taken DEF AgentType
<1>2. QED
  BY <1>1, TypeIs DEF AgentType

\* What Pi does with a command, by its kind.
PiTakes(l) ==
    /\ agent.in # <<>> /\ l = Head(agent.in) /\ agent.up = "alive"
    /\ agent' \in AgentType /\ agent'.up = "alive" /\ agent'.model = agent.model
    /\ agent'.in = Tail(agent.in)
    /\ LET answer == Line(l.kind, l.of, IF l.kind = "get_state" THEN agent.session ELSE 0)
       IN  /\ answer \in Lines
           /\ \/ /\ l.kind = "prompt" /\ agent'.session = agent.session
                 /\ agent'.work = IF agent.work = Nothing THEN l.of ELSE agent.work
                 /\ agent'.out = Append(agent.out, answer)
              \/ /\ l.kind \in {"abort", "new_session"} /\ agent'.work = Nothing
                 /\ agent'.session = IF l.kind = "abort" THEN agent.session ELSE FreshSession
                 /\ IF agent.work = Nothing
                    THEN agent'.out = Append(agent.out, answer)
                    ELSE agent'.out = Append(Append(agent.out, Line("settled", agent.work, 0)), answer)
              \/ /\ l.kind = "get_state" /\ agent'.session = agent.session
                 /\ agent'.work = agent.work /\ agent'.out = Append(agent.out, answer)

\* Pi takes commands in order, and every line in its pipe is a command it knows.
LEMMA TakesFacts ==
    ASSUME TypeOK, LinesAreOfCalls, PiReads
    PROVE  \E l \in Lines : PiTakes(l)
<1> DEFINE l == Head(agent.in)
           answer == Line(l.kind, l.of, IF l.kind = "get_state" THEN agent.session ELSE 0)
           rest == [agent EXCEPT !.in = Tail(@)]
<1>0. agent \in AgentType /\ agent.out \in Seq(Lines) /\ agent.in \in Seq(Lines) /\ agent.session \in Nat
      /\ agent.work \in Calls \cup {Nothing}
  BY TypeIs DEF AgentType
<1>1. agent.in # <<>> /\ agent.up = "alive"
  BY DEF PiReads
<1>2. /\ l \in Lines /\ Tail(agent.in) \in Seq(Lines)
      /\ l.kind \in {"prompt", "abort", "new_session", "get_state"}
  <2>1. l = agent.in[1] /\ 1 \in DOMAIN agent.in /\ l \in Lines /\ Tail(agent.in) \in Seq(Lines)
    BY <1>0, <1>1, Taken
  <2>2. QED
    BY <2>1 DEF LinesAreOfCalls
<1>3. l.of \in Calls /\ answer \in Lines
  BY <1>0, <1>2, LineFacts DEF Lines, Kinds
<1>4. rest \in AgentType /\ rest.up = "alive" /\ rest.model = agent.model /\ rest.in = Tail(agent.in)
      /\ rest.session = agent.session /\ rest.work = agent.work /\ rest.out = agent.out
  BY <1>0, <1>1, <1>2 DEF AgentType
<1>5. /\ Append(agent.out, answer) \in Seq(Lines)
      /\ agent.out \o <<answer>> = Append(agent.out, answer)
      /\ agent.work = Nothing => agent.out \o (Settled \o <<answer>>) = Append(agent.out, answer)
      /\ agent.work # Nothing =>
           /\ Append(Append(agent.out, Line("settled", agent.work, 0)), answer) \in Seq(Lines)
           /\ agent.out \o (Settled \o <<answer>>)
                = Append(Append(agent.out, Line("settled", agent.work, 0)), answer)
  <2>1. Append(agent.out, answer) \in Seq(Lines) /\ agent.out \o <<answer>> = Append(agent.out, answer)
        /\ agent.out \o (<<>> \o <<answer>>) = Append(agent.out, answer)
    BY <1>0, <1>3, Appended, Printed
  <2>2. ASSUME agent.work # Nothing
        PROVE  /\ Append(Append(agent.out, Line("settled", agent.work, 0)), answer) \in Seq(Lines)
               /\ agent.out \o (<<Line("settled", agent.work, 0)>> \o <<answer>>)
                     = Append(Append(agent.out, Line("settled", agent.work, 0)), answer)
    <3>1. Line("settled", agent.work, 0) \in Lines
      BY <1>0, <2>2, LineFacts DEF Kinds
    <3>2. QED
      BY <1>0, <1>3, <3>1, Appended, Printed
  <2>3. QED
    BY <2>1, <2>2 DEF Settled
<1>6. CASE l.kind = "prompt"
  <2>1. agent' = [rest EXCEPT !.work = IF @ = Nothing THEN l.of ELSE @, !.out = Append(agent.out, answer)]
    BY <1>5, <1>6 DEF PiReads, Prints
  <2>2. QED
    BY <2>1, <1>0, <1>1, <1>2, <1>3, <1>4, <1>5, <1>6 DEF PiTakes, AgentType
<1>7. CASE l.kind = "abort"
  <2>1. agent' = [rest EXCEPT !.work = Nothing, !.out = agent.out \o (Settled \o <<answer>>)]
    BY <1>7 DEF PiReads, Prints
  <2>2. QED
    BY <2>1, <1>0, <1>1, <1>2, <1>3, <1>4, <1>5, <1>7 DEF PiTakes, AgentType
<1>8. CASE l.kind = "new_session"
  <2>1. agent' = [rest EXCEPT !.work = Nothing, !.session = FreshSession,
                              !.out = agent.out \o (Settled \o <<answer>>)]
    BY <1>8 DEF PiReads, Prints
  <2>2. QED
    BY <2>1, <1>0, <1>1, <1>2, <1>3, <1>4, <1>5, <1>8, FreshFacts DEF PiTakes, AgentType
<1>9. CASE l.kind = "get_state"
  <2>1. agent' = [rest EXCEPT !.out = Append(agent.out, answer)]
    BY <1>5, <1>9 DEF PiReads, Prints
  <2>2. QED
    BY <2>1, <1>0, <1>1, <1>2, <1>3, <1>4, <1>5, <1>9 DEF PiTakes, AgentType
<1>10. QED
  BY <1>2, <1>6, <1>7, <1>8, <1>9

\* Pi ends a reply: an event and the last line.
LEMMA RepliesFacts ==
    ASSUME TypeOK, PiReplies
    PROVE  LET event == Line("event", agent.work, 0)
               last == Line("settled", agent.work, 0)
           IN  /\ agent.work \in Calls /\ event \in Lines /\ last \in Lines
               /\ agent' \in AgentType /\ agent'.up = agent.up /\ agent'.model = agent.model
               /\ agent'.session = agent.session /\ agent'.work = Nothing /\ agent'.in = agent.in
               /\ agent'.out = Append(Append(agent.out, event), last)
<1> DEFINE event == Line("event", agent.work, 0)
           last == Line("settled", agent.work, 0)
<1>1. agent.work \in Calls /\ agent.out \in Seq(Lines) /\ agent \in AgentType
  BY TypeIs DEF PiReplies, AgentType
<1>2. event \in Lines /\ last \in Lines
  BY <1>1, LineFacts DEF Kinds
<1>3. agent.out \o (<<event>> \o Settled) = Append(Append(agent.out, event), last)
  BY <1>1, <1>2, Printed DEF Settled, PiReplies
<1>4. Append(Append(agent.out, event), last) \in Seq(Lines)
  BY <1>1, <1>2, Appended
<1>5. agent' = [agent EXCEPT !.out = Append(Append(agent.out, event), last), !.work = Nothing]
  BY <1>3 DEF PiReplies, Prints
<1>6. QED
  BY <1>1, <1>2, <1>4, <1>5 DEF AgentType

\* A line that does not parse is one more line.
LEMMA JunkFacts ==
    ASSUME TypeOK, PiPrintsJunk
    PROVE  LET junk == Line("junk", agent.work, 0)
           IN  /\ agent.work \in Calls /\ junk \in Lines
               /\ agent' \in AgentType /\ agent'.up = agent.up /\ agent'.model = agent.model
               /\ agent'.session = agent.session /\ agent'.work = agent.work /\ agent'.in = agent.in
               /\ agent'.out = Append(agent.out, junk)
<1> DEFINE junk == Line("junk", agent.work, 0)
<1>1. agent.work \in Calls /\ agent.out \in Seq(Lines) /\ agent \in AgentType
  BY TypeIs DEF PiPrintsJunk, AgentType
<1>2. junk \in Lines
  BY <1>1, LineFacts DEF Kinds
<1>3. agent' = [agent EXCEPT !.out = Append(agent.out, junk)] /\ Append(agent.out, junk) \in Seq(Lines)
  BY <1>1, <1>2, Printed, Appended DEF PiPrintsJunk, Prints
<1>4. QED
  BY <1>1, <1>2, <1>3 DEF AgentType

\* A session is made: its answer is taken, and its state is asked for.
LEMMA MadeFacts ==
    ASSUME TypeOK, NEW c \in Calls, SessionMade(c)
    PROVE  LET ask == Line("get_state", c, 0)
           IN  /\ ask \in Lines /\ agent.out # <<>>
               /\ agent' \in AgentType /\ agent'.up = agent.up /\ agent'.model = agent.model
               /\ agent'.session = agent.session /\ agent'.work = agent.work
               /\ agent'.in = Append(agent.in, ask) /\ agent'.out = Tail(agent.out)
<1> DEFINE ask == Line("get_state", c, 0)
<1>1. ask \in Lines /\ agent.out # <<>> /\ agent \in AgentType
  BY TypeIs, LineFacts DEF Kinds, SessionMade
<1>2. Tail(agent.out) \in Seq(Lines) /\ Append(agent.in, ask) \in Seq(Lines)
  BY <1>1, Taken, Appended DEF AgentType
<1>3. QED
  BY <1>1, <1>2 DEF SessionMade, AgentType

\* A new Pi is asked for its state before anyone else has the mutex.
LEMMA StartedFacts ==
    ASSUME TypeOK, NEW c \in Calls, StartSession(c)
    PROVE  LET ask == Line("get_state", c, 0)
           IN  /\ ask \in Lines /\ agent' \in AgentType /\ agent'.up = "alive"
               /\ agent'.model = calls[c].want /\ agent'.session = FreshSession
               /\ agent'.work = Nothing /\ agent'.in = <<ask>> /\ agent'.out = <<>>
               /\ agentModel' = calls[c].want /\ calls[c].want \in Models \cup {Nothing}
<1> DEFINE ask == Line("get_state", c, 0)
<1>1. ask \in Lines
  BY LineFacts DEF Kinds
<1>2. calls[c].want \in Models \cup {Nothing}
  BY TypeIs DEF CallType
<1>3. <<ask>> \in Seq(Lines)
  BY <1>1
<1>4. QED
  BY <1>1, <1>2, <1>3, FreshFacts, Empty DEF StartSession, NewAgent, NoAgent, AgentType

\* A cancelled prompt tells a Pi that is there to abort.
LEMMA CancelFacts ==
    ASSUME TypeOK, NEW c \in Calls, Cancelled(c)
    PROVE  LET abort == Line("abort", c, 0)
           IN  /\ abort \in Lines /\ agent' \in AgentType
               /\ agent'.up = agent.up /\ agent'.model = agent.model
               /\ agent'.session = agent.session /\ agent'.work = agent.work /\ agent'.out = agent.out
               /\ agent'.in = agent.in \/ (agent.up = "alive" /\ agent'.in = Append(agent.in, abort))
               /\ calls' \in [Calls -> CallType] /\ calls'[c].step = "drains" /\ calls'[c].held = <<>>
               /\ calls'[c].op = calls[c].op /\ calls'[c].chan = calls[c].chan
               /\ calls'[c].session = calls[c].session
               /\ \A d \in Calls \ {c} : calls'[d] = calls[d]
<1> DEFINE abort == Line("abort", c, 0)
<1>1. abort \in Lines /\ agent \in AgentType
  BY TypeIs, LineFacts DEF Kinds
<1>2. Append(agent.in, abort) \in Seq(Lines)
  BY <1>1, Appended DEF AgentType
<1>3. /\ agent' \in AgentType /\ agent'.up = agent.up /\ agent'.model = agent.model
      /\ agent'.session = agent.session /\ agent'.work = agent.work /\ agent'.out = agent.out
      /\ agent'.in = agent.in \/ (agent.up = "alive" /\ agent'.in = Append(agent.in, abort))
  <2>1. CASE agent.up = "alive"
    BY <2>1, <1>1, <1>2 DEF Cancelled, AgentType
  <2>2. CASE agent.up # "alive"
    BY <2>2, <1>1 DEF Cancelled
  <2>3. QED
    BY <2>1, <2>2
<1>4. calls' = [calls EXCEPT ![c].step = "drains", ![c].held = <<>>]
  BY DEF Cancelled
<1>5. calls'[c] = [calls[c] EXCEPT !.step = "drains", !.held = <<>>] /\ \A d \in Calls \ {c} : calls'[d] = calls[d]
  BY <1>4, TypeIs
<1>6. calls'[c] \in CallType
  BY <1>5, TypeIs, Empty DEF CallType, Steps, Reading
<1>7. calls' \in [Calls -> CallType]
  BY <1>4, <1>5, <1>6, TypeIs
<1>8. QED
  BY <1>1, <1>3, <1>5, <1>7, TypeIs DEF CallType

\* A line goes to the channel, or nowhere.
LEMMA SendFacts ==
    ASSUME TypeOK, NEW c \in Calls, SendLine(c)
    PROVE  LET line == Head(calls[c].held)
           IN  /\ calls[c].held # <<>> /\ line \in Lines /\ line = calls[c].held[1]
               /\ calls' \in [Calls -> CallType] /\ \A d \in Calls \ {c} : calls'[d] = calls[d]
               /\ calls'[c].held = <<>> /\ calls'[c].op = calls[c].op
               /\ calls'[c].session = calls[c].session
               /\ calls'[c].step = IF line.kind = "settled" THEN "done" ELSE calls[c].step
               /\ calls'[c].chan = calls[c].chan \/ calls'[c].chan = Append(calls[c].chan, line)
               /\ queue' = IF line.kind = "settled" THEN Tail(queue) ELSE queue
<1> DEFINE line == Head(calls[c].held)
           chan == IF calls[c].gone THEN calls[c].chan ELSE Append(calls[c].chan, line)
           step == IF line.kind = "settled" THEN "done" ELSE calls[c].step
<1>1. calls[c].held # <<>> /\ calls[c] \in CallType
  BY TypeIs DEF SendLine
<1>2. line \in Lines /\ line = calls[c].held[1]
  BY <1>1, Taken DEF CallType
<1>3. chan \in Seq(Lines)
  BY <1>1, <1>2, Appended DEF CallType
<1>4. calls' = [calls EXCEPT ![c].held = <<>>, ![c].step = step, ![c].chan = chan]
  BY DEF SendLine
<1>5. calls'[c] = [calls[c] EXCEPT !.held = <<>>, !.step = step, !.chan = chan]
      /\ \A d \in Calls \ {c} : calls'[d] = calls[d]
  BY <1>4, TypeIs
<1>6. calls'[c] \in CallType
  <2>1. step \in Steps
    BY <1>1 DEF CallType, Steps, Ended
  <2>2. QED
    BY <1>1, <1>3, <1>5, <2>1, Empty DEF CallType
<1>7. calls' \in [Calls -> CallType]
  BY <1>4, <1>5, <1>6, TypeIs
<1>8. calls'[c].held = <<>> /\ calls'[c].op = calls[c].op /\ calls'[c].step = step
      /\ calls'[c].session = calls[c].session /\ calls'[c].chan = chan
  BY <1>1, <1>5 DEF CallType
<1>9. QED
  BY <1>1, <1>2, <1>5, <1>7, <1>8 DEF SendLine

\* A line is read and held, or does not parse.
LEMMA LineRead ==
    ASSUME TypeOK, NEW c \in Calls, ReadLine(c)
    PROVE  LET line == Head(agent.out)
           IN  /\ agent.out # <<>> /\ line \in Lines /\ line = agent.out[1]
               /\ calls' \in [Calls -> CallType] /\ \A d \in Calls \ {c} : calls'[d] = calls[d]
               /\ calls'[c].op = calls[c].op /\ calls'[c].chan = calls[c].chan
               /\ calls'[c].session = calls[c].session
               /\ \/ /\ line.kind = "junk" /\ calls'[c].step = "broken"
                     /\ calls'[c].held = <<>> /\ queue' = Tail(queue)
                  \/ /\ line.kind # "junk" /\ calls'[c].step = calls[c].step
                     /\ calls'[c].held = <<line>> /\ queue' = queue
<1> DEFINE line == Head(agent.out)
<1>1. agent.out # <<>> /\ agent \in AgentType /\ calls[c] \in CallType /\ Holds(c)
  BY TypeIs DEF ReadLine, Reads
<1>2. line \in Lines /\ line = agent.out[1]
  BY <1>1, Taken DEF AgentType
<1>3. CASE line.kind = "junk"
  <2>1. End(c, "broken")
    BY <1>3 DEF ReadLine
  <2>2. "broken" \in Steps
    BY DEF Steps, Ended
  <2>3. QED
    BY <1>1, <1>2, <1>3, <2>1, <2>2, EndFacts
<1>4. CASE line.kind # "junk"
  <2>1. calls' = [calls EXCEPT ![c].held = <<line>>] /\ queue' = queue
    BY <1>4 DEF ReadLine
  <2>2. calls'[c] = [calls[c] EXCEPT !.held = <<line>>] /\ \A d \in Calls \ {c} : calls'[d] = calls[d]
    BY <2>1, TypeIs
  <2>3. <<line>> \in Seq(Lines)
    BY <1>2
  <2>4. calls'[c] \in CallType
    BY <1>1, <2>2, <2>3 DEF CallType
  <2>5. calls' \in [Calls -> CallType]
    BY <2>1, <2>2, <2>4, TypeIs
  <2>6. QED
    BY <1>1, <1>2, <1>4, <2>1, <2>2, <2>5 DEF CallType
<1>5. QED
  BY <1>3, <1>4

-----------------------------------------------------------------------------
(* The steps keep the types.                                               *)

\* The records of the calls keep their type.
LEMMA CallsTyped ==
    ASSUME TypeOK, [Next]_vars
    PROVE  calls' \in [Calls -> CallType] /\ queue' \in Seq(Calls)
<1> DEFINE Good == calls' \in [Calls -> CallType] /\ queue' \in Seq(Calls)
<1>1. ASSUME NEW c \in Calls, Lock(c) PROVE Good
  BY <1>1, StepFacts, TypeIs DEF Lock, Steps
<1>2. ASSUME NEW c \in Calls, NoAgentToUse(c) PROVE Good
  BY <1>2, EndFacts DEF NoAgentToUse, Steps, Ended, Holds, Asks, Reads, Enters
<1>3. ASSUME NEW c \in Calls, Start(c) PROVE Good
  BY <1>3, EndFacts DEF Start, Steps, Ended, Holds, Asks, Reads, Enters
<1>4. ASSUME NEW c \in Calls, NewSession(c) PROVE Good
  BY <1>4, StepFacts, TypeIs DEF NewSession, Steps, Asking, Reading, Enters
<1>5. ASSUME NEW c \in Calls, StartSession(c) PROVE Good
  BY <1>5, StepFacts, TypeIs DEF StartSession, Steps, Asking, Reading, Enters
<1>6. ASSUME NEW c \in Calls, State(c) PROVE Good
  BY <1>6, StepFacts, TypeIs DEF State, Steps, Asking, Reading, Enters
<1>7. ASSUME NEW c \in Calls, EndSession(c) PROVE Good
  BY <1>7, EndFacts DEF EndSession, Steps, Ended, Holds, Asks, Reads, Enters
<1>8. ASSUME NEW c \in Calls, Skip(c) PROVE Good
  BY <1>8, TypeIs DEF Skip
<1>9. ASSUME NEW c \in Calls, SessionMade(c) PROVE Good
  BY <1>9, StepFacts, TypeIs DEF SessionMade, Steps, Asking
<1>10. ASSUME NEW c \in Calls, StateRead(c) PROVE Good
  <2>1. agent.out # <<>> /\ queue # <<>>
    BY <1>10 DEF StateRead, Asks, Holds
  <2>2. Head(agent.out) \in Lines
    BY <2>1, TypeIs, Taken DEF AgentType
  <2>3. calls'[c] = [calls[c] EXCEPT !.step = "done", !.session = Head(agent.out).session]
        /\ (\A d \in Calls \ {c} : calls'[d] = calls[d]) /\ queue' = Tail(queue)
    BY <1>10, TypeIs DEF StateRead
  <2>4. calls'[c] \in CallType
    BY <2>2, <2>3, TypeIs DEF CallType, Steps, Ended, Lines
  <2>5. calls' \in [Calls -> CallType]
    BY <1>10, <2>3, <2>4, TypeIs DEF StateRead
  <2>6. QED
    BY <2>1, <2>3, <2>5, TypeIs
<1>11. ASSUME NEW c \in Calls, AskEnds(c) PROVE Good
  BY <1>11, EndFacts DEF AskEnds, Steps, Ended, Holds, Asks, Reads, Enters
<1>12. ASSUME NEW c \in Calls, Prompt(c) PROVE Good
  BY <1>12, StepFacts, TypeIs DEF Prompt, Steps, Asking, Reading, Enters
<1>13. ASSUME NEW c \in Calls, ReadLine(c) PROVE Good
  <2>1. queue # <<>> /\ queue \in Seq(Calls)
    BY <1>13, TypeIs DEF ReadLine, Reads, Holds
  <2>2. Tail(queue) \in Seq(Calls)
    BY <2>1
  <2>3. calls' \in [Calls -> CallType] /\ queue' \in {queue, Tail(queue)}
    BY <1>13, LineRead
  <2>4. QED
    BY <2>1, <2>2, <2>3
<1>14. ASSUME NEW c \in Calls, SendLine(c) PROVE Good
  <2>1. queue # <<>> /\ queue \in Seq(Calls)
    BY <1>14, TypeIs DEF SendLine, Reads, Holds
  <2>2. Tail(queue) \in Seq(Calls)
    BY <2>1
  <2>3. calls' \in [Calls -> CallType] /\ queue' \in {queue, Tail(queue)}
    BY <1>14, SendFacts
  <2>4. QED
    BY <2>1, <2>2, <2>3
<1>15. ASSUME NEW c \in Calls, ReplyEnds(c) PROVE Good
  BY <1>15, EndFacts DEF ReplyEnds, Steps, Ended, Holds, Asks, Reads, Enters
<1>16. ASSUME NEW c \in Calls, Cancelled(c) PROVE Good
  BY <1>16, CancelFacts, TypeIs DEF Cancelled
<1>17. ASSUME NEW c \in Calls, ClientTakes(c) PROVE Good
  <2>1. Tail(calls[c].chan) \in Seq(Lines)
    BY <1>17, TypeIs, Taken DEF ClientTakes, CallType
  <2>2. calls'[c] = [calls[c] EXCEPT !.chan = Tail(calls[c].chan)]
        /\ (\A d \in Calls \ {c} : calls'[d] = calls[d]) /\ queue' = queue
    BY <1>17, TypeIs DEF ClientTakes
  <2>3. calls'[c] \in CallType
    BY <2>1, <2>2, TypeIs DEF CallType
  <2>4. QED
    BY <1>17, <2>2, <2>3, TypeIs DEF ClientTakes
<1>18. ASSUME PiReads PROVE Good
  BY <1>18, TypeIs DEF PiReads
<1>19. ASSUME PiReplies PROVE Good
  BY <1>19, TypeIs DEF PiReplies
<1>20. ASSUME PiPrintsJunk PROVE Good
  BY <1>20, TypeIs DEF PiPrintsJunk
<1>21. ASSUME PiDies PROVE Good
  BY <1>21, TypeIs DEF PiDies
<1>22. ASSUME Pick PROVE Good
  BY <1>22, TypeIs DEF Pick
<1>23. ASSUME NEW c \in Calls, StartFails(c) PROVE Good
  BY <1>23, EndFacts DEF StartFails, Steps, Ended, Holds, Asks, Reads, Enters
<1>24. ASSUME NEW c \in Calls, AskTimesOut(c) PROVE Good
  BY <1>24, EndFacts DEF AskTimesOut, Steps, Ended, Holds, Asks, Reads, Enters
<1>25. ASSUME NEW c \in Calls, ClientLeaves(c) PROVE Good
  <2>1. calls'[c] = [calls[c] EXCEPT !.gone = TRUE, !.chan = <<>>]
        /\ (\A d \in Calls \ {c} : calls'[d] = calls[d]) /\ queue' = queue
    BY <1>25, TypeIs DEF ClientLeaves
  <2>2. calls'[c] \in CallType
    BY <2>1, TypeIs, Empty DEF CallType
  <2>3. QED
    BY <1>25, <2>1, <2>2, TypeIs DEF ClientLeaves
<1>26. ASSUME NEW c \in Calls, NEW op \in Ops, Call(c, op) PROVE Good
  <2>1. CASE op \in {"session", "start"}
    <3>1. calls'[c] = [calls[c] EXCEPT !.op = op, !.step = "called", !.want = picked]
          /\ (\A d \in Calls \ {c} : calls'[d] = calls[d]) /\ queue' = queue
      BY <1>26, <2>1, TypeIs DEF Call
    <3>2. calls'[c] \in CallType
      BY <3>1, TypeIs DEF CallType, Steps
    <3>3. QED
      BY <1>26, <2>1, <3>1, <3>2, TypeIs DEF Call
  <2>2. CASE op \notin {"session", "start"}
    <3>1. calls'[c] = [calls[c] EXCEPT !.op = op, !.step = "waits"]
          /\ (\A d \in Calls \ {c} : calls'[d] = calls[d]) /\ queue' = Append(queue, c)
      BY <1>26, <2>2, TypeIs DEF Call
    <3>2. calls'[c] \in CallType
      BY <3>1, TypeIs DEF CallType, Steps
    <3>3. QED
      BY <1>26, <2>2, <3>1, <3>2, TypeIs DEF Call
  <2>3. QED
    BY <2>1, <2>2
<1>27. ASSUME UNCHANGED vars PROVE Good
  BY <1>27, TypeIs DEF vars
<1>28. QED
  BY <1>1, <1>2, <1>3, <1>4, <1>5, <1>6, <1>7, <1>8, <1>9, <1>10, <1>11,
     <1>12, <1>13, <1>14, <1>15, <1>16, <1>17, <1>18, <1>19, <1>20,
     <1>21, <1>22, <1>23, <1>24, <1>25, <1>26, <1>27 DEF Next, Handles, Environment

\* Pi's record keeps its type.
LEMMA AgentTyped ==
    ASSUME TypeOK, LinesAreOfCalls, [Next]_vars
    PROVE  agent' \in AgentType
<1> DEFINE Good == agent' \in AgentType
<1>1. ASSUME NEW c \in Calls, Lock(c) PROVE Good
  BY <1>1, TypeIs DEF Lock
<1>2. ASSUME NEW c \in Calls, NoAgentToUse(c) PROVE Good
  BY <1>2, TypeIs DEF NoAgentToUse
<1>3. ASSUME NEW c \in Calls, Start(c) PROVE Good
  <2>1. calls[c].want \in Models \cup {Nothing}
    BY TypeIs DEF CallType
  <2>2. CASE agent.up # "none"
    BY <1>3, <2>2, TypeIs DEF Start
  <2>3. CASE agent' = NewAgent(calls[c].want, FreshSession)
    BY <2>1, <2>3, FreshFacts, Empty DEF NewAgent, NoAgent, AgentType
  <2>4. QED
    BY <1>3, <2>2, <2>3, TypeIs DEF Start
<1>4. ASSUME NEW c \in Calls, NewSession(c) PROVE Good
  BY <1>4, WriteFacts DEF NewSession, Kinds
<1>5. ASSUME NEW c \in Calls, StartSession(c) PROVE Good
  BY <1>5, StartedFacts
<1>6. ASSUME NEW c \in Calls, State(c) PROVE Good
  BY <1>6, WriteFacts DEF State, Kinds
<1>7. ASSUME NEW c \in Calls, EndSession(c) PROVE Good
  BY <1>7, WriteFacts DEF EndSession, Kinds
<1>8. ASSUME NEW c \in Calls, Skip(c) PROVE Good
  BY <1>8, ReadFacts DEF Skip
<1>9. ASSUME NEW c \in Calls, SessionMade(c) PROVE Good
  BY <1>9, MadeFacts
<1>10. ASSUME NEW c \in Calls, StateRead(c) PROVE Good
  BY <1>10, ReadFacts DEF StateRead
<1>11. ASSUME NEW c \in Calls, AskEnds(c) PROVE Good
  <2>1. CASE agent.out = <<>>
    BY <1>11, <2>1, TypeIs DEF AskEnds, AgentType
  <2>2. CASE agent.out # <<>>
    BY <1>11, <2>2, ReadFacts DEF AskEnds
  <2>3. QED
    BY <2>1, <2>2
<1>12. ASSUME NEW c \in Calls, Prompt(c) PROVE Good
  BY <1>12, WriteFacts DEF Prompt, Kinds
<1>13. ASSUME NEW c \in Calls, ReadLine(c) PROVE Good
  BY <1>13, ReadFacts DEF ReadLine
<1>14. ASSUME NEW c \in Calls, SendLine(c) PROVE Good
  BY <1>14, TypeIs DEF SendLine
<1>15. ASSUME NEW c \in Calls, ReplyEnds(c) PROVE Good
  BY <1>15, TypeIs DEF ReplyEnds
<1>16. ASSUME NEW c \in Calls, Cancelled(c) PROVE Good
  BY <1>16, CancelFacts
<1>17. ASSUME NEW c \in Calls, ClientTakes(c) PROVE Good
  BY <1>17, TypeIs DEF ClientTakes
<1>18. ASSUME PiReads PROVE Good
  BY <1>18, TakesFacts DEF PiTakes
<1>19. ASSUME PiReplies PROVE Good
  BY <1>19, RepliesFacts
<1>20. ASSUME PiPrintsJunk PROVE Good
  BY <1>20, JunkFacts
<1>21. ASSUME PiDies PROVE Good
  BY <1>21, TypeIs, Empty DEF PiDies, AgentType
<1>22. ASSUME Pick PROVE Good
  BY <1>22, TypeIs DEF Pick
<1>23. ASSUME NEW c \in Calls, StartFails(c) PROVE Good
  BY <1>23, Empty DEF StartFails, NoAgent, AgentType
<1>24. ASSUME NEW c \in Calls, AskTimesOut(c) PROVE Good
  BY <1>24, TypeIs DEF AskTimesOut
<1>25. ASSUME NEW c \in Calls, ClientLeaves(c) PROVE Good
  BY <1>25, TypeIs DEF ClientLeaves
<1>26. ASSUME NEW c \in Calls, NEW op \in Ops, Call(c, op) PROVE Good
  BY <1>26, TypeIs DEF Call
<1>27. ASSUME UNCHANGED vars PROVE Good
  BY <1>27, TypeIs DEF vars
<1>28. QED
  BY <1>1, <1>2, <1>3, <1>4, <1>5, <1>6, <1>7, <1>8, <1>9, <1>10, <1>11,
     <1>12, <1>13, <1>14, <1>15, <1>16, <1>17, <1>18, <1>19, <1>20,
     <1>21, <1>22, <1>23, <1>24, <1>25, <1>26, <1>27 DEF Next, Handles, Environment

\* The rest keeps its type.
LEMMA RestTyped ==
    ASSUME TypeOK, [Next]_vars
    PROVE  picked' \in Models /\ agentModel' \in Models \cup {Nothing} /\ left' \in 0..Faults
<1> DEFINE Good == picked' \in Models /\ agentModel' \in Models \cup {Nothing} /\ left' \in 0..Faults
<1>1. ASSUME NEW c \in Calls, Lock(c) PROVE Good
  BY <1>1, TypeIs, FaultsAssumption DEF Lock, Fault
<1>2. ASSUME NEW c \in Calls, NoAgentToUse(c) PROVE Good
  BY <1>2, TypeIs, FaultsAssumption DEF NoAgentToUse, Fault
<1>3. ASSUME NEW c \in Calls, Start(c) PROVE Good
  BY <1>3, TypeIs DEF Start, CallType
<1>4. ASSUME NEW c \in Calls, NewSession(c) PROVE Good
  BY <1>4, TypeIs, FaultsAssumption DEF NewSession, Fault
<1>5. ASSUME NEW c \in Calls, StartSession(c) PROVE Good
  BY <1>5, StartedFacts, TypeIs DEF StartSession
<1>6. ASSUME NEW c \in Calls, State(c) PROVE Good
  BY <1>6, TypeIs, FaultsAssumption DEF State, Fault
<1>7. ASSUME NEW c \in Calls, EndSession(c) PROVE Good
  BY <1>7, TypeIs, FaultsAssumption DEF EndSession, Fault
<1>8. ASSUME NEW c \in Calls, Skip(c) PROVE Good
  BY <1>8, TypeIs, FaultsAssumption DEF Skip, Fault
<1>9. ASSUME NEW c \in Calls, SessionMade(c) PROVE Good
  BY <1>9, TypeIs, FaultsAssumption DEF SessionMade, Fault
<1>10. ASSUME NEW c \in Calls, StateRead(c) PROVE Good
  BY <1>10, TypeIs, FaultsAssumption DEF StateRead, Fault
<1>11. ASSUME NEW c \in Calls, AskEnds(c) PROVE Good
  BY <1>11, TypeIs, FaultsAssumption DEF AskEnds, Fault
<1>12. ASSUME NEW c \in Calls, Prompt(c) PROVE Good
  BY <1>12, TypeIs, FaultsAssumption DEF Prompt, Fault
<1>13. ASSUME NEW c \in Calls, ReadLine(c) PROVE Good
  BY <1>13, TypeIs, FaultsAssumption DEF ReadLine, Fault
<1>14. ASSUME NEW c \in Calls, SendLine(c) PROVE Good
  BY <1>14, TypeIs, FaultsAssumption DEF SendLine, Fault
<1>15. ASSUME NEW c \in Calls, ReplyEnds(c) PROVE Good
  BY <1>15, TypeIs, FaultsAssumption DEF ReplyEnds, Fault
<1>16. ASSUME NEW c \in Calls, Cancelled(c) PROVE Good
  BY <1>16, TypeIs, FaultsAssumption DEF Cancelled, Fault
<1>17. ASSUME NEW c \in Calls, ClientTakes(c) PROVE Good
  BY <1>17, TypeIs, FaultsAssumption DEF ClientTakes, Fault
<1>18. ASSUME PiReads PROVE Good
  BY <1>18, TypeIs, FaultsAssumption DEF PiReads, Fault
<1>19. ASSUME PiReplies PROVE Good
  BY <1>19, TypeIs, FaultsAssumption DEF PiReplies, Fault
<1>20. ASSUME PiPrintsJunk PROVE Good
  BY <1>20, TypeIs, FaultsAssumption DEF PiPrintsJunk, Fault
<1>21. ASSUME PiDies PROVE Good
  BY <1>21, TypeIs, FaultsAssumption DEF PiDies, Fault
<1>22. ASSUME Pick PROVE Good
  BY <1>22, TypeIs, FaultsAssumption DEF Pick, Fault
<1>23. ASSUME NEW c \in Calls, StartFails(c) PROVE Good
  BY <1>23, TypeIs, FaultsAssumption DEF StartFails, Fault
<1>24. ASSUME NEW c \in Calls, AskTimesOut(c) PROVE Good
  BY <1>24, TypeIs, FaultsAssumption DEF AskTimesOut, Fault
<1>25. ASSUME NEW c \in Calls, ClientLeaves(c) PROVE Good
  BY <1>25, TypeIs, FaultsAssumption DEF ClientLeaves, Fault
<1>26. ASSUME NEW c \in Calls, NEW op \in Ops, Call(c, op) PROVE Good
  BY <1>26, TypeIs, FaultsAssumption DEF Call, Fault
<1>27. ASSUME UNCHANGED vars PROVE Good
  BY <1>27, TypeIs DEF vars
<1>28. QED
  BY <1>1, <1>2, <1>3, <1>4, <1>5, <1>6, <1>7, <1>8, <1>9, <1>10, <1>11,
     <1>12, <1>13, <1>14, <1>15, <1>16, <1>17, <1>18, <1>19, <1>20,
     <1>21, <1>22, <1>23, <1>24, <1>25, <1>26, <1>27 DEF Next, Handles, Environment

\* The types are kept.
LEMMA TypeStep ==
    ASSUME TypeOK, LinesAreOfCalls, [Next]_vars
    PROVE  TypeOK'
<1>1. calls' \in [Calls -> CallType] /\ queue' \in Seq(Calls)
  BY CallsTyped
<1>2. agent' \in AgentType
  BY AgentTyped
<1>3. picked' \in Models /\ agentModel' \in Models \cup {Nothing} /\ left' \in 0..Faults
  BY RestTyped
<1>4. QED
  BY <1>1, <1>2, <1>3 DEF TypeOK, AgentType, CallType, Steps

-----------------------------------------------------------------------------
(* The mutex: one holder, and a call that has ended is not in the queue.   *)

Same(d) == calls'[d].step = calls[d].step /\ calls'[d].op = calls[d].op
Others(c) == \A d \in Calls \ {c} : Same(d)
InTurn == {"waits"} \cup Asking \cup Reading

\* What a step may do to the queue and to the steps of the calls.
Stay == queue' = queue /\ \A d \in Calls : Same(d)
Advances(c) ==
    /\ Holds(c) /\ calls[c].step \in InTurn /\ calls'[c].step \in Asking \cup Reading
    /\ queue' = queue /\ calls'[c].op = calls[c].op /\ Others(c)
Ends(c) ==
    /\ Holds(c) /\ calls[c].step \in InTurn /\ calls'[c].step \in Ended
    /\ queue' = Tail(queue) /\ calls'[c].op = calls[c].op /\ Others(c)
Queues(c) ==
    /\ calls[c].step \in {"none", "called"} /\ calls'[c].step = "waits"
    /\ queue' = Append(queue, c) /\ Others(c)
Begins(c) ==
    /\ calls[c].step = "none" /\ calls'[c].step = "called"
    /\ queue' = queue /\ Others(c)
Turns == Stay \/ \E c \in Calls : Advances(c) \/ Ends(c) \/ Queues(c) \/ Begins(c)

\* Every step is one of these.
LEMMA TurnSteps ==
    ASSUME TypeOK, [Next]_vars
    PROVE  Turns
<1>1. ASSUME NEW c \in Calls, Lock(c) PROVE Turns
  <2>1. Queues(c)
    BY <1>1, StepFacts DEF Lock, Queues, Others, Same, Steps
  <2>2. QED
    BY <2>1 DEF Turns
<1>2. ASSUME NEW c \in Calls, NoAgentToUse(c) PROVE Turns
  <2>1. Ends(c)
    BY <1>2, EndFacts DEF NoAgentToUse, Ends, Others, Same, InTurn, Steps, Asking, Reading, Ended, Asks, Reads, Enters
  <2>2. QED
    BY <2>1 DEF Turns
<1>3. ASSUME NEW c \in Calls, Start(c) PROVE Turns
  <2>1. Ends(c)
    BY <1>3, EndFacts DEF Start, Ends, Others, Same, InTurn, Steps, Asking, Reading, Ended, Asks, Reads, Enters
  <2>2. QED
    BY <2>1 DEF Turns
<1>4. ASSUME NEW c \in Calls, NewSession(c) PROVE Turns
  <2>1. Advances(c)
    BY <1>4, StepFacts DEF NewSession, Advances, Others, Same, InTurn, Steps, Asking, Reading, Asks, Enters
  <2>2. QED
    BY <2>1 DEF Turns
<1>5. ASSUME NEW c \in Calls, StartSession(c) PROVE Turns
  <2>1. Advances(c)
    BY <1>5, StepFacts DEF StartSession, Advances, Others, Same, InTurn, Steps, Asking, Reading, Asks, Enters
  <2>2. QED
    BY <2>1 DEF Turns
<1>6. ASSUME NEW c \in Calls, State(c) PROVE Turns
  <2>1. Advances(c)
    BY <1>6, StepFacts DEF State, Advances, Others, Same, InTurn, Steps, Asking, Reading, Asks, Enters
  <2>2. QED
    BY <2>1 DEF Turns
<1>7. ASSUME NEW c \in Calls, EndSession(c) PROVE Turns
  <2>1. Ends(c)
    BY <1>7, EndFacts DEF EndSession, Ends, Others, Same, InTurn, Steps, Asking, Reading, Ended, Asks, Reads, Enters
  <2>2. QED
    BY <2>1 DEF Turns
<1>8. ASSUME NEW c \in Calls, Skip(c) PROVE Turns
  BY <1>8 DEF Skip, Turns, Stay, Same
<1>9. ASSUME NEW c \in Calls, SessionMade(c) PROVE Turns
  <2>1. Advances(c)
    BY <1>9, StepFacts DEF SessionMade, Advances, Others, Same, InTurn, Steps, Asking, Reading, Asks, Enters
  <2>2. QED
    BY <2>1 DEF Turns
<1>10. ASSUME NEW c \in Calls, StateRead(c) PROVE Turns
  <2>1. Ends(c)
    BY <1>10, TypeIs DEF StateRead, Ends, Others, Same, InTurn, Asking, Ended, Asks, CallType
  <2>2. QED
    BY <2>1 DEF Turns
<1>11. ASSUME NEW c \in Calls, AskEnds(c) PROVE Turns
  <2>1. Ends(c)
    BY <1>11, EndFacts DEF AskEnds, Ends, Others, Same, InTurn, Steps, Asking, Reading, Ended, Asks, Reads, Enters
  <2>2. QED
    BY <2>1 DEF Turns
<1>12. ASSUME NEW c \in Calls, Prompt(c) PROVE Turns
  <2>1. Advances(c)
    BY <1>12, StepFacts DEF Prompt, Advances, Others, Same, InTurn, Steps, Asking, Reading, Asks, Enters
  <2>2. QED
    BY <2>1 DEF Turns
<1>13. ASSUME NEW c \in Calls, ReadLine(c) PROVE Turns
  <2>1. CASE Head(agent.out).kind = "junk"
    <3>1. Ends(c)
      BY <1>13, <2>1, LineRead DEF ReadLine, Ends, Others, Same, InTurn, Reading, Ended, Reads
    <3>2. QED
      BY <3>1 DEF Turns
  <2>2. CASE Head(agent.out).kind # "junk"
    BY <1>13, <2>2, LineRead DEF Turns, Stay, Same
  <2>3. QED
    BY <2>1, <2>2
<1>14. ASSUME NEW c \in Calls, SendLine(c) PROVE Turns
  <2>1. CASE Head(calls[c].held).kind = "settled"
    <3>1. Ends(c)
      BY <1>14, <2>1, SendFacts DEF SendLine, Ends, Others, Same, InTurn, Reading, Ended, Reads
    <3>2. QED
      BY <3>1 DEF Turns
  <2>2. CASE Head(calls[c].held).kind # "settled"
    BY <1>14, <2>2, SendFacts DEF Turns, Stay, Same
  <2>3. QED
    BY <2>1, <2>2
<1>15. ASSUME NEW c \in Calls, ReplyEnds(c) PROVE Turns
  <2>1. Ends(c)
    BY <1>15, EndFacts DEF ReplyEnds, Ends, Others, Same, InTurn, Steps, Asking, Reading, Ended, Asks, Reads, Enters
  <2>2. QED
    BY <2>1 DEF Turns
<1>16. ASSUME NEW c \in Calls, Cancelled(c) PROVE Turns
  <2>1. Advances(c)
    BY <1>16, CancelFacts DEF Cancelled, Advances, Others, Same, InTurn, Reading
  <2>2. QED
    BY <2>1 DEF Turns
<1>17. ASSUME NEW c \in Calls, ClientTakes(c) PROVE Turns
  BY <1>17, TypeIs DEF ClientTakes, Turns, Stay, Same, CallType
<1>18. ASSUME PiReads PROVE Turns
  BY <1>18 DEF PiReads, Turns, Stay, Same
<1>19. ASSUME PiReplies PROVE Turns
  BY <1>19 DEF PiReplies, Turns, Stay, Same
<1>20. ASSUME PiPrintsJunk PROVE Turns
  BY <1>20 DEF PiPrintsJunk, Turns, Stay, Same
<1>21. ASSUME PiDies PROVE Turns
  BY <1>21 DEF PiDies, Turns, Stay, Same
<1>22. ASSUME Pick PROVE Turns
  BY <1>22 DEF Pick, Turns, Stay, Same
<1>23. ASSUME NEW c \in Calls, StartFails(c) PROVE Turns
  <2>1. Ends(c)
    BY <1>23, EndFacts DEF StartFails, Ends, Others, Same, InTurn, Steps, Asking, Reading, Ended, Asks, Reads, Enters
  <2>2. QED
    BY <2>1 DEF Turns
<1>24. ASSUME NEW c \in Calls, AskTimesOut(c) PROVE Turns
  <2>1. Ends(c)
    BY <1>24, EndFacts DEF AskTimesOut, Ends, Others, Same, InTurn, Steps, Asking, Reading, Ended, Asks, Reads, Enters
  <2>2. QED
    BY <2>1 DEF Turns
<1>25. ASSUME NEW c \in Calls, ClientLeaves(c) PROVE Turns
  BY <1>25, TypeIs DEF ClientLeaves, Turns, Stay, Same, CallType
<1>26. ASSUME NEW c \in Calls, NEW op \in Ops, Call(c, op) PROVE Turns
  <2>1. calls[c].step = "none" /\ \A d \in Calls \ {c} : calls'[d] = calls[d]
    BY <1>26, TypeIs DEF Call, NoCall
  <2>2. Queues(c) \/ Begins(c)
    BY <1>26, <2>1, TypeIs DEF Call, Queues, Begins, Others, Same, CallType
  <2>3. QED
    BY <2>2 DEF Turns
<1>27. ASSUME UNCHANGED vars PROVE Turns
  BY <1>27 DEF vars, Turns, Stay, Same
<1>28. QED
  BY <1>1, <1>2, <1>3, <1>4, <1>5, <1>6, <1>7, <1>8, <1>9, <1>10, <1>11,
     <1>12, <1>13, <1>14, <1>15, <1>16, <1>17, <1>18, <1>19, <1>20,
     <1>21, <1>22, <1>23, <1>24, <1>25, <1>26, <1>27 DEF Next, Handles, Environment

\* The one that has the mutex leaves, or another one queues up.
LEMMA QueueFacts ==
    ASSUME NEW s \in Seq(Calls), NEW c \in Calls
    PROVE  /\ Len(s) \in Nat /\ DOMAIN s = 1..Len(s)
           /\ DOMAIN Append(s, c) = 1..(Len(s) + 1) /\ Append(s, c)[Len(s) + 1] = c
           /\ \A i \in DOMAIN s : Append(s, c)[i] = s[i]
           /\ Head(Append(s, c)) = Append(s, c)[1] /\ Append(s, c) # <<>>
           /\ s # <<>> => /\ Head(s) = s[1] /\ 1 \in DOMAIN s /\ DOMAIN Tail(s) = 1..(Len(s) - 1)
                          /\ \A i \in DOMAIN Tail(s) : i + 1 \in DOMAIN s /\ Tail(s)[i] = s[i + 1]
<1>1. Len(s) \in Nat /\ DOMAIN s = 1..Len(s)
  OBVIOUS
<1>2. /\ DOMAIN Append(s, c) = 1..(Len(s) + 1) /\ Append(s, c)[Len(s) + 1] = c
      /\ \A i \in DOMAIN s : Append(s, c)[i] = s[i]
  OBVIOUS
<1>3. Append(s, c) # <<>>
  BY AppendProperties
<1>4. Head(Append(s, c)) = Append(s, c)[1]
  BY <1>3
<1>5. ASSUME s # <<>>
      PROVE  /\ Head(s) = s[1] /\ 1 \in DOMAIN s /\ DOMAIN Tail(s) = 1..(Len(s) - 1)
             /\ \A i \in DOMAIN Tail(s) : i + 1 \in DOMAIN s /\ Tail(s)[i] = s[i + 1]
  BY <1>5
<1>6. QED
  BY <1>1, <1>2, <1>3, <1>4, <1>5

\* The mutex has one holder, and whoever has written to Pi is the one.
LEMMA TurnKeeps ==
    ASSUME TypeOK, OneAtATime, [Next]_vars
    PROVE  OneAtATime'
<1> DEFINE Out == {"none", "called"} \cup Ended
<1>0. queue \in Seq(Calls) /\ calls \in [Calls -> CallType] /\ calls' \in [Calls -> CallType]
  BY TypeIs, CallsTyped
<1>1. CASE Stay
  BY <1>1 DEF Stay, Same, OneAtATime, Holds
<1>2. ASSUME NEW c \in Calls, Advances(c) PROVE OneAtATime'
  BY <1>2 DEF Advances, Others, Same, OneAtATime, Holds, InTurn, Asking, Reading, Ended
<1>3. ASSUME NEW c \in Calls, Ends(c) PROVE OneAtATime'
  <2>1. /\ queue # <<>> /\ queue[1] = c /\ Len(queue) \in Nat /\ DOMAIN queue = 1..Len(queue)
        /\ DOMAIN queue' = 1..(Len(queue) - 1)
        /\ \A i \in DOMAIN queue' : i + 1 \in DOMAIN queue /\ queue'[i] = queue[i + 1]
    BY <1>0, <1>3, QueueFacts DEF Ends, Holds
  <2>2. \A i, j \in DOMAIN queue' : queue'[i] = queue'[j] => i = j
    BY <2>1 DEF OneAtATime
  <2>3. \A i \in DOMAIN queue' : queue'[i] # c
    BY <2>1 DEF OneAtATime
  <2>4. \A d \in Calls \ {c} : (\E i \in DOMAIN queue : queue[i] = d) <=> \E i \in DOMAIN queue' : queue'[i] = d
    <3>1. ASSUME NEW d \in Calls \ {c}, NEW i \in DOMAIN queue, queue[i] = d
          PROVE  \E j \in DOMAIN queue' : queue'[j] = d
      <4>1. i # 1 /\ i - 1 \in DOMAIN queue' /\ queue'[i - 1] = queue[(i - 1) + 1]
        BY <2>1, <3>1
      <4>2. queue'[i - 1] = d
        BY <2>1, <3>1, <4>1
      <4>3. QED
        BY <4>1, <4>2
    <3>2. QED
      BY <2>1, <3>1
  <2>5. \A d \in Calls : calls'[d].step \notin Out <=> \E i \in DOMAIN queue' : queue'[i] = d
    BY <1>3, <2>3, <2>4 DEF Ends, Others, Same, OneAtATime
  <2>6. \A d \in Calls : calls'[d].step \notin Asking \cup Reading
    BY <1>3, <2>1 DEF Ends, Others, Same, OneAtATime, Holds, Ended, Asking, Reading
  <2>7. QED
    BY <2>2, <2>5, <2>6 DEF OneAtATime
<1>4. ASSUME NEW c \in Calls, Queues(c) PROVE OneAtATime'
  <2>1. /\ Len(queue) \in Nat /\ DOMAIN queue = 1..Len(queue)
        /\ DOMAIN queue' = 1..(Len(queue) + 1) /\ queue'[Len(queue) + 1] = c /\ queue' # <<>>
        /\ \A i \in DOMAIN queue : queue'[i] = queue[i]
        /\ Head(queue') = queue'[1] /\ queue # <<>> => Head(queue) = queue[1] /\ 1 \in DOMAIN queue
    BY <1>0, <1>4, QueueFacts DEF Queues
  <2>2. \A i \in DOMAIN queue : queue[i] # c
    BY <1>4 DEF Queues, OneAtATime, Ended
  <2>3. \A i, j \in DOMAIN queue' : queue'[i] = queue'[j] => i = j
    BY <2>1, <2>2 DEF OneAtATime
  <2>4. \A d \in Calls \ {c} : (\E i \in DOMAIN queue : queue[i] = d) <=> \E i \in DOMAIN queue' : queue'[i] = d
    BY <2>1
  <2>5. \A d \in Calls : calls'[d].step \notin Out <=> \E i \in DOMAIN queue' : queue'[i] = d
    <3>1. Len(queue) + 1 \in DOMAIN queue'
      BY <2>1
    <3>2. "waits" \notin Out
      BY DEF Ended
    <3>3. QED
      BY <1>4, <2>1, <2>4, <3>1, <3>2 DEF Queues, Others, Same, OneAtATime
  <2>6. \A d \in Calls : calls'[d].step \in Asking \cup Reading => queue' # <<>> /\ Head(queue') = d
    BY <1>4, <2>1 DEF Queues, Others, Same, OneAtATime, Holds, Asking, Reading
  <2>7. QED
    BY <2>3, <2>5, <2>6 DEF OneAtATime, Holds
<1>5. ASSUME NEW c \in Calls, Begins(c) PROVE OneAtATime'
  BY <1>5 DEF Begins, Others, Same, OneAtATime, Holds, Asking, Reading, Ended
<1>6. QED
  BY <1>1, <1>2, <1>3, <1>4, <1>5, TurnSteps DEF Turns

\* A Pi that is there is the one whose name is written down.
LEMMA NameKeeps ==
    ASSUME TypeOK, LinesAreOfCalls, ModelIsThePis, [Next]_vars
    PROVE  ModelIsThePis'
<1>1. ASSUME NEW c \in Calls, Lock(c) PROVE ModelIsThePis'
  BY <1>1 DEF Lock, ModelIsThePis
<1>2. ASSUME NEW c \in Calls, NoAgentToUse(c) PROVE ModelIsThePis'
  BY <1>2 DEF NoAgentToUse, ModelIsThePis
<1>3. ASSUME NEW c \in Calls, Start(c) PROVE ModelIsThePis'
  <2>1. CASE agent' = NewAgent(calls[c].want, FreshSession)
    BY <1>3, <2>1 DEF Start, NewAgent, NoAgent, ModelIsThePis
  <2>2. QED
    BY <1>3, <2>1 DEF Start, ModelIsThePis
<1>4. ASSUME NEW c \in Calls, NewSession(c) PROVE ModelIsThePis'
  BY <1>4, WriteFacts DEF NewSession, ModelIsThePis, Kinds
<1>5. ASSUME NEW c \in Calls, StartSession(c) PROVE ModelIsThePis'
  BY <1>5, StartedFacts DEF ModelIsThePis
<1>6. ASSUME NEW c \in Calls, State(c) PROVE ModelIsThePis'
  BY <1>6, WriteFacts DEF State, ModelIsThePis, Kinds
<1>7. ASSUME NEW c \in Calls, EndSession(c) PROVE ModelIsThePis'
  BY <1>7, WriteFacts DEF EndSession, ModelIsThePis, Kinds
<1>8. ASSUME NEW c \in Calls, Skip(c) PROVE ModelIsThePis'
  BY <1>8, ReadFacts DEF Skip, ModelIsThePis
<1>9. ASSUME NEW c \in Calls, SessionMade(c) PROVE ModelIsThePis'
  BY <1>9, MadeFacts DEF SessionMade, ModelIsThePis
<1>10. ASSUME NEW c \in Calls, StateRead(c) PROVE ModelIsThePis'
  BY <1>10, ReadFacts DEF StateRead, ModelIsThePis
<1>11. ASSUME NEW c \in Calls, AskEnds(c) PROVE ModelIsThePis'
  BY <1>11, TypeIs DEF AskEnds, AgentType, ModelIsThePis
<1>12. ASSUME NEW c \in Calls, Prompt(c) PROVE ModelIsThePis'
  BY <1>12, WriteFacts DEF Prompt, ModelIsThePis, Kinds
<1>13. ASSUME NEW c \in Calls, ReadLine(c) PROVE ModelIsThePis'
  BY <1>13, ReadFacts DEF ReadLine, ModelIsThePis
<1>14. ASSUME NEW c \in Calls, SendLine(c) PROVE ModelIsThePis'
  BY <1>14 DEF SendLine, ModelIsThePis
<1>15. ASSUME NEW c \in Calls, ReplyEnds(c) PROVE ModelIsThePis'
  BY <1>15 DEF ReplyEnds, ModelIsThePis
<1>16. ASSUME NEW c \in Calls, Cancelled(c) PROVE ModelIsThePis'
  BY <1>16, CancelFacts DEF Cancelled, ModelIsThePis
<1>17. ASSUME NEW c \in Calls, ClientTakes(c) PROVE ModelIsThePis'
  BY <1>17 DEF ClientTakes, ModelIsThePis
<1>18. ASSUME PiReads PROVE ModelIsThePis'
  BY <1>18, TakesFacts DEF PiReads, PiTakes, ModelIsThePis
<1>19. ASSUME PiReplies PROVE ModelIsThePis'
  BY <1>19, RepliesFacts DEF PiReplies, ModelIsThePis
<1>20. ASSUME PiPrintsJunk PROVE ModelIsThePis'
  BY <1>20, JunkFacts DEF PiPrintsJunk, ModelIsThePis
<1>21. ASSUME PiDies PROVE ModelIsThePis'
  BY <1>21, TypeIs DEF PiDies, AgentType, ModelIsThePis
<1>22. ASSUME Pick PROVE ModelIsThePis'
  BY <1>22 DEF Pick, ModelIsThePis
<1>23. ASSUME NEW c \in Calls, StartFails(c) PROVE ModelIsThePis'
  BY <1>23 DEF StartFails, NoAgent, ModelIsThePis
<1>24. ASSUME NEW c \in Calls, AskTimesOut(c) PROVE ModelIsThePis'
  BY <1>24 DEF AskTimesOut, ModelIsThePis
<1>25. ASSUME NEW c \in Calls, ClientLeaves(c) PROVE ModelIsThePis'
  BY <1>25 DEF ClientLeaves, ModelIsThePis
<1>26. ASSUME NEW c \in Calls, NEW op \in Ops, Call(c, op) PROVE ModelIsThePis'
  BY <1>26 DEF Call, ModelIsThePis
<1>27. ASSUME UNCHANGED vars PROVE ModelIsThePis'
  BY <1>27 DEF vars, ModelIsThePis
<1>28. QED
  BY <1>1, <1>2, <1>3, <1>4, <1>5, <1>6, <1>7, <1>8, <1>9, <1>10, <1>11,
     <1>12, <1>13, <1>14, <1>15, <1>16, <1>17, <1>18, <1>19, <1>20,
     <1>21, <1>22, <1>23, <1>24, <1>25, <1>26, <1>27 DEF Next, Handles, Environment

-----------------------------------------------------------------------------
(* What is in the pipes was written by a request of its kind.              *)

Sent(s) == {s[i] : i \in DOMAIN s}

\* Lines are added and taken one by one.
LEMMA SentFacts ==
    /\ Sent(<<>>) = {}
    /\ \A s \in Seq(Lines) : Sent(s) \subseteq Lines
    /\ \A s \in Seq(Lines), l \in Lines : Sent(Append(s, l)) = Sent(s) \cup {l} /\ Sent(<<l>>) = {l}
    /\ \A s \in Seq(Lines) : s # <<>> => Head(s) \in Sent(s) /\ Sent(Tail(s)) \subseteq Sent(s)
<1>1. Sent(<<>>) = {} /\ \A l \in Lines : Sent(<<l>>) = {l}
  BY Empty DEF Sent
<1>2. \A s \in Seq(Lines) : Sent(s) \subseteq Lines
  BY Empty DEF Sent
<1>3. ASSUME NEW s \in Seq(Lines), NEW l \in Lines
      PROVE  Sent(Append(s, l)) = Sent(s) \cup {l}
  <2>1. /\ DOMAIN s = 1..Len(s) /\ Len(s) \in Nat /\ DOMAIN Append(s, l) = 1..(Len(s) + 1)
        /\ \A i \in DOMAIN s : Append(s, l)[i] = s[i]
        /\ Append(s, l)[Len(s) + 1] = l
    BY Appended
  <2>2. DOMAIN Append(s, l) = DOMAIN s \cup {Len(s) + 1}
    BY <2>1
  <2>3. QED
    BY <2>1, <2>2 DEF Sent
<1>4. ASSUME NEW s \in Seq(Lines), s # <<>>
      PROVE  Head(s) \in Sent(s) /\ Sent(Tail(s)) \subseteq Sent(s)
  BY <1>4, Taken DEF Sent
<1>5. QED
  BY <1>1, <1>2, <1>3, <1>4

\* A line is added.
LEMMA SentAppend ==
    ASSUME NEW s \in Seq(Lines), NEW l \in Lines
    PROVE  Append(s, l) \in Seq(Lines) /\ Sent(Append(s, l)) = Sent(s) \cup {l}
BY SentFacts, Appended

\* A pipe with one line.
LEMMA SentOne ==
    ASSUME NEW l \in Lines
    PROVE  Sent(<<l>>) = {l} /\ Sent(<<>>) = {}
BY SentFacts, Empty

\* Lines are added to the pipes, or read.
LEMMA PipeFacts ==
    ASSUME TypeOK
    PROVE  /\ \A l \in Lines : /\ Sent(Append(agent.in, l)) = Sent(agent.in) \cup {l}
                               /\ Sent(Append(agent.out, l)) = Sent(agent.out) \cup {l}
           /\ \A k, l \in Lines : Sent(Append(Append(agent.out, k), l)) = Sent(agent.out) \cup {k} \cup {l}
           /\ agent.out # <<>> => Sent(Tail(agent.out)) \subseteq Sent(agent.out)
<1>1. agent.in \in Seq(Lines) /\ agent.out \in Seq(Lines)
  BY TypeIs DEF AgentType
<1>2. \A l \in Lines : /\ Sent(Append(agent.in, l)) = Sent(agent.in) \cup {l}
                       /\ Sent(Append(agent.out, l)) = Sent(agent.out) \cup {l}
  BY <1>1, SentAppend
<1>3. ASSUME NEW k \in Lines, NEW l \in Lines
      PROVE  Sent(Append(Append(agent.out, k), l)) = Sent(agent.out) \cup {k} \cup {l}
  <2>1. Append(agent.out, k) \in Seq(Lines) /\ Sent(Append(agent.out, k)) = Sent(agent.out) \cup {k}
    BY <1>1, SentAppend
  <2>2. Sent(Append(Append(agent.out, k), l)) = Sent(Append(agent.out, k)) \cup {l}
    BY <2>1, SentAppend
  <2>3. QED
    BY <2>1, <2>2
<1>4. QED
  BY <1>1, <1>2, <1>3, SentFacts

\* A call that has written stays one that has, and of its kind.
LEMMA WrittenStays ==
    ASSUME TypeOK, OneAtATime, [Next]_vars, NEW c \in Calls, HasWritten(c)
    PROVE  HasWritten(c)' /\ calls'[c].op = calls[c].op
BY TurnSteps DEF Turns, Stay, Advances, Ends, Queues, Begins, Others, Same, HasWritten,
   InTurn, Asking, Reading, Ended

CallFits(c) == /\ calls[c].step \in Reading => calls[c].op = "prompt"
               /\ calls[c].step = "new_session" => calls[c].op = "session"
               /\ calls[c].step = "get_state" => calls[c].op \in {"session", "state"}
               /\ calls[c].held # <<>> => calls[c].step \in Reading

\* A step of one call leaves the others as they are.
LEMMA FitFrame ==
    ASSUME StepsFit, NEW c \in Calls, \A d \in Calls \ {c} : calls'[d] = calls[d], CallFits(c)'
    PROVE  StepsFit'
<1>1. ASSUME NEW d \in Calls PROVE CallFits(d)'
  BY DEF StepsFit, CallFits
<1>2. QED
  BY <1>1 DEF StepsFit, CallFits

\* Each kind of request takes its own steps.
LEMMA FitKeeps ==
    ASSUME TypeOK, StepsFit, [Next]_vars
    PROVE  StepsFit'
<1>1. ASSUME NEW c \in Calls, Lock(c) PROVE StepsFit'
  <2>1. (\A d \in Calls \ {c} : calls'[d] = calls[d]) /\ calls'[c].op = calls[c].op
        /\ calls'[c].step = "waits" /\ calls'[c].held = calls[c].held
    BY <1>1, StepFacts DEF Lock, Holds, Asks, Reads, Enters, CallType, Steps, Asking, Reading, Ended
  <2>2. CallFits(c)'
    BY <1>1, <2>1 DEF CallFits, StepsFit, Asking, Reading, Ended, Lock, Asks, Reads, Enters
  <2>3. QED
    BY <2>1, <2>2, FitFrame
<1>2. ASSUME NEW c \in Calls, NoAgentToUse(c) PROVE StepsFit'
  <2>1. (\A d \in Calls \ {c} : calls'[d] = calls[d]) /\ calls'[c].op = calls[c].op
        /\ calls'[c].step \in Ended /\ calls'[c].held = <<>>
    BY <1>2, EndFacts DEF NoAgentToUse, Holds, Asks, Reads, Enters, CallType, Steps, Asking, Reading, Ended
  <2>2. CallFits(c)'
    BY <1>2, <2>1 DEF CallFits, StepsFit, Asking, Reading, Ended, NoAgentToUse, Asks, Reads, Enters
  <2>3. QED
    BY <2>1, <2>2, FitFrame
<1>3. ASSUME NEW c \in Calls, Start(c) PROVE StepsFit'
  <2>1. (\A d \in Calls \ {c} : calls'[d] = calls[d]) /\ calls'[c].op = calls[c].op
        /\ calls'[c].step \in Ended /\ calls'[c].held = <<>>
    BY <1>3, EndFacts DEF Start, Holds, Asks, Reads, Enters, CallType, Steps, Asking, Reading, Ended
  <2>2. CallFits(c)'
    BY <1>3, <2>1 DEF CallFits, StepsFit, Asking, Reading, Ended, Start, Asks, Reads, Enters
  <2>3. QED
    BY <2>1, <2>2, FitFrame
<1>4. ASSUME NEW c \in Calls, NewSession(c) PROVE StepsFit'
  <2>1. (\A d \in Calls \ {c} : calls'[d] = calls[d]) /\ calls'[c].op = calls[c].op
        /\ calls'[c].step = "new_session" /\ calls'[c].held = calls[c].held
    BY <1>4, StepFacts DEF NewSession, Holds, Asks, Reads, Enters, CallType, Steps, Asking, Reading, Ended
  <2>2. CallFits(c)'
    BY <1>4, <2>1 DEF CallFits, StepsFit, Asking, Reading, Ended, NewSession, Asks, Reads, Enters
  <2>3. QED
    BY <2>1, <2>2, FitFrame
<1>5. ASSUME NEW c \in Calls, StartSession(c) PROVE StepsFit'
  <2>1. (\A d \in Calls \ {c} : calls'[d] = calls[d]) /\ calls'[c].op = calls[c].op
        /\ calls'[c].step = "get_state" /\ calls'[c].held = calls[c].held
    BY <1>5, StepFacts DEF StartSession, Holds, Asks, Reads, Enters, CallType, Steps, Asking, Reading, Ended
  <2>2. CallFits(c)'
    BY <1>5, <2>1 DEF CallFits, StepsFit, Asking, Reading, Ended, StartSession, Asks, Reads, Enters
  <2>3. QED
    BY <2>1, <2>2, FitFrame
<1>6. ASSUME NEW c \in Calls, State(c) PROVE StepsFit'
  <2>1. (\A d \in Calls \ {c} : calls'[d] = calls[d]) /\ calls'[c].op = calls[c].op
        /\ calls'[c].step = "get_state" /\ calls'[c].held = calls[c].held
    BY <1>6, StepFacts DEF State, Holds, Asks, Reads, Enters, CallType, Steps, Asking, Reading, Ended
  <2>2. CallFits(c)'
    BY <1>6, <2>1 DEF CallFits, StepsFit, Asking, Reading, Ended, State, Asks, Reads, Enters
  <2>3. QED
    BY <2>1, <2>2, FitFrame
<1>7. ASSUME NEW c \in Calls, EndSession(c) PROVE StepsFit'
  <2>1. (\A d \in Calls \ {c} : calls'[d] = calls[d]) /\ calls'[c].op = calls[c].op
        /\ calls'[c].step \in Ended /\ calls'[c].held = <<>>
    BY <1>7, EndFacts DEF EndSession, Holds, Asks, Reads, Enters, CallType, Steps, Asking, Reading, Ended
  <2>2. CallFits(c)'
    BY <1>7, <2>1 DEF CallFits, StepsFit, Asking, Reading, Ended, EndSession, Asks, Reads, Enters
  <2>3. QED
    BY <2>1, <2>2, FitFrame
<1>8. ASSUME NEW c \in Calls, Skip(c) PROVE StepsFit'
  BY <1>8 DEF Skip, StepsFit
<1>9. ASSUME NEW c \in Calls, SessionMade(c) PROVE StepsFit'
  <2>1. (\A d \in Calls \ {c} : calls'[d] = calls[d]) /\ calls'[c].op = calls[c].op
        /\ calls'[c].step = "get_state" /\ calls'[c].held = calls[c].held
    BY <1>9, StepFacts DEF SessionMade, Holds, Asks, Reads, Enters, CallType, Steps, Asking, Reading, Ended
  <2>2. CallFits(c)'
    BY <1>9, <2>1 DEF CallFits, StepsFit, Asking, Reading, Ended, SessionMade, Asks, Reads, Enters
  <2>3. QED
    BY <2>1, <2>2, FitFrame
<1>10. ASSUME NEW c \in Calls, StateRead(c) PROVE StepsFit'
  <2>1. (\A d \in Calls \ {c} : calls'[d] = calls[d]) /\ calls'[c].op = calls[c].op
        /\ calls'[c].step = "done" /\ calls'[c].held = calls[c].held
    BY <1>10, TypeIs DEF StateRead, Holds, Asks, Reads, Enters, CallType, Steps, Asking, Reading, Ended
  <2>2. CallFits(c)'
    BY <1>10, <2>1 DEF CallFits, StepsFit, Asking, Reading, Ended, StateRead, Asks, Reads, Enters
  <2>3. QED
    BY <2>1, <2>2, FitFrame
<1>11. ASSUME NEW c \in Calls, AskEnds(c) PROVE StepsFit'
  <2>1. (\A d \in Calls \ {c} : calls'[d] = calls[d]) /\ calls'[c].op = calls[c].op
        /\ calls'[c].step \in Ended /\ calls'[c].held = <<>>
    BY <1>11, EndFacts DEF AskEnds, Holds, Asks, Reads, Enters, CallType, Steps, Asking, Reading, Ended
  <2>2. CallFits(c)'
    BY <1>11, <2>1 DEF CallFits, StepsFit, Asking, Reading, Ended, AskEnds, Asks, Reads, Enters
  <2>3. QED
    BY <2>1, <2>2, FitFrame
<1>12. ASSUME NEW c \in Calls, Prompt(c) PROVE StepsFit'
  <2>1. (\A d \in Calls \ {c} : calls'[d] = calls[d]) /\ calls'[c].op = calls[c].op
        /\ calls'[c].step = "reads" /\ calls'[c].held = calls[c].held
    BY <1>12, StepFacts DEF Prompt, Holds, Asks, Reads, Enters, CallType, Steps, Asking, Reading, Ended
  <2>2. CallFits(c)'
    BY <1>12, <2>1 DEF CallFits, StepsFit, Asking, Reading, Ended, Prompt, Asks, Reads, Enters
  <2>3. QED
    BY <2>1, <2>2, FitFrame
<1>13. ASSUME NEW c \in Calls, ReadLine(c) PROVE StepsFit'
  <2>1. (\A d \in Calls \ {c} : calls'[d] = calls[d]) /\ calls'[c].op = calls[c].op
        /\ (calls'[c].step = calls[c].step \/ (calls'[c].step = "broken" /\ calls'[c].held = <<>>))
    BY <1>13, LineRead DEF ReadLine, Holds, Asks, Reads, Enters, CallType, Steps, Asking, Reading, Ended
  <2>2. CallFits(c)'
    BY <1>13, <2>1 DEF CallFits, StepsFit, Asking, Reading, Ended, ReadLine, Asks, Reads, Enters
  <2>3. QED
    BY <2>1, <2>2, FitFrame
<1>14. ASSUME NEW c \in Calls, SendLine(c) PROVE StepsFit'
  <2>1. (\A d \in Calls \ {c} : calls'[d] = calls[d]) /\ calls'[c].op = calls[c].op
        /\ calls'[c].step \in {"done", calls[c].step} /\ calls'[c].held = <<>>
    BY <1>14, SendFacts DEF SendLine, Holds, Asks, Reads, Enters, CallType, Steps, Asking, Reading, Ended
  <2>2. CallFits(c)'
    BY <1>14, <2>1 DEF CallFits, StepsFit, Asking, Reading, Ended, SendLine, Asks, Reads, Enters
  <2>3. QED
    BY <2>1, <2>2, FitFrame
<1>15. ASSUME NEW c \in Calls, ReplyEnds(c) PROVE StepsFit'
  <2>1. (\A d \in Calls \ {c} : calls'[d] = calls[d]) /\ calls'[c].op = calls[c].op
        /\ calls'[c].step \in Ended /\ calls'[c].held = <<>>
    BY <1>15, EndFacts DEF ReplyEnds, Holds, Asks, Reads, Enters, CallType, Steps, Asking, Reading, Ended
  <2>2. CallFits(c)'
    BY <1>15, <2>1 DEF CallFits, StepsFit, Asking, Reading, Ended, ReplyEnds, Asks, Reads, Enters
  <2>3. QED
    BY <2>1, <2>2, FitFrame
<1>16. ASSUME NEW c \in Calls, Cancelled(c) PROVE StepsFit'
  <2>1. (\A d \in Calls \ {c} : calls'[d] = calls[d]) /\ calls'[c].op = calls[c].op
        /\ calls'[c].step = "drains" /\ calls'[c].held = <<>>
    BY <1>16, CancelFacts DEF Cancelled, Holds, Asks, Reads, Enters, CallType, Steps, Asking, Reading, Ended
  <2>2. CallFits(c)'
    BY <1>16, <2>1 DEF CallFits, StepsFit, Asking, Reading, Ended, Cancelled, Asks, Reads, Enters
  <2>3. QED
    BY <2>1, <2>2, FitFrame
<1>17. ASSUME NEW c \in Calls, ClientTakes(c) PROVE StepsFit'
  <2>1. (\A d \in Calls \ {c} : calls'[d] = calls[d]) /\ calls'[c].op = calls[c].op
        /\ calls'[c].step = calls[c].step /\ calls'[c].held = calls[c].held
    BY <1>17, TypeIs DEF ClientTakes, Holds, Asks, Reads, Enters, CallType, Steps, Asking, Reading, Ended
  <2>2. CallFits(c)'
    BY <1>17, <2>1 DEF CallFits, StepsFit, Asking, Reading, Ended, ClientTakes, Asks, Reads, Enters
  <2>3. QED
    BY <2>1, <2>2, FitFrame
<1>18. ASSUME PiReads PROVE StepsFit'
  BY <1>18 DEF PiReads, StepsFit
<1>19. ASSUME PiReplies PROVE StepsFit'
  BY <1>19 DEF PiReplies, StepsFit
<1>20. ASSUME PiPrintsJunk PROVE StepsFit'
  BY <1>20 DEF PiPrintsJunk, StepsFit
<1>21. ASSUME PiDies PROVE StepsFit'
  BY <1>21 DEF PiDies, StepsFit
<1>22. ASSUME Pick PROVE StepsFit'
  BY <1>22 DEF Pick, StepsFit
<1>23. ASSUME NEW c \in Calls, StartFails(c) PROVE StepsFit'
  <2>1. (\A d \in Calls \ {c} : calls'[d] = calls[d]) /\ calls'[c].op = calls[c].op
        /\ calls'[c].step \in Ended /\ calls'[c].held = <<>>
    BY <1>23, EndFacts DEF StartFails, Holds, Asks, Reads, Enters, CallType, Steps, Asking, Reading, Ended
  <2>2. CallFits(c)'
    BY <1>23, <2>1 DEF CallFits, StepsFit, Asking, Reading, Ended, StartFails, Asks, Reads, Enters
  <2>3. QED
    BY <2>1, <2>2, FitFrame
<1>24. ASSUME NEW c \in Calls, AskTimesOut(c) PROVE StepsFit'
  <2>1. (\A d \in Calls \ {c} : calls'[d] = calls[d]) /\ calls'[c].op = calls[c].op
        /\ calls'[c].step \in Ended /\ calls'[c].held = <<>>
    BY <1>24, EndFacts DEF AskTimesOut, Holds, Asks, Reads, Enters, CallType, Steps, Asking, Reading, Ended
  <2>2. CallFits(c)'
    BY <1>24, <2>1 DEF CallFits, StepsFit, Asking, Reading, Ended, AskTimesOut, Asks, Reads, Enters
  <2>3. QED
    BY <2>1, <2>2, FitFrame
<1>25. ASSUME NEW c \in Calls, ClientLeaves(c) PROVE StepsFit'
  <2>1. (\A d \in Calls \ {c} : calls'[d] = calls[d]) /\ calls'[c].op = calls[c].op
        /\ calls'[c].step = calls[c].step /\ calls'[c].held = calls[c].held
    BY <1>25, TypeIs DEF ClientLeaves, Holds, Asks, Reads, Enters, CallType, Steps, Asking, Reading, Ended
  <2>2. CallFits(c)'
    BY <1>25, <2>1 DEF CallFits, StepsFit, Asking, Reading, Ended, ClientLeaves, Asks, Reads, Enters
  <2>3. QED
    BY <2>1, <2>2, FitFrame
<1>26. ASSUME NEW c \in Calls, NEW op \in Ops, Call(c, op) PROVE StepsFit'
  <2>1. (\A d \in Calls \ {c} : calls'[d] = calls[d]) /\ calls[c].held = <<>>
    BY <1>26, TypeIs DEF Call, NoCall
  <2>2. calls'[c].step \in {"called", "waits"} /\ calls'[c].held = calls[c].held
    BY <1>26, TypeIs DEF Call, CallType
  <2>3. CallFits(c)'
    BY <2>1, <2>2 DEF CallFits, Reading
  <2>4. QED
    BY <2>1, <2>3, FitFrame
<1>27. ASSUME UNCHANGED vars PROVE StepsFit'
  BY <1>27 DEF vars, StepsFit
<1>28. QED
  BY <1>1, <1>2, <1>3, <1>4, <1>5, <1>6, <1>7, <1>8, <1>9, <1>10, <1>11,
     <1>12, <1>13, <1>14, <1>15, <1>16, <1>17, <1>18, <1>19, <1>20,
     <1>21, <1>22, <1>23, <1>24, <1>25, <1>26, <1>27 DEF Next, Handles, Environment

\* LinesAreOfCalls, said of the lines without their places.
WorkFits == agent.work # Nothing =>
                agent.up = "alive" /\ HasWritten(agent.work) /\ calls[agent.work].op = "prompt"
Command(l) == /\ HasWritten(l.of) /\ l.kind \in {"prompt", "abort", "new_session", "get_state"}
              /\ l.kind = "prompt" => calls[l.of].op = "prompt"
LEMMA LinesAre ==
    LinesAreOfCalls <=> /\ WorkFits
                        /\ \A l \in Sent(agent.in) : Command(l)
                        /\ \A l \in Sent(agent.out) : HasWritten(l.of)
BY DEF LinesAreOfCalls, WorkFits, Command, Sent

\* A step may add lines of calls that have written.
LEMMA LinesKept ==
    ASSUME TypeOK, OneAtATime, LinesAreOfCalls, [Next]_vars, WorkFits',
           \A l \in Sent(agent'.in) : l \in Sent(agent.in) \/ (l \in Lines /\ Command(l)'),
           \A l \in Sent(agent'.out) : l \in Sent(agent.out) \/ (l \in Lines /\ HasWritten(l.of)')
    PROVE  LinesAreOfCalls'
<1>1. agent.in \in Seq(Lines) /\ agent.out \in Seq(Lines)
  BY TypeIs DEF AgentType
<1>2. \A l \in Sent(agent.in) \cup Sent(agent.out) : l.of \in Calls
  <2>1. \A l \in Lines : l.of \in Calls
    BY DEF Lines
  <2>2. QED
    BY <1>1, <2>1, SentFacts
<1>3. \A l \in Sent(agent.in) : Command(l)'
  BY <1>2, LinesAre, WrittenStays DEF Command
<1>4. \A l \in Sent(agent.out) : HasWritten(l.of)'
  BY <1>2, LinesAre, WrittenStays
<1>5. \A l \in Sent(agent'.in) : Command(l)'
  BY <1>3
<1>6. \A l \in Sent(agent'.out) : HasWritten(l.of)'
  BY <1>4
<1>7. QED
  BY <1>5, <1>6 DEF LinesAreOfCalls, WorkFits, Command, Sent

\* Pi goes on with the prompt it works on, or with none.
LEMMA WorkStays ==
    ASSUME TypeOK, OneAtATime, LinesAreOfCalls, [Next]_vars,
           agent'.work = Nothing \/ (agent'.work = agent.work /\ agent'.up = agent.up)
    PROVE  WorkFits'
<1>1. agent.work # Nothing => agent.work \in Calls
  BY TypeIs DEF AgentType
<1>2. QED
  BY <1>1, LinesAre, WrittenStays DEF WorkFits

\* No line is added.
LEMMA PipesStay ==
    ASSUME TypeOK, OneAtATime, LinesAreOfCalls, [Next]_vars,
           agent'.work = Nothing \/ (agent'.work = agent.work /\ agent'.up = agent.up),
           Sent(agent'.in) \subseteq Sent(agent.in), Sent(agent'.out) \subseteq Sent(agent.out)
    PROVE  LinesAreOfCalls'
BY WorkStays, LinesKept

\* A call that has written now adds a command.
LEMMA CommandAdded ==
    ASSUME TypeOK, OneAtATime, LinesAreOfCalls, [Next]_vars, NEW c \in Calls,
           NEW kind \in {"prompt", "abort", "new_session", "get_state"},
           agent'.work = Nothing \/ (agent'.work = agent.work /\ agent'.up = agent.up),
           Sent(agent'.in) \subseteq Sent(agent.in) \cup {Line(kind, c, 0)},
           Sent(agent'.out) \subseteq Sent(agent.out),
           HasWritten(c)', kind = "prompt" => calls'[c].op = "prompt"
    PROVE  LinesAreOfCalls'
<1> DEFINE line == Line(kind, c, 0)
<1>1. line \in Lines /\ line.kind = kind /\ line.of = c
  BY LineFacts DEF Kinds
<1>2. Command(line)'
  BY <1>1 DEF Command
<1>3. \A l \in Sent(agent'.in) : l \in Sent(agent.in) \/ (l \in Lines /\ Command(l)')
  BY <1>1, <1>2
<1>4. WorkFits'
  BY WorkStays
<1>5. QED
  BY <1>3, <1>4, LinesKept

\* Pi answers in the name of the command, and prints of the prompt it works on.
LEMMA PrintsAdded ==
    ASSUME TypeOK, OneAtATime, LinesAreOfCalls, [Next]_vars, WorkFits',
           Sent(agent'.in) \subseteq Sent(agent.in),
           \A l \in Sent(agent'.out) \ Sent(agent.out) :
              l \in Lines /\ l.of \in Calls /\ HasWritten(l.of)
    PROVE  LinesAreOfCalls'
BY LinesKept, WrittenStays

\* The lines of the pipes keep to that.
LEMMA LinesKeep ==
    ASSUME TypeOK, OneAtATime, LinesAreOfCalls, [Next]_vars
    PROVE  LinesAreOfCalls'
<1>1. ASSUME NEW c \in Calls, Lock(c) PROVE LinesAreOfCalls'
  BY <1>1, PipesStay DEF Lock
<1>2. ASSUME NEW c \in Calls, NoAgentToUse(c) PROVE LinesAreOfCalls'
  BY <1>2, PipesStay DEF NoAgentToUse
<1>3. ASSUME NEW c \in Calls, Start(c) PROVE LinesAreOfCalls'
  <2>1. CASE agent' = agent
    BY <1>3, <2>1, PipesStay DEF Start
  <2>2. CASE agent' = NewAgent(calls[c].want, FreshSession)
    <3>1. agent'.in = <<>> /\ agent'.out = <<>> /\ agent'.work = Nothing
      BY <1>3, <2>2 DEF NewAgent, NoAgent
    <3>2. Sent(agent'.in) = {} /\ Sent(agent'.out) = {}
      BY <3>1, SentFacts
    <3>3. QED
      BY <3>1, <3>2, PipesStay
  <2>3. QED
    BY <1>3, <2>1, <2>2 DEF Start
<1>4. ASSUME NEW c \in Calls, NewSession(c) PROVE LinesAreOfCalls'
  <2>1. agent'.in = Append(agent.in, Line("new_session", c, 0)) /\ agent'.work = agent.work /\ agent'.up = agent.up
        /\ agent'.out = agent.out /\ Line("new_session", c, 0) \in Lines
    BY <1>4, WriteFacts DEF NewSession, Kinds
  <2>2. Sent(agent'.in) = Sent(agent.in) \cup {Line("new_session", c, 0)}
    BY <2>1, PipeFacts
  <2>3. HasWritten(c)' /\ calls'[c].op = "session"
    BY <1>4, StepFacts DEF NewSession, Enters, Steps, HasWritten, Asking, Reading
  <2>4. QED
    BY <2>1, <2>2, <2>3, CommandAdded
<1>5. ASSUME NEW c \in Calls, StartSession(c) PROVE LinesAreOfCalls'
  <2>1. agent'.in = <<Line("get_state", c, 0)>> /\ agent'.work = Nothing /\ agent'.out = <<>>
        /\ Line("get_state", c, 0) \in Lines
    BY <1>5, StartedFacts
  <2>2. Sent(<<Line("get_state", c, 0)>>) = {Line("get_state", c, 0)} /\ Sent(<<>>) = {}
    BY <2>1, SentOne
  <2>3. HasWritten(c)'
    BY <1>5, StepFacts DEF StartSession, Enters, Steps, HasWritten, Asking
  <2>4. Sent(agent'.in) = {Line("get_state", c, 0)} /\ Sent(agent'.out) = {}
    BY <2>1, <2>2
  <2>5. QED
    BY <2>1, <2>3, <2>4, CommandAdded
<1>6. ASSUME NEW c \in Calls, State(c) PROVE LinesAreOfCalls'
  <2>1. agent'.in = Append(agent.in, Line("get_state", c, 0)) /\ agent'.work = agent.work /\ agent'.up = agent.up
        /\ agent'.out = agent.out /\ Line("get_state", c, 0) \in Lines
    BY <1>6, WriteFacts DEF State, Kinds
  <2>2. Sent(agent'.in) = Sent(agent.in) \cup {Line("get_state", c, 0)}
    BY <2>1, PipeFacts
  <2>3. HasWritten(c)' /\ calls'[c].op = "state"
    BY <1>6, StepFacts DEF State, Enters, Steps, HasWritten, Asking, Reading
  <2>4. QED
    BY <2>1, <2>2, <2>3, CommandAdded
<1>7. ASSUME NEW c \in Calls, EndSession(c) PROVE LinesAreOfCalls'
  <2>1. agent'.in = Append(agent.in, Line("abort", c, 0)) /\ agent'.work = agent.work /\ agent'.up = agent.up
        /\ agent'.out = agent.out /\ Line("abort", c, 0) \in Lines
    BY <1>7, WriteFacts DEF EndSession, Kinds
  <2>2. Sent(agent'.in) = Sent(agent.in) \cup {Line("abort", c, 0)}
    BY <2>1, PipeFacts
  <2>3. HasWritten(c)'
    BY <1>7, EndFacts DEF EndSession, Enters, Steps, HasWritten, Ended
  <2>4. QED
    BY <2>1, <2>2, <2>3, CommandAdded
<1>8. ASSUME NEW c \in Calls, Skip(c) PROVE LinesAreOfCalls'
  <2>1. agent.out # <<>>
    BY <1>8 DEF Skip
  <2>2. agent'.in = agent.in /\ agent'.out = Tail(agent.out) /\ agent'.work = agent.work /\ agent'.up = agent.up
    BY <1>8, <2>1, ReadFacts DEF Skip
  <2>3. Sent(agent'.out) \subseteq Sent(agent.out)
    BY <2>1, <2>2, PipeFacts
  <2>4. QED
    BY <2>2, <2>3, PipesStay
<1>9. ASSUME NEW c \in Calls, SessionMade(c) PROVE LinesAreOfCalls'
  <2>1. agent'.in = Append(agent.in, Line("get_state", c, 0)) /\ agent'.work = agent.work /\ agent'.up = agent.up
        /\ agent'.out = Tail(agent.out) /\ agent.out # <<>> /\ Line("get_state", c, 0) \in Lines
    BY <1>9, MadeFacts
  <2>2. Sent(agent'.in) = Sent(agent.in) \cup {Line("get_state", c, 0)}
        /\ Sent(agent'.out) \subseteq Sent(agent.out)
    BY <2>1, PipeFacts
  <2>3. HasWritten(c)'
    BY <1>9, StepFacts DEF SessionMade, Asks, Steps, HasWritten, Asking
  <2>4. QED
    BY <2>1, <2>2, <2>3, CommandAdded
<1>10. ASSUME NEW c \in Calls, StateRead(c) PROVE LinesAreOfCalls'
  <2>1. agent.out # <<>>
    BY <1>10 DEF StateRead
  <2>2. agent'.in = agent.in /\ agent'.out = Tail(agent.out) /\ agent'.work = agent.work /\ agent'.up = agent.up
    BY <1>10, <2>1, ReadFacts DEF StateRead
  <2>3. Sent(agent'.out) \subseteq Sent(agent.out)
    BY <2>1, <2>2, PipeFacts
  <2>4. QED
    BY <2>2, <2>3, PipesStay
<1>11. ASSUME NEW c \in Calls, AskEnds(c) PROVE LinesAreOfCalls'
  <2>1. CASE agent.out = <<>>
    <3>1. agent'.in = agent.in /\ agent'.out = agent.out /\ agent'.work = agent.work /\ agent'.up = agent.up
      BY <1>11, <2>1, TypeIs DEF AskEnds, AgentType
    <3>2. QED
      BY <3>1, PipesStay
  <2>2. CASE agent.out # <<>>
    <3>1. agent'.in = agent.in /\ agent'.out = Tail(agent.out) /\ agent'.work = agent.work /\ agent'.up = agent.up
      BY <1>11, <2>2, ReadFacts DEF AskEnds
    <3>2. Sent(agent'.out) \subseteq Sent(agent.out)
      BY <2>2, <3>1, TypeIs, SentFacts DEF AgentType
    <3>3. QED
      BY <3>1, <3>2, PipesStay
  <2>3. QED
    BY <2>1, <2>2
<1>12. ASSUME NEW c \in Calls, Prompt(c) PROVE LinesAreOfCalls'
  <2>1. agent'.in = Append(agent.in, Line("prompt", c, 0)) /\ agent'.work = agent.work /\ agent'.up = agent.up
        /\ agent'.out = agent.out /\ Line("prompt", c, 0) \in Lines
    BY <1>12, WriteFacts DEF Prompt, Kinds
  <2>2. Sent(agent'.in) = Sent(agent.in) \cup {Line("prompt", c, 0)}
    BY <2>1, PipeFacts
  <2>3. HasWritten(c)' /\ calls'[c].op = "prompt"
    BY <1>12, StepFacts DEF Prompt, Enters, Steps, HasWritten, Asking, Reading
  <2>4. QED
    BY <2>1, <2>2, <2>3, CommandAdded
<1>13. ASSUME NEW c \in Calls, ReadLine(c) PROVE LinesAreOfCalls'
  <2>1. agent.out # <<>>
    BY <1>13 DEF ReadLine
  <2>2. agent'.in = agent.in /\ agent'.out = Tail(agent.out) /\ agent'.work = agent.work /\ agent'.up = agent.up
    BY <1>13, <2>1, ReadFacts DEF ReadLine
  <2>3. Sent(agent'.out) \subseteq Sent(agent.out)
    BY <2>1, <2>2, PipeFacts
  <2>4. QED
    BY <2>2, <2>3, PipesStay
<1>14. ASSUME NEW c \in Calls, SendLine(c) PROVE LinesAreOfCalls'
  BY <1>14, PipesStay DEF SendLine
<1>15. ASSUME NEW c \in Calls, ReplyEnds(c) PROVE LinesAreOfCalls'
  BY <1>15, PipesStay DEF ReplyEnds
<1>16. ASSUME NEW c \in Calls, Cancelled(c) PROVE LinesAreOfCalls'
  <2>1. agent'.in = agent.in \/ agent'.in = Append(agent.in, Line("abort", c, 0))
    BY <1>16, CancelFacts
  <2>2. agent'.work = agent.work /\ agent'.up = agent.up
        /\ agent'.out = agent.out /\ Line("abort", c, 0) \in Lines
    BY <1>16, CancelFacts
  <2>3. Sent(agent'.in) \subseteq Sent(agent.in) \cup {Line("abort", c, 0)}
    BY <2>1, <2>2, PipeFacts
  <2>4. HasWritten(c)'
    BY <1>16, CancelFacts DEF HasWritten
  <2>5. QED
    BY <2>2, <2>3, <2>4, CommandAdded
<1>17. ASSUME NEW c \in Calls, ClientTakes(c) PROVE LinesAreOfCalls'
  BY <1>17, PipesStay DEF ClientTakes
<1>18. ASSUME PiReads PROVE LinesAreOfCalls'
  <2>1. PICK l \in Lines : PiTakes(l)
    BY <1>18, TakesFacts
  <2> DEFINE answer == Line(l.kind, l.of, IF l.kind = "get_state" THEN agent.session ELSE 0)
             last == Line("settled", agent.work, 0)
  <2>2. agent.in \in Seq(Lines) /\ agent.out \in Seq(Lines) /\ agent.work \in Calls \cup {Nothing}
        /\ agent.session \in Nat
    BY TypeIs DEF AgentType
  <2>3. l \in Sent(agent.in) /\ Sent(agent'.in) \subseteq Sent(agent.in)
    BY <2>1, <2>2, SentFacts DEF PiTakes
  <2>4. Command(l) /\ l.of \in Calls /\ l.kind \in Kinds
    BY <2>3, LinesAre DEF Lines
  <2>5. answer \in Lines /\ answer.of = l.of
    BY <2>2, <2>4, LineFacts
  <2>6. agent.work # Nothing => last \in Lines /\ last.of = agent.work /\ HasWritten(agent.work)
    BY <2>2, LinesAre, LineFacts DEF WorkFits, Kinds
  <2>7. Sent(agent'.out) \subseteq Sent(agent.out) \cup {answer} \cup (IF agent.work = Nothing THEN {} ELSE {last})
    <3>1. Sent(Append(agent.out, answer)) = Sent(agent.out) \cup {answer}
      BY <2>5, PipeFacts
    <3>2. agent.work # Nothing => Sent(Append(Append(agent.out, last), answer))
                                    = Sent(agent.out) \cup {last} \cup {answer}
      BY <2>5, <2>6, PipeFacts
    <3>3. \/ agent'.out = Append(agent.out, answer)
          \/ agent.work # Nothing /\ agent'.out = Append(Append(agent.out, last), answer)
      BY <2>1 DEF PiTakes
    <3>4. QED
      BY <3>1, <3>2, <3>3
  <2>8. WorkFits'
    <3>1. CASE agent'.work \in {Nothing, agent.work}
      BY <2>1, <3>1, WorkStays DEF PiTakes
    <3>2. CASE agent'.work \notin {Nothing, agent.work}
      <4>1. l.kind = "prompt" /\ agent'.work = l.of /\ agent'.up = "alive"
        BY <2>1, <3>2 DEF PiTakes
      <4>2. HasWritten(l.of)' /\ calls'[l.of].op = "prompt"
        BY <2>4, <4>1, WrittenStays DEF Command
      <4>3. QED
        BY <4>1, <4>2 DEF WorkFits
    <3>3. QED
      BY <3>1, <3>2
  <2>9. \A k \in Sent(agent'.out) \ Sent(agent.out) : k \in Lines /\ k.of \in Calls /\ HasWritten(k.of)
    BY <2>2, <2>4, <2>5, <2>6, <2>7 DEF Command
  <2>10. QED
    BY <2>3, <2>8, <2>9, PrintsAdded
<1>19. ASSUME PiReplies PROVE LinesAreOfCalls'
  <2> DEFINE event == Line("event", agent.work, 0)
             last == Line("settled", agent.work, 0)
  <2>1. agent.work \in Calls /\ agent.out \in Seq(Lines) /\ agent'.in = agent.in /\ agent'.work = Nothing
        /\ event \in Lines /\ last \in Lines /\ HasWritten(agent.work)
        /\ agent'.out = Append(Append(agent.out, event), last)
    BY <1>19, RepliesFacts, TypeIs, LinesAre DEF AgentType, WorkFits, PiReplies
  <2>2. event.of = agent.work /\ last.of = agent.work
    BY <2>1, LineFacts DEF Kinds
  <2>3. Sent(agent'.out) = Sent(agent.out) \cup {event} \cup {last}
    BY <2>1, PipeFacts
  <2>4. WorkFits'
    BY <2>1, WorkStays
  <2>5. QED
    BY <2>1, <2>2, <2>3, <2>4, PrintsAdded
<1>20. ASSUME PiPrintsJunk PROVE LinesAreOfCalls'
  <2>1. agent.work \in Calls /\ agent.out \in Seq(Lines) /\ agent'.in = agent.in /\ agent'.work = agent.work
        /\ agent'.up = agent.up /\ Line("junk", agent.work, 0) \in Lines /\ HasWritten(agent.work)
        /\ agent'.out = Append(agent.out, Line("junk", agent.work, 0))
    BY <1>20, JunkFacts, TypeIs, LinesAre, NothingAssumption DEF AgentType, WorkFits, PiPrintsJunk
  <2>2. Line("junk", agent.work, 0).of = agent.work
    BY <2>1, LineFacts DEF Kinds
  <2>3. Sent(agent'.out) = Sent(agent.out) \cup {Line("junk", agent.work, 0)}
    BY <2>1, PipeFacts
  <2>4. WorkFits'
    BY <2>1, WorkStays
  <2>5. QED
    BY <2>1, <2>2, <2>3, <2>4, PrintsAdded
<1>21. ASSUME PiDies PROVE LinesAreOfCalls'
  <2>1. agent'.in = <<>> /\ agent'.out = agent.out /\ agent'.work = Nothing
    BY <1>21, TypeIs DEF PiDies, AgentType
  <2>2. Sent(agent'.in) = {}
    BY <2>1, SentFacts
  <2>3. QED
    BY <2>1, <2>2, PipesStay
<1>22. ASSUME Pick PROVE LinesAreOfCalls'
  BY <1>22, PipesStay DEF Pick
<1>23. ASSUME NEW c \in Calls, StartFails(c) PROVE LinesAreOfCalls'
  <2>1. agent'.in = <<>> /\ agent'.out = <<>> /\ agent'.work = Nothing
    BY <1>23 DEF StartFails, NoAgent
  <2>2. Sent(agent'.in) = {} /\ Sent(agent'.out) = {}
    BY <2>1, SentFacts
  <2>3. QED
    BY <2>1, <2>2, PipesStay
<1>24. ASSUME NEW c \in Calls, AskTimesOut(c) PROVE LinesAreOfCalls'
  BY <1>24, PipesStay DEF AskTimesOut
<1>25. ASSUME NEW c \in Calls, ClientLeaves(c) PROVE LinesAreOfCalls'
  BY <1>25, PipesStay DEF ClientLeaves
<1>26. ASSUME NEW c \in Calls, NEW op \in Ops, Call(c, op) PROVE LinesAreOfCalls'
  BY <1>26, PipesStay DEF Call
<1>27. ASSUME UNCHANGED vars PROVE LinesAreOfCalls'
  BY <1>27, PipesStay DEF vars
<1>28. QED
  BY <1>1, <1>2, <1>3, <1>4, <1>5, <1>6, <1>7, <1>8, <1>9, <1>10, <1>11,
     <1>12, <1>13, <1>14, <1>15, <1>16, <1>17, <1>18, <1>19, <1>20,
     <1>21, <1>22, <1>23, <1>24, <1>25, <1>26, <1>27 DEF Next, Handles, Environment

\* Nothing is written to a Pi that is gone.
LEMMA InputKeeps ==
    ASSUME TypeOK, LinesAreOfCalls, InputNeedsPi, [Next]_vars
    PROVE  InputNeedsPi'
<1>1. ASSUME NEW c \in Calls, Lock(c) PROVE InputNeedsPi'
  BY <1>1 DEF InputNeedsPi, Lock
<1>2. ASSUME NEW c \in Calls, NoAgentToUse(c) PROVE InputNeedsPi'
  BY <1>2 DEF InputNeedsPi, NoAgentToUse
<1>3. ASSUME NEW c \in Calls, Start(c) PROVE InputNeedsPi'
  BY <1>3 DEF InputNeedsPi, Start, NewAgent, NoAgent
<1>4. ASSUME NEW c \in Calls, NewSession(c) PROVE InputNeedsPi'
  BY <1>4, WriteFacts DEF InputNeedsPi, NewSession, Kinds
<1>5. ASSUME NEW c \in Calls, StartSession(c) PROVE InputNeedsPi'
  BY <1>5, StartedFacts DEF InputNeedsPi
<1>6. ASSUME NEW c \in Calls, State(c) PROVE InputNeedsPi'
  BY <1>6, WriteFacts DEF InputNeedsPi, State, Kinds
<1>7. ASSUME NEW c \in Calls, EndSession(c) PROVE InputNeedsPi'
  BY <1>7, WriteFacts DEF InputNeedsPi, EndSession, Kinds
<1>8. ASSUME NEW c \in Calls, Skip(c) PROVE InputNeedsPi'
  BY <1>8, ReadFacts DEF InputNeedsPi, Skip
<1>9. ASSUME NEW c \in Calls, SessionMade(c) PROVE InputNeedsPi'
  BY <1>9, MadeFacts DEF InputNeedsPi, SessionMade
<1>10. ASSUME NEW c \in Calls, StateRead(c) PROVE InputNeedsPi'
  BY <1>10, ReadFacts DEF InputNeedsPi, StateRead
<1>11. ASSUME NEW c \in Calls, AskEnds(c) PROVE InputNeedsPi'
  <2>1. agent'.in = agent.in /\ agent'.up = agent.up
    BY <1>11, TypeIs DEF AskEnds, AgentType
  <2>2. QED
    BY <2>1 DEF InputNeedsPi
<1>12. ASSUME NEW c \in Calls, Prompt(c) PROVE InputNeedsPi'
  BY <1>12, WriteFacts DEF InputNeedsPi, Prompt, Kinds
<1>13. ASSUME NEW c \in Calls, ReadLine(c) PROVE InputNeedsPi'
  BY <1>13, ReadFacts DEF InputNeedsPi, ReadLine
<1>14. ASSUME NEW c \in Calls, SendLine(c) PROVE InputNeedsPi'
  BY <1>14 DEF InputNeedsPi, SendLine
<1>15. ASSUME NEW c \in Calls, ReplyEnds(c) PROVE InputNeedsPi'
  BY <1>15 DEF InputNeedsPi, ReplyEnds
<1>16. ASSUME NEW c \in Calls, Cancelled(c) PROVE InputNeedsPi'
  BY <1>16, CancelFacts DEF InputNeedsPi
<1>17. ASSUME NEW c \in Calls, ClientTakes(c) PROVE InputNeedsPi'
  BY <1>17 DEF InputNeedsPi, ClientTakes
<1>18. ASSUME PiReads PROVE InputNeedsPi'
  <2>1. PICK l \in Lines : PiTakes(l)
    BY <1>18, TakesFacts
  <2>2. QED
    BY <2>1 DEF PiTakes, InputNeedsPi
<1>19. ASSUME PiReplies PROVE InputNeedsPi'
  BY <1>19, RepliesFacts DEF InputNeedsPi
<1>20. ASSUME PiPrintsJunk PROVE InputNeedsPi'
  BY <1>20, JunkFacts DEF InputNeedsPi
<1>21. ASSUME PiDies PROVE InputNeedsPi'
  BY <1>21, TypeIs DEF InputNeedsPi, PiDies, AgentType
<1>22. ASSUME Pick PROVE InputNeedsPi'
  BY <1>22 DEF InputNeedsPi, Pick
<1>23. ASSUME NEW c \in Calls, StartFails(c) PROVE InputNeedsPi'
  BY <1>23 DEF InputNeedsPi, StartFails, NoAgent
<1>24. ASSUME NEW c \in Calls, AskTimesOut(c) PROVE InputNeedsPi'
  BY <1>24 DEF InputNeedsPi, AskTimesOut
<1>25. ASSUME NEW c \in Calls, ClientLeaves(c) PROVE InputNeedsPi'
  BY <1>25 DEF InputNeedsPi, ClientLeaves
<1>26. ASSUME NEW c \in Calls, NEW op \in Ops, Call(c, op) PROVE InputNeedsPi'
  BY <1>26 DEF InputNeedsPi, Call
<1>27. ASSUME UNCHANGED vars PROVE InputNeedsPi'
  BY <1>27 DEF vars, InputNeedsPi
<1>28. QED
  BY <1>1, <1>2, <1>3, <1>4, <1>5, <1>6, <1>7, <1>8, <1>9, <1>10, <1>11,
     <1>12, <1>13, <1>14, <1>15, <1>16, <1>17, <1>18, <1>19, <1>20,
     <1>21, <1>22, <1>23, <1>24, <1>25, <1>26, <1>27 DEF Next, Handles, Environment

-----------------------------------------------------------------------------
(* The reply under way is of one prompt, from the command to the last line. *)

\* The prompts whose reply is read, and whose last line is still to come.
Live(c) == calls[c].step \in Reading /\ ~HasLast(c)
LiveCalls == {c \in Calls : Live(c)}

NoPromptIn(lines) == \A i \in DOMAIN lines : lines[i].kind # "prompt"
Quiet(in, work, out) == NoPromptIn(in) /\ work = Nothing /\ NoReplyIn(out)

\* What is under way between the pipes is a reply to the prompts that are live.
Whole(in, work, out, live) ==
    /\ \A i \in DOMAIN in : in[i].kind = "prompt" =>
          /\ in[i].of \in live /\ work = Nothing /\ NoReplyIn(out)
          /\ \A j \in DOMAIN in : in[j].kind = "prompt" => j = i
    /\ work # Nothing => work \in live /\ \A i \in DOMAIN out : out[i].kind # "settled"
    /\ \A i \in DOMAIN out : OfReply(out[i]) =>
          /\ out[i].of \in live
          /\ out[i].kind = "settled" => \A j \in DOMAIN out : OfReply(out[j]) => j <= i

\* Another command is written.
LEMMA WriteWhole ==
    ASSUME NEW in \in Seq(Lines), NEW work, NEW out, NEW live, Whole(in, work, out, live),
           NEW l \in Lines, l.kind # "prompt"
    PROVE  Whole(Append(in, l), work, out, live)
BY Appended DEF Whole

\* A prompt is written when nothing of a reply is under way.
LEMMA PromptWhole ==
    ASSUME NEW in \in Seq(Lines), NEW work, NEW out, NEW live, Quiet(in, work, out),
           NEW l \in Lines, l.of \in live
    PROVE  Whole(Append(in, l), work, out, live)
BY Appended DEF Whole, Quiet, NoReplyIn, NoPromptIn

\* A command is taken.
LEMMA TakeWhole ==
    ASSUME NEW in \in Seq(Lines), in # <<>>, NEW work, NEW out, NEW live, Whole(in, work, out, live)
    PROVE  Whole(Tail(in), work, out, live)
<1>1. /\ DOMAIN in = 1..Len(in) /\ Len(in) \in Nat /\ DOMAIN Tail(in) = 1..(Len(in) - 1)
      /\ \A i \in DOMAIN Tail(in) : i + 1 \in DOMAIN in /\ Tail(in)[i] = in[i + 1]
  BY Taken
<1>2. ASSUME NEW i \in DOMAIN Tail(in), NEW j \in DOMAIN Tail(in),
             Tail(in)[i].kind = "prompt", Tail(in)[j].kind = "prompt"
      PROVE  j = i
  <2>1. j + 1 = i + 1
    BY <1>1, <1>2 DEF Whole
  <2>2. QED
    BY <1>1, <2>1
<1>3. QED
  BY <1>1, <1>2 DEF Whole

\* Pi starts on the prompt it takes.
LEMMA StartWhole ==
    ASSUME NEW in \in Seq(Lines), in # <<>>, NEW work, NEW out, NEW live, Whole(in, work, out, live),
           Head(in).kind = "prompt"
    PROVE  work = Nothing /\ Whole(Tail(in), Head(in).of, out, live)
<1>1. /\ DOMAIN in = 1..Len(in) /\ Len(in) \in Nat /\ DOMAIN Tail(in) = 1..(Len(in) - 1)
      /\ \A i \in DOMAIN Tail(in) : i + 1 \in DOMAIN in /\ Tail(in)[i] = in[i + 1]
      /\ 1 \in DOMAIN in /\ Head(in) = in[1]
  BY Taken
<1>2. /\ Head(in).of \in live /\ work = Nothing /\ NoReplyIn(out)
      /\ \A j \in DOMAIN in : in[j].kind = "prompt" => j = 1
  BY <1>1 DEF Whole
<1>3. NoPromptIn(Tail(in))
  <2>1. ASSUME NEW i \in DOMAIN Tail(in), Tail(in)[i].kind = "prompt" PROVE FALSE
    <3>1. i + 1 = 1
      BY <1>1, <1>2, <2>1
    <3>2. QED
      BY <1>1, <3>1
  <2>2. QED
    BY <2>1 DEF NoPromptIn
<1>4. QED
  BY <1>2, <1>3 DEF Whole, NoPromptIn, NoReplyIn, OfReply

\* Pi prints a line that is of no reply.
LEMMA PlainWhole ==
    ASSUME NEW in, NEW work, NEW out \in Seq(Lines), NEW live, Whole(in, work, out, live),
           NEW l \in Lines, ~OfReply(l)
    PROVE  Whole(in, work, Append(out, l), live)
<1>1. /\ DOMAIN out = 1..Len(out) /\ Len(out) \in Nat /\ DOMAIN Append(out, l) = 1..(Len(out) + 1)
      /\ \A i \in DOMAIN out : Append(out, l)[i] = out[i]
      /\ Append(out, l)[Len(out) + 1] = l
  BY Appended
<1>2. \A i \in DOMAIN Append(out, l) : i \in DOMAIN out \/ i = Len(out) + 1
  BY <1>1
<1>3. QED
  BY <1>1, <1>2 DEF Whole, NoReplyIn, OfReply

\* Pi prints a line of the reply it works on.
LEMMA EventWhole ==
    ASSUME NEW in, NEW work, NEW out \in Seq(Lines), NEW live, Whole(in, work, out, live),
           work # Nothing, NEW l \in Lines, l.kind # "settled", l.of = work
    PROVE  Whole(in, work, Append(out, l), live)
<1>1. /\ DOMAIN out = 1..Len(out) /\ Len(out) \in Nat /\ DOMAIN Append(out, l) = 1..(Len(out) + 1)
      /\ \A i \in DOMAIN out : Append(out, l)[i] = out[i]
      /\ Append(out, l)[Len(out) + 1] = l
  BY Appended
<1>2. \A i \in DOMAIN Append(out, l) : i \in DOMAIN out \/ i = Len(out) + 1
  BY <1>1
<1>3. QED
  BY <1>1, <1>2 DEF Whole, NoReplyIn, OfReply

\* Pi prints the last line of the reply it works on.
LEMMA LastWhole ==
    ASSUME NEW in, NEW work, NEW out \in Seq(Lines), NEW live, Whole(in, work, out, live),
           work # Nothing, NEW l \in Lines, l.kind = "settled", l.of = work
    PROVE  Whole(in, Nothing, Append(out, l), live)
<1>1. /\ DOMAIN out = 1..Len(out) /\ Len(out) \in Nat /\ DOMAIN Append(out, l) = 1..(Len(out) + 1)
      /\ \A i \in DOMAIN out : Append(out, l)[i] = out[i]
      /\ Append(out, l)[Len(out) + 1] = l
  BY Appended
<1>2. \A i \in DOMAIN Append(out, l) : i \in DOMAIN out \/ i = Len(out) + 1
  BY <1>1
<1>3. NoPromptIn(in) /\ work \in live /\ \A i \in DOMAIN out : out[i].kind # "settled"
  BY DEF Whole, NoPromptIn
<1>4. ASSUME NEW i \in DOMAIN Append(out, l), OfReply(Append(out, l)[i])
      PROVE  /\ Append(out, l)[i].of \in live
             /\ Append(out, l)[i].kind = "settled" =>
                  \A j \in DOMAIN Append(out, l) : OfReply(Append(out, l)[j]) => j <= i
  <2>1. CASE i \in DOMAIN out
    BY <1>1, <1>3, <1>4, <2>1 DEF Whole
  <2>2. CASE i = Len(out) + 1
    BY <1>1, <1>3, <2>2
  <2>3. QED
    BY <1>2, <2>1, <2>2
<1>5. QED
  BY <1>3, <1>4 DEF Whole, NoPromptIn

\* A line is read.
LEMMA ReadWhole ==
    ASSUME NEW in, NEW work, NEW out \in Seq(Lines), out # <<>>, NEW live, Whole(in, work, out, live)
    PROVE  Whole(in, work, Tail(out), live)
<1>1. /\ DOMAIN out = 1..Len(out) /\ Len(out) \in Nat /\ DOMAIN Tail(out) = 1..(Len(out) - 1)
      /\ \A i \in DOMAIN Tail(out) : i + 1 \in DOMAIN out /\ Tail(out)[i] = out[i + 1]
  BY Taken
<1>2. NoReplyIn(out) => NoReplyIn(Tail(out))
  BY <1>1 DEF NoReplyIn
<1>3. ASSUME NEW i \in DOMAIN Tail(out), OfReply(Tail(out)[i])
      PROVE  /\ Tail(out)[i].of \in live
             /\ Tail(out)[i].kind = "settled" =>
                  \A j \in DOMAIN Tail(out) : OfReply(Tail(out)[j]) => j <= i
  <2>1. Tail(out)[i].of \in live
    BY <1>1, <1>3 DEF Whole
  <2>2. ASSUME Tail(out)[i].kind = "settled", NEW j \in DOMAIN Tail(out), OfReply(Tail(out)[j])
        PROVE  j <= i
    <3>1. j + 1 <= i + 1
      BY <1>1, <1>3, <2>2 DEF Whole
    <3>2. QED
      BY <1>1, <3>1
  <2>3. QED
    BY <2>1, <2>2
<1>4. \A i \in DOMAIN Tail(out) : work # Nothing => Tail(out)[i].kind # "settled"
  BY <1>1 DEF Whole
<1>5. QED
  BY <1>2, <1>3, <1>4 DEF Whole

\* After the last line nothing of the reply is under way.
LEMMA LastRead ==
    ASSUME NEW in, NEW work, NEW out \in Seq(Lines), out # <<>>, NEW live, Whole(in, work, out, live),
           Head(out).kind = "settled"
    PROVE  Quiet(in, work, Tail(out))
<1>1. /\ DOMAIN out = 1..Len(out) /\ Len(out) \in Nat /\ DOMAIN Tail(out) = 1..(Len(out) - 1)
      /\ \A i \in DOMAIN Tail(out) : i + 1 \in DOMAIN out /\ Tail(out)[i] = out[i + 1]
      /\ 1 \in DOMAIN out /\ Head(out) = out[1]
  BY Taken
<1>2. OfReply(out[1]) /\ \A j \in DOMAIN out : OfReply(out[j]) => j <= 1
  BY <1>1 DEF Whole, OfReply
<1>3. NoReplyIn(Tail(out))
  <2>1. ASSUME NEW i \in DOMAIN Tail(out), OfReply(Tail(out)[i]) PROVE FALSE
    <3>1. i + 1 <= 1
      BY <1>1, <1>2, <2>1
    <3>2. QED
      BY <1>1, <3>1
  <2>2. QED
    BY <2>1 DEF NoReplyIn
<1>4. work = Nothing /\ NoPromptIn(in)
  BY <1>1, <1>2 DEF Whole, NoPromptIn, NoReplyIn
<1>5. QED
  BY <1>3, <1>4 DEF Quiet

\* When no prompt is live nothing of a reply is under way, and then any may be.
LEMMA QuietWhole ==
    ASSUME NEW in, NEW work, NEW out, NEW live
    PROVE  /\ Whole(in, work, out, {}) => Quiet(in, work, out)
           /\ Quiet(in, work, out) => Whole(in, work, out, live)
           /\ \A more : live \subseteq more /\ Whole(in, work, out, live) => Whole(in, work, out, more)
BY DEF Whole, Quiet, NoPromptIn, NoReplyIn, OfReply

NoBroken == \A d \in Calls : calls[d].step # "broken"
WholeNow == Whole(agent.in, agent.work, agent.out, LiveCalls)

\* A reply given up half way stays one.
LEMMA BrokenStays ==
    ASSUME TypeOK, [Next]_vars, NoBroken'
    PROVE  NoBroken
BY TurnSteps DEF Turns, Stay, Advances, Ends, Queues, Begins, Others, Same, NoBroken,
   InTurn, Asking, Reading

\* A step of one call leaves the others as they are.
LEMMA LiveStays ==
    ASSUME NEW c \in Calls, \A d \in Calls \ {c} : calls'[d] = calls[d], Live(c) => Live(c)'
    PROVE  LiveCalls \subseteq LiveCalls'
BY DEF LiveCalls, Live, HasLast

\* The one call that has the mutex reads, or none does.
LEMMA NoneLive ==
    ASSUME OneAtATime, NEW c \in Calls, Holds(c), calls[c].step \notin Reading
    PROVE  LiveCalls = {}
BY DEF OneAtATime, LiveCalls, Live, Holds

\* The prompt that is live has the mutex.
LEMMA LiveHolds ==
    ASSUME OneAtATime, NEW c \in Calls, Holds(c), NEW d \in LiveCalls
    PROVE  d = c
BY DEF OneAtATime, LiveCalls, Live, Holds

\* The pipes stay as they are.
LEMMA WholeStays ==
    ASSUME WholeNow, agent'.in = agent.in, agent'.work = agent.work, agent'.out = agent.out,
           LiveCalls \subseteq LiveCalls'
    PROVE  WholeNow'
BY QuietWhole DEF WholeNow

\* A command that is no prompt is added.
LEMMA WholeWritten ==
    ASSUME TypeOK, WholeNow, NEW l \in Lines, l.kind # "prompt",
           agent'.in = Append(agent.in, l), agent'.work = agent.work, agent'.out = agent.out,
           LiveCalls \subseteq LiveCalls'
    PROVE  WholeNow'
<1>1. agent.in \in Seq(Lines)
  BY TypeIs DEF AgentType
<1>2. Whole(Append(agent.in, l), agent.work, agent.out, LiveCalls)
  BY <1>1, WriteWhole DEF WholeNow
<1>3. QED
  BY <1>2, QuietWhole DEF WholeNow

\* A line is read, and was not the last of a reply.
LEMMA WholeRead ==
    ASSUME TypeOK, WholeNow, agent.out # <<>>,
           agent'.in = agent.in, agent'.work = agent.work, agent'.out = Tail(agent.out),
           LiveCalls \subseteq LiveCalls'
    PROVE  WholeNow'
<1>1. agent.out \in Seq(Lines)
  BY TypeIs DEF AgentType
<1>2. Whole(agent.in, agent.work, Tail(agent.out), LiveCalls)
  BY <1>1, ReadWhole DEF WholeNow
<1>3. QED
  BY <1>2, QuietWhole DEF WholeNow

\* Nothing of a reply is under way.
LEMMA WholeEmpty ==
    ASSUME NoPromptIn(agent'.in), agent'.work = Nothing, agent'.out = <<>>
    PROVE  WholeNow'
<1>1. Quiet(agent'.in, agent'.work, agent'.out)
  BY Empty DEF Quiet, NoReplyIn
<1>2. QED
  BY <1>1, QuietWhole DEF WholeNow

\* Every step keeps it so, as long as no reply was given up half way.
LEMMA WholeKeeps ==
    ASSUME TypeOK, InputNeedsPi, OneAtATime, StepsFit, LinesAreOfCalls,
           NoBroken', WholeNow, [Next]_vars
    PROVE  WholeNow'
<1>1. ASSUME NEW c \in Calls, Lock(c) PROVE WholeNow'
  <2>1. (\A d \in Calls \ {c} : calls'[d] = calls[d]) /\ calls[c].step \notin Reading
    BY <1>1, StepFacts DEF Lock, Asks, Enters, Steps, Asking, Reading, Ended
  <2>2. LiveCalls \subseteq LiveCalls'
    BY <2>1, LiveStays DEF Live
  <2>3. QED
    BY <1>1, <2>2, WholeStays DEF Lock
<1>2. ASSUME NEW c \in Calls, NoAgentToUse(c) PROVE WholeNow'
  <2>1. (\A d \in Calls \ {c} : calls'[d] = calls[d]) /\ calls[c].step \notin Reading
    BY <1>2, EndFacts DEF NoAgentToUse, Asks, Enters, Steps, Asking, Reading, Ended, Holds
  <2>2. LiveCalls \subseteq LiveCalls'
    BY <2>1, LiveStays DEF Live
  <2>3. QED
    BY <1>2, <2>2, WholeStays DEF NoAgentToUse
<1>3. ASSUME NEW c \in Calls, Start(c) PROVE WholeNow'
  <2>1. (\A d \in Calls \ {c} : calls'[d] = calls[d]) /\ calls[c].step \notin Reading
    BY <1>3, EndFacts DEF Start, Asks, Enters, Steps, Asking, Reading, Ended
  <2>2. LiveCalls \subseteq LiveCalls'
    BY <2>1, LiveStays DEF Live
  <2>3. CASE agent' = agent
    BY <2>2, <2>3, WholeStays
  <2>4. CASE agent' = NewAgent(calls[c].want, FreshSession)
    <3>1. agent'.in = <<>> /\ agent'.out = <<>> /\ agent'.work = Nothing
      BY <2>4 DEF NewAgent, NoAgent
    <3>2. QED
      BY <3>1, Empty, WholeEmpty DEF NoPromptIn
  <2>5. QED
    BY <1>3, <2>3, <2>4 DEF Start
<1>4. ASSUME NEW c \in Calls, NewSession(c) PROVE WholeNow'
  <2>1. (\A d \in Calls \ {c} : calls'[d] = calls[d]) /\ calls[c].step \notin Reading
    BY <1>4, StepFacts DEF NewSession, Asks, Enters, Steps, Asking, Reading, Ended
  <2>2. LiveCalls \subseteq LiveCalls'
    BY <2>1, LiveStays DEF Live
  <2>3. agent'.in = Append(agent.in, Line("new_session", c, 0)) /\ agent'.work = agent.work
        /\ agent'.out = agent.out /\ Line("new_session", c, 0) \in Lines /\ Line("new_session", c, 0).kind = "new_session"
    BY <1>4, WriteFacts, LineFacts DEF NewSession, Kinds
  <2>4. QED
    BY <2>2, <2>3, WholeWritten
<1>5. ASSUME NEW c \in Calls, StartSession(c) PROVE WholeNow'
  <2>1. agent'.in = <<Line("get_state", c, 0)>> /\ agent'.out = <<>> /\ agent'.work = Nothing
        /\ Line("get_state", c, 0).kind = "get_state"
    BY <1>5, StartedFacts, LineFacts DEF Kinds
  <2>2. NoPromptIn(agent'.in)
    BY <2>1 DEF NoPromptIn
  <2>3. QED
    BY <2>1, <2>2, WholeEmpty
<1>6. ASSUME NEW c \in Calls, State(c) PROVE WholeNow'
  <2>1. (\A d \in Calls \ {c} : calls'[d] = calls[d]) /\ calls[c].step \notin Reading
    BY <1>6, StepFacts DEF State, Asks, Enters, Steps, Asking, Reading, Ended
  <2>2. LiveCalls \subseteq LiveCalls'
    BY <2>1, LiveStays DEF Live
  <2>3. agent'.in = Append(agent.in, Line("get_state", c, 0)) /\ agent'.work = agent.work
        /\ agent'.out = agent.out /\ Line("get_state", c, 0) \in Lines /\ Line("get_state", c, 0).kind = "get_state"
    BY <1>6, WriteFacts, LineFacts DEF State, Kinds
  <2>4. QED
    BY <2>2, <2>3, WholeWritten
<1>7. ASSUME NEW c \in Calls, EndSession(c) PROVE WholeNow'
  <2>1. (\A d \in Calls \ {c} : calls'[d] = calls[d]) /\ calls[c].step \notin Reading
    BY <1>7, EndFacts DEF EndSession, Asks, Enters, Steps, Asking, Reading, Ended
  <2>2. LiveCalls \subseteq LiveCalls'
    BY <2>1, LiveStays DEF Live
  <2>3. agent'.in = Append(agent.in, Line("abort", c, 0)) /\ agent'.work = agent.work
        /\ agent'.out = agent.out /\ Line("abort", c, 0) \in Lines /\ Line("abort", c, 0).kind = "abort"
    BY <1>7, WriteFacts, LineFacts DEF EndSession, Kinds
  <2>4. QED
    BY <2>2, <2>3, WholeWritten
<1>8. ASSUME NEW c \in Calls, Skip(c) PROVE WholeNow'
  <2>1. LiveCalls' = LiveCalls /\ agent.out # <<>>
    BY <1>8 DEF Skip, LiveCalls, Live, HasLast
  <2>2. agent'.in = agent.in /\ agent'.work = agent.work /\ agent'.out = Tail(agent.out)
    BY <1>8, <2>1, ReadFacts DEF Skip
  <2>3. QED
    BY <2>1, <2>2, WholeRead
<1>9. ASSUME NEW c \in Calls, SessionMade(c) PROVE WholeNow'
  <2>1. (\A d \in Calls \ {c} : calls'[d] = calls[d]) /\ calls[c].step \notin Reading
    BY <1>9, StepFacts DEF SessionMade, Asks, Enters, Steps, Asking, Reading, Ended
  <2>2. LiveCalls \subseteq LiveCalls'
    BY <2>1, LiveStays DEF Live
  <2> DEFINE ask == Line("get_state", c, 0)
  <2>3. ask \in Lines /\ ask.kind = "get_state" /\ agent.out # <<>> /\ agent'.work = agent.work
        /\ agent'.in = Append(agent.in, ask) /\ agent'.out = Tail(agent.out)
    BY <1>9, MadeFacts, LineFacts DEF Kinds
  <2>4. agent.in \in Seq(Lines) /\ agent.out \in Seq(Lines)
    BY TypeIs DEF AgentType
  <2>5. Whole(Append(agent.in, ask), agent.work, agent.out, LiveCalls)
    BY <2>3, <2>4, WriteWhole DEF WholeNow
  <2>6. Whole(Append(agent.in, ask), agent.work, Tail(agent.out), LiveCalls)
    BY <2>3, <2>4, <2>5, ReadWhole
  <2>7. QED
    BY <2>2, <2>3, <2>6, QuietWhole DEF WholeNow
<1>10. ASSUME NEW c \in Calls, StateRead(c) PROVE WholeNow'
  <2>1. (\A d \in Calls \ {c} : calls'[d] = calls[d]) /\ calls[c].step \notin Reading
    BY <1>10, TypeIs DEF StateRead, Asks, Enters, Steps, Asking, Reading, Ended, CallType
  <2>2. LiveCalls \subseteq LiveCalls'
    BY <2>1, LiveStays DEF Live
  <2>3. agent.out # <<>>
    BY <1>10 DEF StateRead
  <2>4. agent'.in = agent.in /\ agent'.work = agent.work /\ agent'.out = Tail(agent.out)
    BY <1>10, <2>3, ReadFacts DEF StateRead
  <2>5. QED
    BY <2>2, <2>3, <2>4, WholeRead
<1>11. ASSUME NEW c \in Calls, AskEnds(c) PROVE WholeNow'
  <2>1. (\A d \in Calls \ {c} : calls'[d] = calls[d]) /\ calls[c].step \notin Reading
    BY <1>11, EndFacts DEF AskEnds, Asks, Enters, Steps, Asking, Reading, Ended
  <2>2. LiveCalls \subseteq LiveCalls'
    BY <2>1, LiveStays DEF Live
  <2>3. CASE agent.out = <<>>
    <3>1. agent'.in = agent.in /\ agent'.work = agent.work /\ agent'.out = agent.out
      BY <1>11, <2>3, TypeIs DEF AskEnds, AgentType
    <3>2. QED
      BY <2>2, <3>1, WholeStays
  <2>4. CASE agent.out # <<>>
    <3>1. agent'.in = agent.in /\ agent'.work = agent.work /\ agent'.out = Tail(agent.out)
      BY <1>11, <2>4, ReadFacts DEF AskEnds
    <3>2. QED
      BY <2>2, <2>4, <3>1, WholeRead
  <2>5. QED
    BY <2>3, <2>4
<1>12. ASSUME NEW c \in Calls, Prompt(c) PROVE WholeNow'
  <2> DEFINE prompt == Line("prompt", c, 0)
  <2>1. LiveCalls = {}
    BY <1>12, NoneLive DEF Prompt, Enters, Reading
  <2>2. Quiet(agent.in, agent.work, agent.out)
    BY <2>1, QuietWhole DEF WholeNow
  <2>3. agent'.in = Append(agent.in, prompt) /\ agent'.work = agent.work
        /\ agent'.out = agent.out /\ prompt \in Lines /\ prompt.of = c
    BY <1>12, WriteFacts, LineFacts DEF Prompt, Kinds
  <2>4. calls'[c].step = "reads" /\ calls'[c].held = calls[c].held /\ calls[c].held = <<>>
    BY <1>12, StepFacts DEF Prompt, Enters, Steps, Reading, StepsFit
  <2>5. c \in LiveCalls'
    BY <2>4, Empty DEF LiveCalls, Live, HasLast, Reading
  <2>6. agent.in \in Seq(Lines)
    BY TypeIs DEF AgentType
  <2>7. QED
    BY <2>2, <2>3, <2>5, <2>6, PromptWhole DEF WholeNow
<1>13. ASSUME NEW c \in Calls, ReadLine(c) PROVE WholeNow'
  <2> DEFINE line == Head(agent.out)
  <2>1. agent.out # <<>> /\ line \in Lines /\ agent.out \in Seq(Lines)
    BY <1>13, LineRead, TypeIs DEF AgentType
  <2>2. agent'.in = agent.in /\ agent'.work = agent.work /\ agent'.out = Tail(agent.out)
    BY <1>13, <2>1, ReadFacts DEF ReadLine
  <2>3. calls'[c].step = calls[c].step /\ calls'[c].held = <<line>> /\ calls[c].held = <<>>
        /\ \A d \in Calls \ {c} : calls'[d] = calls[d]
    BY <1>13, LineRead DEF NoBroken, ReadLine
  <2>4. CASE line.kind = "settled"
    <3>1. Quiet(agent.in, agent.work, Tail(agent.out))
      BY <2>1, <2>4, LastRead DEF WholeNow
    <3>2. QED
      BY <2>2, <3>1, QuietWhole DEF WholeNow
  <2>5. CASE line.kind # "settled"
    <3>1. ~HasLast(c)'
      BY <2>3, <2>5 DEF HasLast
    <3>2. LiveCalls \subseteq LiveCalls'
      BY <2>3, <3>1, LiveStays DEF Live
    <3>3. QED
      BY <2>1, <2>2, <3>2, WholeRead
  <2>6. QED
    BY <2>4, <2>5
<1>14. ASSUME NEW c \in Calls, SendLine(c) PROVE WholeNow'
  <2> DEFINE line == Head(calls[c].held)
  <2>1. /\ \A d \in Calls \ {c} : calls'[d] = calls[d]
        /\ calls[c].held # <<>> /\ line = calls[c].held[1] /\ calls'[c].held = <<>>
        /\ calls'[c].step = IF line.kind = "settled" THEN "done" ELSE calls[c].step
    BY <1>14, SendFacts
  <2>2. 1 \in DOMAIN calls[c].held
    BY <2>1, TypeIs, Taken DEF CallType
  <2>3. Live(c) => Live(c)'
    BY <2>1, <2>2, Empty DEF Live, HasLast
  <2>4. LiveCalls \subseteq LiveCalls'
    BY <2>1, <2>3, LiveStays
  <2>5. QED
    BY <1>14, <2>4, WholeStays DEF SendLine
<1>15. ASSUME NEW c \in Calls, ReplyEnds(c) PROVE WholeNow'
  <2>1. agent.in = <<>> /\ agent.out = <<>> /\ agent.work = Nothing /\ agent' = agent
    BY <1>15, LinesAre DEF ReplyEnds, InputNeedsPi, WorkFits
  <2>2. QED
    BY <2>1, Empty, WholeEmpty DEF NoPromptIn
<1>16. ASSUME NEW c \in Calls, Cancelled(c) PROVE WholeNow'
  <2> DEFINE abort == Line("abort", c, 0)
  <2>1. /\ \A d \in Calls \ {c} : calls'[d] = calls[d]
        /\ calls'[c].held = <<>> /\ calls'[c].step = "drains"
        /\ agent'.work = agent.work /\ agent'.out = agent.out
        /\ agent'.in = agent.in \/ agent'.in = Append(agent.in, abort)
    BY <1>16, CancelFacts
  <2>2. abort \in Lines /\ abort.kind = "abort"
    BY LineFacts DEF Kinds
  <2>3. Live(c)'
    BY <2>1, Empty DEF Live, HasLast, Reading
  <2>4. LiveCalls \subseteq LiveCalls'
    BY <2>1, <2>3, LiveStays
  <2>5. QED
    BY <2>1, <2>2, <2>4, WholeStays, WholeWritten
<1>17. ASSUME NEW c \in Calls, ClientTakes(c) PROVE WholeNow'
  <2>1. (\A d \in Calls \ {c} : calls'[d] = calls[d])
        /\ calls'[c].step = calls[c].step /\ calls'[c].held = calls[c].held
    BY <1>17, TypeIs DEF ClientTakes, CallType
  <2>2. LiveCalls \subseteq LiveCalls'
    BY <2>1, LiveStays DEF Live, HasLast
  <2>3. QED
    BY <1>17, <2>2, WholeStays DEF ClientTakes
<1>18. ASSUME PiReads PROVE WholeNow'
  <2>1. PICK l \in Lines : PiTakes(l)
    BY <1>18, TakesFacts
  <2> DEFINE answer == Line(l.kind, l.of, IF l.kind = "get_state" THEN agent.session ELSE 0)
             last == Line("settled", agent.work, 0)
             rest == Tail(agent.in)
  <2>2. agent.in \in Seq(Lines) /\ agent.out \in Seq(Lines) /\ agent.work \in Calls \cup {Nothing}
        /\ agent.in # <<>> /\ l = Head(agent.in) /\ agent'.in = rest /\ answer \in Lines
    BY <2>1, TypeIs DEF AgentType, PiTakes
  <2>3. LiveCalls' = LiveCalls
    BY <1>18 DEF PiReads, LiveCalls, Live, HasLast
  <2>4. answer.kind = l.kind
    BY DEF Line
  <2>5. Whole(rest, agent.work, agent.out, LiveCalls)
    BY <2>2, TakeWhole DEF WholeNow
  <2>6. CASE l.kind = "prompt"
    <3>1. agent.work = Nothing /\ Whole(rest, l.of, agent.out, LiveCalls)
      BY <2>2, <2>6, StartWhole DEF WholeNow
    <3>2. Whole(rest, l.of, Append(agent.out, answer), LiveCalls)
      BY <2>2, <2>4, <2>6, <3>1, PlainWhole DEF OfReply
    <3>3. agent'.work = l.of /\ agent'.out = Append(agent.out, answer)
      BY <2>1, <2>6, <3>1 DEF PiTakes
    <3>4. QED
      BY <2>2, <2>3, <3>2, <3>3 DEF WholeNow
  <2>7. CASE l.kind = "get_state"
    <3>1. Whole(rest, agent.work, Append(agent.out, answer), LiveCalls)
      BY <2>2, <2>4, <2>5, <2>7, PlainWhole DEF OfReply
    <3>2. agent'.work = agent.work /\ agent'.out = Append(agent.out, answer)
      BY <2>1, <2>7 DEF PiTakes
    <3>3. QED
      BY <2>2, <2>3, <3>1, <3>2 DEF WholeNow
  <2>8. CASE l.kind \in {"abort", "new_session"}
    <3>1. CASE agent.work = Nothing
      <4>1. Whole(rest, agent.work, Append(agent.out, answer), LiveCalls)
        BY <2>2, <2>4, <2>5, <2>8, PlainWhole DEF OfReply
      <4>2. agent'.work = agent.work /\ agent'.out = Append(agent.out, answer)
        BY <2>1, <2>8, <3>1 DEF PiTakes
      <4>3. QED
        BY <2>2, <2>3, <4>1, <4>2 DEF WholeNow
    <3>2. CASE agent.work # Nothing
      <4>1. last \in Lines /\ last.kind = "settled" /\ last.of = agent.work
        BY <2>2, <3>2, LineFacts DEF Kinds
      <4>2. Whole(rest, Nothing, Append(agent.out, last), LiveCalls) /\ Append(agent.out, last) \in Seq(Lines)
        BY <2>2, <2>5, <3>2, <4>1, LastWhole, Appended
      <4>3. Whole(rest, Nothing, Append(Append(agent.out, last), answer), LiveCalls)
        BY <2>2, <2>4, <2>8, <4>2, PlainWhole DEF OfReply
      <4>4. agent'.work = Nothing /\ agent'.out = Append(Append(agent.out, last), answer)
        BY <2>1, <2>8, <3>2 DEF PiTakes
      <4>5. QED
        BY <2>2, <2>3, <4>3, <4>4 DEF WholeNow
    <3>3. QED
      BY <3>1, <3>2
  <2>9. QED
    BY <2>1, <2>6, <2>7, <2>8 DEF PiTakes
<1>19. ASSUME PiReplies PROVE WholeNow'
  <2> DEFINE event == Line("event", agent.work, 0)
             last == Line("settled", agent.work, 0)
  <2>1. agent.work \in Calls /\ agent.out \in Seq(Lines) /\ agent'.in = agent.in /\ agent'.work = Nothing
        /\ event \in Lines /\ last \in Lines /\ agent.work # Nothing
        /\ agent'.out = Append(Append(agent.out, event), last)
    BY <1>19, RepliesFacts, TypeIs DEF AgentType, PiReplies
  <2>2. event.of = agent.work /\ last.of = agent.work /\ event.kind = "event" /\ last.kind = "settled"
    BY <2>1, LineFacts DEF Kinds
  <2>3. LiveCalls' = LiveCalls
    BY <1>19 DEF PiReplies, LiveCalls, Live, HasLast
  <2>4. Whole(agent.in, agent.work, Append(agent.out, event), LiveCalls)
        /\ Append(agent.out, event) \in Seq(Lines)
    BY <2>1, <2>2, EventWhole, Appended DEF WholeNow
  <2>5. Whole(agent.in, Nothing, Append(Append(agent.out, event), last), LiveCalls)
    BY <2>1, <2>2, <2>4, LastWhole
  <2>6. QED
    BY <2>1, <2>3, <2>5 DEF WholeNow
<1>20. ASSUME PiPrintsJunk PROVE WholeNow'
  <2> DEFINE junk == Line("junk", agent.work, 0)
  <2>1. agent.work \in Calls /\ agent.out \in Seq(Lines) /\ agent'.in = agent.in
        /\ agent'.work = agent.work /\ junk \in Lines /\ agent.work # Nothing
        /\ agent'.out = Append(agent.out, junk)
    BY <1>20, JunkFacts, TypeIs DEF AgentType, PiPrintsJunk
  <2>2. junk.of = agent.work /\ junk.kind = "junk"
    BY <2>1, LineFacts DEF Kinds
  <2>3. LiveCalls' = LiveCalls
    BY <1>20 DEF PiPrintsJunk, LiveCalls, Live, HasLast
  <2>4. Whole(agent.in, agent.work, Append(agent.out, junk), LiveCalls)
    BY <2>1, <2>2, EventWhole DEF WholeNow
  <2>5. QED
    BY <2>1, <2>3, <2>4 DEF WholeNow
<1>21. ASSUME PiDies PROVE WholeNow'
  <2>1. agent'.in = <<>> /\ agent'.out = agent.out /\ agent'.work = Nothing
    BY <1>21, TypeIs DEF PiDies, AgentType
  <2>2. LiveCalls' = LiveCalls
    BY <1>21 DEF PiDies, LiveCalls, Live, HasLast
  <2>3. QED
    BY <2>1, <2>2, Empty DEF WholeNow, Whole
<1>22. ASSUME Pick PROVE WholeNow'
  <2>1. LiveCalls' = LiveCalls
    BY <1>22 DEF Pick, LiveCalls, Live, HasLast
  <2>2. QED
    BY <1>22, <2>1, WholeStays DEF Pick
<1>23. ASSUME NEW c \in Calls, StartFails(c) PROVE WholeNow'
  <2>1. agent'.in = <<>> /\ agent'.out = <<>> /\ agent'.work = Nothing
    BY <1>23 DEF StartFails, NoAgent
  <2>2. QED
    BY <2>1, Empty, WholeEmpty DEF NoPromptIn
<1>24. ASSUME NEW c \in Calls, AskTimesOut(c) PROVE WholeNow'
  <2>1. (\A d \in Calls \ {c} : calls'[d] = calls[d]) /\ calls[c].step \notin Reading
    BY <1>24, EndFacts DEF AskTimesOut, Asks, Enters, Steps, Asking, Reading, Ended, Holds
  <2>2. LiveCalls \subseteq LiveCalls'
    BY <2>1, LiveStays DEF Live
  <2>3. QED
    BY <1>24, <2>2, WholeStays DEF AskTimesOut
<1>25. ASSUME NEW c \in Calls, ClientLeaves(c) PROVE WholeNow'
  <2>1. (\A d \in Calls \ {c} : calls'[d] = calls[d])
        /\ calls'[c].step = calls[c].step /\ calls'[c].held = calls[c].held
    BY <1>25, TypeIs DEF ClientLeaves, CallType
  <2>2. LiveCalls \subseteq LiveCalls'
    BY <2>1, LiveStays DEF Live, HasLast
  <2>3. QED
    BY <1>25, <2>2, WholeStays DEF ClientLeaves
<1>26. ASSUME NEW c \in Calls, NEW op \in Ops, Call(c, op) PROVE WholeNow'
  <2>1. (\A d \in Calls \ {c} : calls'[d] = calls[d]) /\ calls[c].step \notin Reading
    BY <1>26, TypeIs DEF Call, NoCall, Reading
  <2>2. LiveCalls \subseteq LiveCalls'
    BY <2>1, LiveStays DEF Live
  <2>3. QED
    BY <1>26, <2>2, WholeStays DEF Call
<1>27. ASSUME UNCHANGED vars PROVE WholeNow'
  <2>1. LiveCalls' = LiveCalls
    BY <1>27 DEF vars, LiveCalls, Live, HasLast
  <2>2. QED
    BY <1>27, <2>1, WholeStays DEF vars
<1>28. QED
  BY <1>1, <1>2, <1>3, <1>4, <1>5, <1>6, <1>7, <1>8, <1>9, <1>10, <1>11,
     <1>12, <1>13, <1>14, <1>15, <1>16, <1>17, <1>18, <1>19, <1>20,
     <1>21, <1>22, <1>23, <1>24, <1>25, <1>26, <1>27 DEF Next, Handles, Environment

\* The lines of a reply that a call holds, or has sent on, are of its own.
OwnIn(lines, c) == \A i \in DOMAIN lines : OfReply(lines[i]) => lines[i].of = c
Own(c) == OwnIn(calls[c].held, c) /\ OwnIn(calls[c].chan, c)

\* Lines are added and taken.
LEMMA OwnFacts ==
    ASSUME NEW s \in Seq(Lines), NEW c \in Calls, OwnIn(s, c)
    PROVE  /\ OwnIn(<<>>, c)
           /\ s # <<>> => OwnIn(Tail(s), c)
           /\ \A l \in Lines : (OfReply(l) => l.of = c) => OwnIn(Append(s, l), c)
<1>1. OwnIn(<<>>, c)
  BY Empty DEF OwnIn
<1>2. s # <<>> => OwnIn(Tail(s), c)
  BY Taken DEF OwnIn
<1>3. ASSUME NEW l \in Lines, OfReply(l) => l.of = c PROVE OwnIn(Append(s, l), c)
  <2>1. /\ DOMAIN s = 1..Len(s) /\ Len(s) \in Nat /\ DOMAIN Append(s, l) = 1..(Len(s) + 1)
        /\ \A i \in DOMAIN s : Append(s, l)[i] = s[i]
        /\ Append(s, l)[Len(s) + 1] = l
    BY Appended
  <2>2. \A i \in DOMAIN Append(s, l) : i \in DOMAIN s \/ i = Len(s) + 1
    BY <2>1
  <2>3. QED
    BY <1>3, <2>1, <2>2 DEF OwnIn
<1>4. QED
  BY <1>1, <1>2, <1>3

\* A step of one call leaves the others as they are.
LEMMA OwnFrame ==
    ASSUME \A d \in Calls : Own(d), NEW c \in Calls, \A d \in Calls \ {c} : calls'[d] = calls[d], Own(c)'
    PROVE  \A d \in Calls : Own(d)'
BY DEF Own, OwnIn

\* A call holds, and sends on, lines of its own reply.
LEMMA OwnKeeps ==
    ASSUME TypeOK, OneAtATime, WholeNow, \A d \in Calls : Own(d), [Next]_vars
    PROVE  \A d \in Calls : Own(d)'
<1>1. ASSUME NEW c \in Calls, Lock(c) PROVE \A d \in Calls : Own(d)'
  <2>1. (\A d \in Calls \ {c} : calls'[d] = calls[d])
        /\ calls'[c].chan = calls[c].chan /\ calls'[c].held = calls[c].held
    BY <1>1, StepFacts DEF Lock, Asks, Enters, Reads, Steps, Asking, Reading, Ended
  <2>2. OwnIn(<<>>, c)
    BY Empty DEF OwnIn
  <2>3. Own(c)'
    BY <2>1, <2>2 DEF Own
  <2>4. QED
    BY <2>1, <2>3, OwnFrame
<1>2. ASSUME NEW c \in Calls, NoAgentToUse(c) PROVE \A d \in Calls : Own(d)'
  <2>1. (\A d \in Calls \ {c} : calls'[d] = calls[d])
        /\ calls'[c].chan = calls[c].chan /\ calls'[c].held = <<>>
    BY <1>2, EndFacts DEF NoAgentToUse, Asks, Enters, Reads, Steps, Asking, Reading, Ended, Holds
  <2>2. OwnIn(<<>>, c)
    BY Empty DEF OwnIn
  <2>3. Own(c)'
    BY <2>1, <2>2 DEF Own
  <2>4. QED
    BY <2>1, <2>3, OwnFrame
<1>3. ASSUME NEW c \in Calls, Start(c) PROVE \A d \in Calls : Own(d)'
  <2>1. (\A d \in Calls \ {c} : calls'[d] = calls[d])
        /\ calls'[c].chan = calls[c].chan /\ calls'[c].held = <<>>
    BY <1>3, EndFacts DEF Start, Asks, Enters, Reads, Steps, Asking, Reading, Ended, Holds
  <2>2. OwnIn(<<>>, c)
    BY Empty DEF OwnIn
  <2>3. Own(c)'
    BY <2>1, <2>2 DEF Own
  <2>4. QED
    BY <2>1, <2>3, OwnFrame
<1>4. ASSUME NEW c \in Calls, NewSession(c) PROVE \A d \in Calls : Own(d)'
  <2>1. (\A d \in Calls \ {c} : calls'[d] = calls[d])
        /\ calls'[c].chan = calls[c].chan /\ calls'[c].held = calls[c].held
    BY <1>4, StepFacts DEF NewSession, Asks, Enters, Reads, Steps, Asking, Reading, Ended
  <2>2. OwnIn(<<>>, c)
    BY Empty DEF OwnIn
  <2>3. Own(c)'
    BY <2>1, <2>2 DEF Own
  <2>4. QED
    BY <2>1, <2>3, OwnFrame
<1>5. ASSUME NEW c \in Calls, StartSession(c) PROVE \A d \in Calls : Own(d)'
  <2>1. (\A d \in Calls \ {c} : calls'[d] = calls[d])
        /\ calls'[c].chan = calls[c].chan /\ calls'[c].held = calls[c].held
    BY <1>5, StepFacts DEF StartSession, Asks, Enters, Reads, Steps, Asking, Reading, Ended
  <2>2. OwnIn(<<>>, c)
    BY Empty DEF OwnIn
  <2>3. Own(c)'
    BY <2>1, <2>2 DEF Own
  <2>4. QED
    BY <2>1, <2>3, OwnFrame
<1>6. ASSUME NEW c \in Calls, State(c) PROVE \A d \in Calls : Own(d)'
  <2>1. (\A d \in Calls \ {c} : calls'[d] = calls[d])
        /\ calls'[c].chan = calls[c].chan /\ calls'[c].held = calls[c].held
    BY <1>6, StepFacts DEF State, Asks, Enters, Reads, Steps, Asking, Reading, Ended
  <2>2. OwnIn(<<>>, c)
    BY Empty DEF OwnIn
  <2>3. Own(c)'
    BY <2>1, <2>2 DEF Own
  <2>4. QED
    BY <2>1, <2>3, OwnFrame
<1>7. ASSUME NEW c \in Calls, EndSession(c) PROVE \A d \in Calls : Own(d)'
  <2>1. (\A d \in Calls \ {c} : calls'[d] = calls[d])
        /\ calls'[c].chan = calls[c].chan /\ calls'[c].held = <<>>
    BY <1>7, EndFacts DEF EndSession, Asks, Enters, Reads, Steps, Asking, Reading, Ended, Holds
  <2>2. OwnIn(<<>>, c)
    BY Empty DEF OwnIn
  <2>3. Own(c)'
    BY <2>1, <2>2 DEF Own
  <2>4. QED
    BY <2>1, <2>3, OwnFrame
<1>8. ASSUME NEW c \in Calls, Skip(c) PROVE \A d \in Calls : Own(d)'
  <2>1. calls' = calls
    BY <1>8 DEF Skip
  <2>2. QED
    BY <2>1 DEF Own
<1>9. ASSUME NEW c \in Calls, SessionMade(c) PROVE \A d \in Calls : Own(d)'
  <2>1. (\A d \in Calls \ {c} : calls'[d] = calls[d])
        /\ calls'[c].chan = calls[c].chan /\ calls'[c].held = calls[c].held
    BY <1>9, StepFacts DEF SessionMade, Asks, Enters, Reads, Steps, Asking, Reading, Ended
  <2>2. OwnIn(<<>>, c)
    BY Empty DEF OwnIn
  <2>3. Own(c)'
    BY <2>1, <2>2 DEF Own
  <2>4. QED
    BY <2>1, <2>3, OwnFrame
<1>10. ASSUME NEW c \in Calls, StateRead(c) PROVE \A d \in Calls : Own(d)'
  <2>1. (\A d \in Calls \ {c} : calls'[d] = calls[d])
        /\ calls'[c].chan = calls[c].chan /\ calls'[c].held = calls[c].held
    BY <1>10, TypeIs DEF StateRead, Asks, Enters, Reads, Steps, Asking, Reading, Ended, CallType
  <2>2. OwnIn(<<>>, c)
    BY Empty DEF OwnIn
  <2>3. Own(c)'
    BY <2>1, <2>2 DEF Own
  <2>4. QED
    BY <2>1, <2>3, OwnFrame
<1>11. ASSUME NEW c \in Calls, AskEnds(c) PROVE \A d \in Calls : Own(d)'
  <2>1. (\A d \in Calls \ {c} : calls'[d] = calls[d])
        /\ calls'[c].chan = calls[c].chan /\ calls'[c].held = <<>>
    BY <1>11, EndFacts DEF AskEnds, Asks, Enters, Reads, Steps, Asking, Reading, Ended, Holds
  <2>2. OwnIn(<<>>, c)
    BY Empty DEF OwnIn
  <2>3. Own(c)'
    BY <2>1, <2>2 DEF Own
  <2>4. QED
    BY <2>1, <2>3, OwnFrame
<1>12. ASSUME NEW c \in Calls, Prompt(c) PROVE \A d \in Calls : Own(d)'
  <2>1. (\A d \in Calls \ {c} : calls'[d] = calls[d])
        /\ calls'[c].chan = calls[c].chan /\ calls'[c].held = calls[c].held
    BY <1>12, StepFacts DEF Prompt, Asks, Enters, Reads, Steps, Asking, Reading, Ended
  <2>2. OwnIn(<<>>, c)
    BY Empty DEF OwnIn
  <2>3. Own(c)'
    BY <2>1, <2>2 DEF Own
  <2>4. QED
    BY <2>1, <2>3, OwnFrame
<1>13. ASSUME NEW c \in Calls, ReadLine(c) PROVE \A d \in Calls : Own(d)'
  <2> DEFINE line == Head(agent.out)
  <2>1. /\ \A d \in Calls \ {c} : calls'[d] = calls[d]
        /\ calls'[c].chan = calls[c].chan /\ calls'[c].held \in {<<>>, <<line>>}
        /\ line \in Lines /\ line = agent.out[1] /\ agent.out # <<>>
    BY <1>13, LineRead
  <2>2. 1 \in DOMAIN agent.out
    BY <2>1, TypeIs, Taken DEF AgentType
  <2>3. OfReply(line) => line.of \in LiveCalls
    BY <2>1, <2>2 DEF WholeNow, Whole
  <2>4. OfReply(line) => line.of = c
    BY <1>13, <2>3, LiveHolds DEF ReadLine, Reads
  <2>5. OwnIn(<<>>, c) /\ OwnIn(<<line>>, c)
    BY <2>4, Empty DEF OwnIn
  <2>6. Own(c)'
    BY <2>1, <2>5 DEF Own
  <2>7. QED
    BY <2>1, <2>6, OwnFrame
<1>14. ASSUME NEW c \in Calls, SendLine(c) PROVE \A d \in Calls : Own(d)'
  <2> DEFINE line == Head(calls[c].held)
  <2>1. /\ \A d \in Calls \ {c} : calls'[d] = calls[d]
        /\ calls[c].held # <<>> /\ line \in Lines /\ line = calls[c].held[1] /\ calls'[c].held = <<>>
        /\ calls'[c].chan \in {calls[c].chan, Append(calls[c].chan, line)}
    BY <1>14, SendFacts
  <2>2. 1 \in DOMAIN calls[c].held /\ calls[c].chan \in Seq(Lines)
    BY <2>1, TypeIs, Taken DEF CallType
  <2>3. OfReply(line) => line.of = c
    BY <2>1, <2>2 DEF Own, OwnIn
  <2>4. OwnIn(<<>>, c) /\ OwnIn(calls'[c].chan, c)
    BY <2>1, <2>2, <2>3, OwnFacts DEF Own
  <2>5. Own(c)'
    BY <2>1, <2>4 DEF Own
  <2>6. QED
    BY <2>1, <2>5, OwnFrame
<1>15. ASSUME NEW c \in Calls, ReplyEnds(c) PROVE \A d \in Calls : Own(d)'
  <2>1. (\A d \in Calls \ {c} : calls'[d] = calls[d])
        /\ calls'[c].chan = calls[c].chan /\ calls'[c].held = <<>>
    BY <1>15, EndFacts DEF ReplyEnds, Asks, Enters, Reads, Steps, Asking, Reading, Ended, Holds
  <2>2. OwnIn(<<>>, c)
    BY Empty DEF OwnIn
  <2>3. Own(c)'
    BY <2>1, <2>2 DEF Own
  <2>4. QED
    BY <2>1, <2>3, OwnFrame
<1>16. ASSUME NEW c \in Calls, Cancelled(c) PROVE \A d \in Calls : Own(d)'
  <2>1. (\A d \in Calls \ {c} : calls'[d] = calls[d])
        /\ calls'[c].chan = calls[c].chan /\ calls'[c].held = <<>>
    BY <1>16, CancelFacts DEF Cancelled, Asks, Enters, Reads, Steps, Asking, Reading, Ended
  <2>2. OwnIn(<<>>, c)
    BY Empty DEF OwnIn
  <2>3. Own(c)'
    BY <2>1, <2>2 DEF Own
  <2>4. QED
    BY <2>1, <2>3, OwnFrame
<1>17. ASSUME NEW c \in Calls, ClientTakes(c) PROVE \A d \in Calls : Own(d)'
  <2>1. (\A d \in Calls \ {c} : calls'[d] = calls[d]) /\ calls[c].chan # <<>>
        /\ calls'[c].held = calls[c].held /\ calls'[c].chan = Tail(calls[c].chan)
    BY <1>17, TypeIs DEF ClientTakes, CallType
  <2>2. calls[c].chan \in Seq(Lines) /\ OwnIn(calls[c].chan, c)
    BY TypeIs DEF CallType, Own
  <2>3. OwnIn(Tail(calls[c].chan), c)
    BY <2>1, <2>2, OwnFacts
  <2>4. Own(c)'
    BY <2>1, <2>3 DEF Own
  <2>5. QED
    BY <2>1, <2>4, OwnFrame
<1>18. ASSUME PiReads PROVE \A d \in Calls : Own(d)'
  <2>1. calls' = calls
    BY <1>18 DEF PiReads
  <2>2. QED
    BY <2>1 DEF Own
<1>19. ASSUME PiReplies PROVE \A d \in Calls : Own(d)'
  <2>1. calls' = calls
    BY <1>19 DEF PiReplies
  <2>2. QED
    BY <2>1 DEF Own
<1>20. ASSUME PiPrintsJunk PROVE \A d \in Calls : Own(d)'
  <2>1. calls' = calls
    BY <1>20 DEF PiPrintsJunk
  <2>2. QED
    BY <2>1 DEF Own
<1>21. ASSUME PiDies PROVE \A d \in Calls : Own(d)'
  <2>1. calls' = calls
    BY <1>21 DEF PiDies
  <2>2. QED
    BY <2>1 DEF Own
<1>22. ASSUME Pick PROVE \A d \in Calls : Own(d)'
  <2>1. calls' = calls
    BY <1>22 DEF Pick
  <2>2. QED
    BY <2>1 DEF Own
<1>23. ASSUME NEW c \in Calls, StartFails(c) PROVE \A d \in Calls : Own(d)'
  <2>1. (\A d \in Calls \ {c} : calls'[d] = calls[d])
        /\ calls'[c].chan = calls[c].chan /\ calls'[c].held = <<>>
    BY <1>23, EndFacts DEF StartFails, Asks, Enters, Reads, Steps, Asking, Reading, Ended, Holds
  <2>2. OwnIn(<<>>, c)
    BY Empty DEF OwnIn
  <2>3. Own(c)'
    BY <2>1, <2>2 DEF Own
  <2>4. QED
    BY <2>1, <2>3, OwnFrame
<1>24. ASSUME NEW c \in Calls, AskTimesOut(c) PROVE \A d \in Calls : Own(d)'
  <2>1. (\A d \in Calls \ {c} : calls'[d] = calls[d])
        /\ calls'[c].chan = calls[c].chan /\ calls'[c].held = <<>>
    BY <1>24, EndFacts DEF AskTimesOut, Asks, Enters, Reads, Steps, Asking, Reading, Ended, Holds
  <2>2. OwnIn(<<>>, c)
    BY Empty DEF OwnIn
  <2>3. Own(c)'
    BY <2>1, <2>2 DEF Own
  <2>4. QED
    BY <2>1, <2>3, OwnFrame
<1>25. ASSUME NEW c \in Calls, ClientLeaves(c) PROVE \A d \in Calls : Own(d)'
  <2>1. (\A d \in Calls \ {c} : calls'[d] = calls[d])
        /\ calls'[c].held = calls[c].held /\ calls'[c].chan = <<>>
    BY <1>25, TypeIs DEF ClientLeaves, CallType
  <2>2. OwnIn(<<>>, c)
    BY Empty DEF OwnIn
  <2>3. Own(c)'
    BY <2>1, <2>2 DEF Own
  <2>4. QED
    BY <2>1, <2>3, OwnFrame
<1>26. ASSUME NEW c \in Calls, NEW op \in Ops, Call(c, op) PROVE \A d \in Calls : Own(d)'
  <2>1. (\A d \in Calls \ {c} : calls'[d] = calls[d])
        /\ calls'[c].chan = calls[c].chan /\ calls'[c].held = calls[c].held
    BY <1>26, TypeIs DEF Call, Asks, Enters, Reads, Steps, Asking, Reading, Ended, CallType
  <2>2. OwnIn(<<>>, c)
    BY Empty DEF OwnIn
  <2>3. Own(c)'
    BY <2>1, <2>2 DEF Own
  <2>4. QED
    BY <2>1, <2>3, OwnFrame
<1>27. ASSUME UNCHANGED vars PROVE \A d \in Calls : Own(d)'
  BY <1>27 DEF vars, Own
<1>28. QED
  BY <1>1, <1>2, <1>3, <1>4, <1>5, <1>6, <1>7, <1>8, <1>9, <1>10, <1>11,
     <1>12, <1>13, <1>14, <1>15, <1>16, <1>17, <1>18, <1>19, <1>20,
     <1>21, <1>22, <1>23, <1>24, <1>25, <1>26, <1>27 DEF Next, Handles, Environment

\* What a reply is made of, by the names it has here.
LEMMA ReplyIs ==
    ASSUME TypeOK
    PROVE  ReplyIsRead <=> (NoBroken => WholeNow /\ \A c \in Calls : Own(c))
<1>1. \A l \in Lines : l.of \in Calls
  BY DEF Lines
<1>2. /\ \A i \in DOMAIN agent.in : agent.in[i].of \in Calls
      /\ \A i \in DOMAIN agent.out : agent.out[i].of \in Calls
      /\ agent.work # Nothing => agent.work \in Calls
  BY <1>1, TypeIs, Empty DEF AgentType
<1>3. \A c \in Calls : c \in LiveCalls <=> calls[c].step \in Reading /\ ~HasLast(c)
  BY DEF LiveCalls, Live
<1>4. QED
  BY <1>2, <1>3 DEF ReplyIsRead, NoBroken, WholeNow, Whole, Own, OwnIn

\* The same, after the step.
LEMMA ReplyIsNext ==
    ASSUME TypeOK', NoBroken' => WholeNow' /\ \A c \in Calls : Own(c)'
    PROVE  ReplyIsRead'
<1>1. \A l \in Lines : l.of \in Calls
  BY DEF Lines
<1>2. agent'.in \in Seq(Lines) /\ agent'.out \in Seq(Lines) /\ agent'.work \in Calls \cup {Nothing}
  BY DEF TypeOK
<1>3. /\ \A i \in DOMAIN agent'.in : agent'.in[i].of \in Calls
      /\ \A i \in DOMAIN agent'.out : agent'.out[i].of \in Calls
      /\ agent'.work # Nothing => agent'.work \in Calls
  BY <1>1, <1>2, Empty
<1>4. \A c \in Calls : c \in LiveCalls' <=> calls'[c].step \in Reading /\ ~HasLast(c)'
  BY DEF LiveCalls, Live
<1>5. QED
  BY <1>3, <1>4 DEF ReplyIsRead, NoBroken, WholeNow, Whole, Own, OwnIn

\* A reply that no other was given up before is its prompt's from end to end.
LEMMA ReplyKeeps ==
    ASSUME TypeOK, InputNeedsPi, OneAtATime, StepsFit, LinesAreOfCalls, ReplyIsRead,
           TypeOK', [Next]_vars
    PROVE  ReplyIsRead'
<1>1. ASSUME NoBroken' PROVE WholeNow' /\ \A c \in Calls : Own(c)'
  <2>1. WholeNow /\ \A c \in Calls : Own(c)
    BY <1>1, BrokenStays, ReplyIs
  <2>2. QED
    BY <1>1, <2>1, WholeKeeps, OwnKeeps
<1>2. QED
  BY <1>1, ReplyIsNext

-----------------------------------------------------------------------------
(* A new session is the one Pi is in, and nobody else was handed it.       *)

\* A session that is being made is the last thing in the pipes.
Asked(c, in, out, fresh) ==
    /\ \A i \in DOMAIN in : in[i].of = c => i = Len(in) /\ in[i].kind = "new_session"
    /\ \A i \in DOMAIN out : out[i].of = c => i = Len(out) /\ in = <<>> /\ fresh

\* A session that was made is all that is in the pipes.
Told(c, in, out, fresh, session) ==
    /\ fresh
    /\ in = <<>> \/ out = <<>>
    /\ \A i \in DOMAIN in : i = 1 /\ in[i].kind = "get_state" /\ in[i].of = c
    /\ \A i \in DOMAIN out : i = 1 /\ out[i].kind = "get_state" /\ out[i].session = session

Makes(c) == /\ calls[c].step = "new_session" => Asked(c, agent.in, agent.out, IsFresh)
            /\ calls[c].step = "get_state" /\ calls[c].op = "session" =>
                  Told(c, agent.in, agent.out, IsFresh, agent.session)

\* What each call makes.
LEMMA SessionIs == SessionIsMade <=> \A c \in Calls : Makes(c)
BY DEF SessionIsMade, Makes, Asked, Told

\* A pipe with one line, after it was taken.
LEMMA OneLine ==
    ASSUME NEW s \in Seq(Lines), s # <<>>, \A i \in DOMAIN s : i = 1
    PROVE  Tail(s) = <<>>
<1>1. DOMAIN s = 1..Len(s) /\ Len(s) \in Nat \ {0} /\ Tail(s) \in Seq(Lines) /\ Len(Tail(s)) = Len(s) - 1
  BY Taken
<1>2. Len(s) \in DOMAIN s
  BY <1>1
<1>3. Len(Tail(s)) = 0
  BY <1>1, <1>2
<1>4. QED
  BY <1>1, <1>3, Empty

\* A step after which every call makes what it should.
LEMMA SessionNext ==
    ASSUME \A c \in Calls : Makes(c)'
    PROVE  SessionIsMade'
BY DEF SessionIsMade, Makes, Asked, Told

\* The step of a call that neither touches the pipes nor starts to ask.
LEMMA MakesFrame ==
    ASSUME SessionIsMade, agent' = agent,
           \A d \in Calls : /\ calls'[d].session = calls[d].session
                            /\ calls'[d].step \in Asking =>
                                  calls'[d].step = calls[d].step /\ calls'[d].op = calls[d].op
    PROVE  SessionIsMade'
<1>1. IsFresh' <=> IsFresh
  BY DEF IsFresh
<1>2. \A c \in Calls : Makes(c)'
  BY <1>1, SessionIs DEF Makes, Asking, Asked, Told
<1>3. QED
  BY <1>2, SessionNext

\* The step of the call that has the mutex: no other asks.
LEMMA MakesHolder ==
    ASSUME OneAtATime, NEW c \in Calls, Holds(c), \A d \in Calls \ {c} : calls'[d] = calls[d], Makes(c)'
    PROVE  SessionIsMade'
<1>1. \A d \in Calls \ {c} : calls'[d].step \notin Asking
  BY DEF OneAtATime, Holds
<1>2. \A d \in Calls \ {c} : Makes(d)'
  BY <1>1 DEF Makes, Asking
<1>3. QED
  BY <1>2, SessionNext

\* It asks for no session.
LEMMA MakesNone ==
    ASSUME OneAtATime, NEW c \in Calls, Holds(c), \A d \in Calls \ {c} : calls'[d] = calls[d],
           calls'[c].step \in Asking => calls'[c].step = "get_state" /\ calls'[c].op # "session"
    PROVE  SessionIsMade'
<1>1. Makes(c)'
  BY DEF Makes, Asking
<1>2. QED
  BY <1>1, MakesHolder

\* Pi stays in its session, and works on nothing.
LEMMA StaysFresh ==
    ASSUME IsFresh, agent'.work = Nothing, agent'.session = agent.session,
           \A d \in Calls : calls'[d].session = calls[d].session
    PROVE  IsFresh'
BY DEF IsFresh

\* A session no Pi has had before.
LEMMA BecomesFresh ==
    ASSUME TypeOK, agent'.work = Nothing, agent'.session = FreshSession,
           \A d \in Calls : calls'[d].session = calls[d].session
    PROVE  IsFresh'
BY FreshFacts DEF IsFresh

\* Pi prints a line of another call.
LEMMA AskedPrints ==
    ASSUME NEW c \in Calls, NEW in \in Seq(Lines), NEW out \in Seq(Lines), NEW l \in Lines, l.of # c,
           \A i \in DOMAIN out : out[i].of # c
    PROVE  \A i \in DOMAIN Append(out, l) : Append(out, l)[i].of # c
<1>1. /\ DOMAIN out = 1..Len(out) /\ Len(out) \in Nat /\ DOMAIN Append(out, l) = 1..(Len(out) + 1)
      /\ \A i \in DOMAIN out : Append(out, l)[i] = out[i]
      /\ Append(out, l)[Len(out) + 1] = l
  BY Appended
<1>2. \A i \in DOMAIN Append(out, l) : i \in DOMAIN out \/ i = Len(out) + 1
  BY <1>1
<1>3. QED
  BY <1>1, <1>2

\* A pipe whose last line only may be of the call, after a line was taken.
LEMMA AskedTakes ==
    ASSUME NEW c \in Calls, NEW s \in Seq(Lines), s # <<>>,
           \A i \in DOMAIN s : s[i].of = c => i = Len(s)
    PROVE  /\ \A i \in DOMAIN Tail(s) : Tail(s)[i].of = c => i = Len(Tail(s))
           /\ Head(s).of = c => Tail(s) = <<>>
<1>1. /\ DOMAIN s = 1..Len(s) /\ Len(s) \in Nat /\ DOMAIN Tail(s) = 1..(Len(s) - 1)
      /\ \A i \in DOMAIN Tail(s) : i + 1 \in DOMAIN s /\ Tail(s)[i] = s[i + 1]
      /\ 1 \in DOMAIN s /\ Head(s) = s[1] /\ Tail(s) \in Seq(Lines) /\ Len(Tail(s)) = Len(s) - 1
  BY Taken
<1>2. ASSUME NEW i \in DOMAIN Tail(s), Tail(s)[i].of = c PROVE i = Len(Tail(s))
  <2>1. i + 1 = Len(s)
    BY <1>1, <1>2
  <2>2. QED
    BY <1>1, <2>1
<1>3. Head(s).of = c => Len(Tail(s)) = 0
  BY <1>1
<1>4. QED
  BY <1>1, <1>2, <1>3, Empty

\* A session is made for the call that asked, whatever Pi still has to say.
LEMMA SessionKeeps ==
    ASSUME TypeOK, OneAtATime, StepsFit, LinesAreOfCalls, SessionIsMade, [Next]_vars
    PROVE  SessionIsMade'
<1>1. ASSUME NEW c \in Calls, Lock(c) PROVE SessionIsMade'
  <2>1. (\A d \in Calls \ {c} : calls'[d] = calls[d]) /\ calls'[c].session = calls[c].session
        /\ calls'[c].step \notin Asking
    BY <1>1, StepFacts DEF Lock, Steps, Asking
  <2>2. agent' = agent
    BY <1>1 DEF Lock
  <2>3. QED
    BY <2>1, <2>2, MakesFrame
<1>2. ASSUME NEW c \in Calls, NoAgentToUse(c) PROVE SessionIsMade'
  <2>1. Holds(c) /\ (\A d \in Calls \ {c} : calls'[d] = calls[d]) /\ calls'[c].op = calls[c].op
        /\ (calls'[c].step \in Asking => calls'[c].step = "get_state" /\ calls[c].op # "session")
    BY <1>2, EndFacts DEF NoAgentToUse, Asks, Enters, Reads, Steps, Asking, Reading, Ended
  <2>2. QED
    BY <2>1, MakesNone
<1>3. ASSUME NEW c \in Calls, Start(c) PROVE SessionIsMade'
  <2>1. Holds(c) /\ (\A d \in Calls \ {c} : calls'[d] = calls[d]) /\ calls'[c].op = calls[c].op
        /\ (calls'[c].step \in Asking => calls'[c].step = "get_state" /\ calls[c].op # "session")
    BY <1>3, EndFacts DEF Start, Asks, Enters, Reads, Steps, Asking, Reading, Ended
  <2>2. QED
    BY <2>1, MakesNone
<1>4. ASSUME NEW c \in Calls, NewSession(c) PROVE SessionIsMade'
  <2> DEFINE ask == Line("new_session", c, 0)
  <2>1. Holds(c) /\ (\A d \in Calls \ {c} : calls'[d] = calls[d]) /\ calls[c].step = "waits"
        /\ calls'[c].step = "new_session"
    BY <1>4, StepFacts DEF NewSession, Enters, Steps, Asking
  <2>2. agent'.in = Append(agent.in, ask) /\ agent'.out = agent.out /\ ask \in Lines
        /\ ask.kind = "new_session"
    BY <1>4, WriteFacts, LineFacts DEF NewSession, Kinds
  <2>3. /\ \A i \in DOMAIN agent.in : agent.in[i].of # c
        /\ \A i \in DOMAIN agent.out : agent.out[i].of # c
    BY <2>1 DEF LinesAreOfCalls, HasWritten
  <2>4. /\ DOMAIN agent.in = 1..Len(agent.in) /\ Len(agent.in) \in Nat
        /\ DOMAIN Append(agent.in, ask) = 1..(Len(agent.in) + 1)
        /\ \A i \in DOMAIN agent.in : Append(agent.in, ask)[i] = agent.in[i]
        /\ Append(agent.in, ask)[Len(agent.in) + 1] = ask
        /\ Len(Append(agent.in, ask)) = Len(agent.in) + 1
    <3>1. agent.in \in Seq(Lines)
      BY TypeIs DEF AgentType
    <3>2. QED
      BY <2>2, <3>1, Appended
  <2>5. \A i \in DOMAIN agent'.in : i \in DOMAIN agent.in \/ i = Len(agent.in) + 1
    BY <2>2, <2>4
  <2>6. Asked(c, agent'.in, agent'.out, IsFresh')
    BY <2>2, <2>3, <2>4, <2>5 DEF Asked
  <2>7. QED
    BY <2>1, <2>6, MakesHolder DEF Makes
<1>5. ASSUME NEW c \in Calls, StartSession(c) PROVE SessionIsMade'
  <2> DEFINE ask == Line("get_state", c, 0)
  <2>1. Holds(c) /\ (\A d \in Calls \ {c} : calls'[d] = calls[d]) /\ calls'[c].step = "get_state"
        /\ calls'[c].session = calls[c].session
    BY <1>5, StepFacts DEF StartSession, Enters, Steps, Asking
  <2>2. agent'.in = <<ask>> /\ agent'.out = <<>> /\ agent'.work = Nothing /\ agent'.session = FreshSession
        /\ ask.kind = "get_state" /\ ask.of = c
    BY <1>5, StartedFacts, LineFacts DEF Kinds
  <2>3. IsFresh'
    BY <2>1, <2>2, BecomesFresh
  <2>4. Told(c, agent'.in, agent'.out, IsFresh', agent'.session)
    BY <2>2, <2>3, Empty DEF Told
  <2>5. QED
    BY <2>1, <2>4, MakesHolder DEF Makes
<1>6. ASSUME NEW c \in Calls, State(c) PROVE SessionIsMade'
  <2>1. Holds(c) /\ (\A d \in Calls \ {c} : calls'[d] = calls[d]) /\ calls'[c].op = calls[c].op
        /\ (calls'[c].step \in Asking => calls'[c].step = "get_state" /\ calls[c].op # "session")
    BY <1>6, StepFacts DEF State, Asks, Enters, Reads, Steps, Asking, Reading, Ended
  <2>2. QED
    BY <2>1, MakesNone
<1>7. ASSUME NEW c \in Calls, EndSession(c) PROVE SessionIsMade'
  <2>1. Holds(c) /\ (\A d \in Calls \ {c} : calls'[d] = calls[d]) /\ calls'[c].op = calls[c].op
        /\ (calls'[c].step \in Asking => calls'[c].step = "get_state" /\ calls[c].op # "session")
    BY <1>7, EndFacts DEF EndSession, Asks, Enters, Reads, Steps, Asking, Reading, Ended
  <2>2. QED
    BY <2>1, MakesNone
<1>8. ASSUME NEW c \in Calls, Skip(c) PROVE SessionIsMade'
  <2>1. Holds(c) /\ calls' = calls /\ agent.out # <<>> /\ agent.out \in Seq(Lines) /\ Makes(c)
    BY <1>8, TypeIs, SessionIs DEF Skip, Asks, AgentType
  <2>2. agent'.in = agent.in /\ agent'.out = Tail(agent.out) /\ agent'.session = agent.session
        /\ agent'.work = agent.work
    BY <1>8, <2>1, ReadFacts DEF Skip
  <2>3. IsFresh' <=> IsFresh
    BY <2>1, <2>2 DEF IsFresh
  <2>4. /\ DOMAIN agent.out = 1..Len(agent.out) /\ Len(agent.out) \in Nat
        /\ DOMAIN Tail(agent.out) = 1..(Len(agent.out) - 1)
        /\ \A i \in DOMAIN Tail(agent.out) : i + 1 \in DOMAIN agent.out /\ Tail(agent.out)[i] = agent.out[i + 1]
    BY <2>1, Taken
  <2>5. ASSUME calls[c].step = "new_session" PROVE Asked(c, agent'.in, agent'.out, IsFresh')
    <3>1. Asked(c, agent.in, agent.out, IsFresh)
      BY <2>1, <2>5 DEF Makes
    <3>2. \A i \in DOMAIN Tail(agent.out) : Tail(agent.out)[i].of = c => i = Len(Tail(agent.out))
      BY <2>1, <3>1, AskedTakes DEF Asked
    <3>3. QED
      BY <2>2, <2>3, <2>4, <3>1, <3>2 DEF Asked
  <2>6. ASSUME calls[c].step = "get_state", calls[c].op = "session"
        PROVE  Told(c, agent'.in, agent'.out, IsFresh', agent'.session)
    <3>1. Told(c, agent.in, agent.out, IsFresh, agent.session)
      BY <2>1, <2>6 DEF Makes
    <3>2. \A i \in DOMAIN Tail(agent.out) : FALSE
      <4>1. ASSUME NEW i \in DOMAIN Tail(agent.out) PROVE FALSE
        <5>1. i + 1 = 1
          BY <2>4, <3>1 DEF Told
        <5>2. QED
          BY <2>4, <5>1
      <4>2. QED
        BY <4>1
    <3>3. agent.in = <<>>
      BY <2>1, <3>1 DEF Told
    <3>4. QED
      BY <2>2, <2>3, <3>1, <3>2, <3>3 DEF Told
  <2>7. QED
    BY <2>1, <2>5, <2>6, MakesHolder DEF Makes
<1>9. ASSUME NEW c \in Calls, SessionMade(c) PROVE SessionIsMade'
  <2> DEFINE ask == Line("get_state", c, 0)
  <2>1. Holds(c) /\ (\A d \in Calls \ {c} : calls'[d] = calls[d]) /\ calls'[c].step = "get_state"
        /\ calls'[c].session = calls[c].session
    BY <1>9, StepFacts DEF SessionMade, Asks, Steps, Asking
  <2>2. agent.out # <<>> /\ Head(agent.out).of = c /\ calls[c].step = "new_session"
        /\ agent.out \in Seq(Lines) /\ agent.in \in Seq(Lines)
    BY <1>9, TypeIs DEF SessionMade, Answers, AgentType
  <2>3. Asked(c, agent.in, agent.out, IsFresh)
    BY <2>2, SessionIs DEF Makes
  <2>4. 1 \in DOMAIN agent.out /\ Head(agent.out) = agent.out[1]
    BY <2>2, Taken
  <2>5. agent.in = <<>> /\ IsFresh /\ Tail(agent.out) = <<>>
    BY <2>2, <2>3, <2>4, AskedTakes DEF Asked
  <2>6. ask \in Lines /\ ask.kind = "get_state" /\ ask.of = c /\ agent'.in = Append(agent.in, ask)
        /\ agent'.out = Tail(agent.out) /\ agent'.work = agent.work /\ agent'.session = agent.session
    BY <1>9, MadeFacts, LineFacts DEF Kinds
  <2>7. agent'.in = <<ask>> /\ agent'.out = <<>>
    BY <2>5, <2>6
  <2>8. IsFresh'
    BY <2>1, <2>5, <2>6, StaysFresh DEF IsFresh
  <2>9. Told(c, agent'.in, agent'.out, IsFresh', agent'.session)
    <3>1. ask.kind = "get_state" /\ ask.of = c
      BY <2>6
    <3>2. QED
      BY <2>7, <2>8, <3>1, Empty DEF Told
  <2>10. QED
    BY <2>1, <2>9, MakesHolder DEF Makes
<1>10. ASSUME NEW c \in Calls, StateRead(c) PROVE SessionIsMade'
  <2>1. Holds(c) /\ (\A d \in Calls \ {c} : calls'[d] = calls[d]) /\ calls'[c].op = calls[c].op
        /\ (calls'[c].step \in Asking => calls'[c].step = "get_state" /\ calls[c].op # "session")
    BY <1>10, TypeIs DEF StateRead, Asks, Enters, Reads, Steps, Asking, Reading, Ended, CallType
  <2>2. QED
    BY <2>1, MakesNone
<1>11. ASSUME NEW c \in Calls, AskEnds(c) PROVE SessionIsMade'
  <2>1. Holds(c) /\ (\A d \in Calls \ {c} : calls'[d] = calls[d]) /\ calls'[c].op = calls[c].op
        /\ (calls'[c].step \in Asking => calls'[c].step = "get_state" /\ calls[c].op # "session")
    BY <1>11, EndFacts DEF AskEnds, Asks, Enters, Reads, Steps, Asking, Reading, Ended
  <2>2. QED
    BY <2>1, MakesNone
<1>12. ASSUME NEW c \in Calls, Prompt(c) PROVE SessionIsMade'
  <2>1. Holds(c) /\ (\A d \in Calls \ {c} : calls'[d] = calls[d]) /\ calls'[c].op = calls[c].op
        /\ (calls'[c].step \in Asking => calls'[c].step = "get_state" /\ calls[c].op # "session")
    BY <1>12, StepFacts DEF Prompt, Asks, Enters, Reads, Steps, Asking, Reading, Ended
  <2>2. QED
    BY <2>1, MakesNone
<1>13. ASSUME NEW c \in Calls, ReadLine(c) PROVE SessionIsMade'
  <2>1. Holds(c) /\ (\A d \in Calls \ {c} : calls'[d] = calls[d]) /\ calls'[c].op = calls[c].op
        /\ (calls'[c].step \in Asking => calls'[c].step = "get_state" /\ calls[c].op # "session")
    BY <1>13, LineRead DEF ReadLine, Asks, Enters, Reads, Steps, Asking, Reading, Ended
  <2>2. QED
    BY <2>1, MakesNone
<1>14. ASSUME NEW c \in Calls, SendLine(c) PROVE SessionIsMade'
  <2>1. Holds(c) /\ calls[c].step \in Reading
    BY <1>14 DEF SendLine, Reads, Reading
  <2>2. (\A d \in Calls \ {c} : calls'[d] = calls[d]) /\ calls'[c].step \in {"done", calls[c].step}
    BY <1>14, SendFacts
  <2>3. calls'[c].step \notin Asking
    BY <2>1, <2>2 DEF Asking, Reading
  <2>4. QED
    BY <2>1, <2>2, <2>3, MakesNone
<1>15. ASSUME NEW c \in Calls, ReplyEnds(c) PROVE SessionIsMade'
  <2>1. Holds(c) /\ (\A d \in Calls \ {c} : calls'[d] = calls[d]) /\ calls'[c].op = calls[c].op
        /\ (calls'[c].step \in Asking => calls'[c].step = "get_state" /\ calls[c].op # "session")
    BY <1>15, EndFacts DEF ReplyEnds, Asks, Enters, Reads, Steps, Asking, Reading, Ended
  <2>2. QED
    BY <2>1, MakesNone
<1>16. ASSUME NEW c \in Calls, Cancelled(c) PROVE SessionIsMade'
  <2>1. Holds(c) /\ (\A d \in Calls \ {c} : calls'[d] = calls[d]) /\ calls'[c].op = calls[c].op
        /\ (calls'[c].step \in Asking => calls'[c].step = "get_state" /\ calls[c].op # "session")
    BY <1>16, CancelFacts DEF Cancelled, Asks, Enters, Reads, Steps, Asking, Reading, Ended
  <2>2. QED
    BY <2>1, MakesNone
<1>17. ASSUME NEW c \in Calls, ClientTakes(c) PROVE SessionIsMade'
  <2>1. (\A d \in Calls \ {c} : calls'[d] = calls[d]) /\ calls'[c].session = calls[c].session
        /\ calls'[c].step = calls[c].step /\ calls'[c].op = calls[c].op
    BY <1>17, TypeIs DEF ClientTakes, Steps, Asking, CallType
  <2>2. agent' = agent
    BY <1>17 DEF ClientTakes
  <2>3. QED
    BY <2>1, <2>2, MakesFrame
<1>18. ASSUME PiReads PROVE SessionIsMade'
  <2>1. PICK l \in Lines : PiTakes(l)
    BY <1>18, TakesFacts
  <2> DEFINE answer == Line(l.kind, l.of, IF l.kind = "get_state" THEN agent.session ELSE 0)
             last == Line("settled", agent.work, 0)
             rest == Tail(agent.in)
  <2>2. agent.in \in Seq(Lines) /\ agent.out \in Seq(Lines) /\ agent.work \in Calls \cup {Nothing}
        /\ agent.in # <<>> /\ l = Head(agent.in) /\ agent'.in = rest /\ answer \in Lines
        /\ rest \in Seq(Lines) /\ l = agent.in[1] /\ 1 \in DOMAIN agent.in /\ calls' = calls
    BY <1>18, <2>1, TypeIs, Taken DEF AgentType, PiTakes, PiReads
  <2>3. answer.kind = l.kind /\ answer.of = l.of
    BY DEF Line
  <2>4. ASSUME NEW c \in Calls, calls[c].step = "new_session"
        PROVE  Asked(c, agent'.in, agent'.out, IsFresh')
    <3>1. Asked(c, agent.in, agent.out, IsFresh)
      BY <2>4, SessionIs DEF Makes
    <3>2. \A i \in DOMAIN agent.out : agent.out[i].of # c
      BY <2>2, <3>1 DEF Asked
    <3>3. /\ \A i \in DOMAIN rest : rest[i].of = c => i = Len(rest)
          /\ l.of = c => rest = <<>> /\ l.kind = "new_session"
      BY <2>2, <3>1, AskedTakes DEF Asked
    <3>4. \A i \in DOMAIN rest : rest[i].of = c => rest[i].kind = "new_session"
      BY <2>2, <3>1, Taken DEF Asked
    <3>5. agent.work # c
      BY <2>4, NothingAssumption DEF LinesAreOfCalls, StepsFit, Calls
    <3>6. agent.work # Nothing => /\ last \in Lines /\ last.of # c /\ Append(agent.out, last) \in Seq(Lines)
                                  /\ \A i \in DOMAIN Append(agent.out, last) : Append(agent.out, last)[i].of # c
      <4>1. ASSUME agent.work # Nothing PROVE last \in Lines /\ last.of # c
        BY <2>2, <3>5, <4>1, LineFacts DEF Kinds
      <4>2. QED
        BY <2>2, <3>2, <4>1, AskedPrints, Appended
    <3>7. PICK before \in Seq(Lines) : /\ agent'.out = Append(before, answer)
                                       /\ \A i \in DOMAIN before : before[i].of # c
      <4>1. \/ agent'.out = Append(agent.out, answer)
            \/ agent.work # Nothing /\ agent'.out = Append(Append(agent.out, last), answer)
        BY <2>1 DEF PiTakes
      <4>2. QED
        BY <2>2, <3>2, <3>6, <4>1
    <3>8. CASE l.of = c
      <4>1. agent'.in = <<>> /\ l.kind = "new_session"
        BY <2>2, <3>3, <3>8
      <4>2. IsFresh'
        BY <2>1, <2>2, <4>1, BecomesFresh DEF PiTakes
      <4>3. \A i \in DOMAIN agent'.out : agent'.out[i].of = c => i = Len(agent'.out)
        <5>1. /\ DOMAIN before = 1..Len(before) /\ Len(before) \in Nat
              /\ DOMAIN Append(before, answer) = 1..(Len(before) + 1)
              /\ Len(Append(before, answer)) = Len(before) + 1
              /\ \A i \in DOMAIN before : Append(before, answer)[i] = before[i]
          BY <2>2, Appended
        <5>2. \A i \in DOMAIN Append(before, answer) : i \in DOMAIN before \/ i = Len(before) + 1
          BY <5>1
        <5>3. QED
          BY <3>7, <5>1, <5>2
      <4>4. QED
        BY <4>1, <4>2, <4>3, Empty DEF Asked
    <3>9. CASE l.of # c
      <4>1. \A i \in DOMAIN Append(before, answer) : Append(before, answer)[i].of # c
        BY <2>2, <2>3, <3>7, <3>9, AskedPrints
      <4>2. QED
        BY <2>2, <3>3, <3>4, <3>7, <4>1 DEF Asked
    <3>10. QED
      BY <3>8, <3>9
  <2>5. ASSUME NEW c \in Calls, calls[c].step = "get_state", calls[c].op = "session"
        PROVE  Told(c, agent'.in, agent'.out, IsFresh', agent'.session)
    <3>1. Told(c, agent.in, agent.out, IsFresh, agent.session)
      BY <2>5, SessionIs DEF Makes
    <3>2. l.kind = "get_state" /\ agent.out = <<>>
      BY <2>2, <3>1 DEF Told
    <3>3. agent'.work = agent.work /\ agent'.session = agent.session /\ agent'.out = Append(<<>>, answer)
      BY <2>1, <3>2 DEF PiTakes
    <3>4. rest = <<>>
      <4>1. \A i \in DOMAIN agent.in : i = 1
        BY <3>1 DEF Told
      <4>2. QED
        BY <2>2, <4>1, OneLine
    <3>5. IsFresh'
      BY <2>2, <3>1, <3>3, StaysFresh DEF Told, IsFresh
    <3>6. agent'.out = <<answer>>
      BY <3>3
    <3>7. answer.session = agent.session
      BY <3>2 DEF Line
    <3>8. QED
      BY <2>2, <2>3, <3>2, <3>3, <3>4, <3>5, <3>6, <3>7, Empty DEF Told
  <2>6. QED
    BY <2>2, <2>4, <2>5, SessionNext DEF Makes
<1>19. ASSUME PiReplies PROVE SessionIsMade'
  <2>1. agent.work \in Calls /\ agent.work # Nothing /\ agent.out \in Seq(Lines)
        /\ agent'.in = agent.in /\ calls' = calls /\ agent.in \in Seq(Lines)
    BY <1>19, RepliesFacts, TypeIs DEF AgentType, PiReplies
  <2> DEFINE event == Line("event", agent.work, 0)
             last == Line("settled", agent.work, 0)
  <2>2. event \in Lines /\ last \in Lines /\ agent'.out = Append(Append(agent.out, event), last)
    BY <1>19, RepliesFacts
  <2>3. event.of = agent.work /\ last.of = agent.work /\ Append(agent.out, event) \in Seq(Lines)
    BY <2>1, <2>2, LineFacts, Appended DEF Kinds
  <2>4. ASSUME NEW c \in Calls, calls[c].step = "new_session"
        PROVE  Asked(c, agent'.in, agent'.out, IsFresh')
    <3>1. Asked(c, agent.in, agent.out, IsFresh)
      BY <2>4, SessionIs DEF Makes
    <3>2. \A i \in DOMAIN agent.out : agent.out[i].of # c
      BY <2>1, <3>1 DEF Asked, IsFresh
    <3>3. agent.work # c
      BY <2>1, <2>4 DEF LinesAreOfCalls, StepsFit
    <3>4. \A i \in DOMAIN agent'.out : agent'.out[i].of # c
      <4>1. \A i \in DOMAIN Append(agent.out, event) : Append(agent.out, event)[i].of # c
        BY <2>1, <2>2, <2>3, <3>2, <3>3, AskedPrints
      <4>2. QED
        BY <2>1, <2>2, <2>3, <3>3, <4>1, AskedPrints
    <3>5. QED
      BY <2>1, <3>1, <3>4 DEF Asked
  <2>5. \A c \in Calls : ~(calls[c].step = "get_state" /\ calls[c].op = "session")
    BY <2>1, SessionIs DEF Makes, Told, IsFresh
  <2>6. QED
    BY <2>1, <2>4, <2>5, SessionNext DEF Makes
<1>20. ASSUME PiPrintsJunk PROVE SessionIsMade'
  <2>1. agent.work \in Calls /\ agent.work # Nothing /\ agent.out \in Seq(Lines)
        /\ agent'.in = agent.in /\ calls' = calls /\ agent.in \in Seq(Lines)
    BY <1>20, JunkFacts, TypeIs DEF AgentType, PiPrintsJunk
  <2> DEFINE junk == Line("junk", agent.work, 0)
  <2>2. junk \in Lines /\ agent'.out = Append(agent.out, junk)
    BY <1>20, JunkFacts
  <2>3. junk.of = agent.work
    BY <2>1, LineFacts DEF Kinds
  <2>4. ASSUME NEW c \in Calls, calls[c].step = "new_session"
        PROVE  Asked(c, agent'.in, agent'.out, IsFresh')
    <3>1. Asked(c, agent.in, agent.out, IsFresh)
      BY <2>4, SessionIs DEF Makes
    <3>2. \A i \in DOMAIN agent.out : agent.out[i].of # c
      BY <2>1, <3>1 DEF Asked, IsFresh
    <3>3. agent.work # c
      BY <2>1, <2>4 DEF LinesAreOfCalls, StepsFit
    <3>4. \A i \in DOMAIN agent'.out : agent'.out[i].of # c
      BY <2>1, <2>2, <2>3, <3>2, <3>3, AskedPrints
    <3>5. QED
      BY <2>1, <3>1, <3>4 DEF Asked
  <2>5. \A c \in Calls : ~(calls[c].step = "get_state" /\ calls[c].op = "session")
    BY <2>1, SessionIs DEF Makes, Told, IsFresh
  <2>6. QED
    BY <2>1, <2>4, <2>5, SessionNext DEF Makes
<1>21. ASSUME PiDies PROVE SessionIsMade'
  <2>1. agent'.in = <<>> /\ agent'.out = agent.out /\ agent'.work = Nothing
        /\ agent'.session = agent.session /\ calls' = calls
    BY <1>21, TypeIs DEF PiDies, AgentType
  <2>2. IsFresh => IsFresh'
    BY <2>1 DEF IsFresh
  <2>3. \A c \in Calls : Makes(c)'
    BY <2>1, <2>2, SessionIs, Empty DEF Makes, Asked, Told
  <2>4. QED
    BY <2>3, SessionNext
<1>22. ASSUME Pick PROVE SessionIsMade'
  BY <1>22, MakesFrame DEF Pick
<1>23. ASSUME NEW c \in Calls, StartFails(c) PROVE SessionIsMade'
  <2>1. Holds(c) /\ (\A d \in Calls \ {c} : calls'[d] = calls[d]) /\ calls'[c].op = calls[c].op
        /\ (calls'[c].step \in Asking => calls'[c].step = "get_state" /\ calls[c].op # "session")
    BY <1>23, EndFacts DEF StartFails, Asks, Enters, Reads, Steps, Asking, Reading, Ended
  <2>2. QED
    BY <2>1, MakesNone
<1>24. ASSUME NEW c \in Calls, AskTimesOut(c) PROVE SessionIsMade'
  <2>1. Holds(c) /\ (\A d \in Calls \ {c} : calls'[d] = calls[d]) /\ calls'[c].op = calls[c].op
        /\ (calls'[c].step \in Asking => calls'[c].step = "get_state" /\ calls[c].op # "session")
    BY <1>24, EndFacts DEF AskTimesOut, Asks, Enters, Reads, Steps, Asking, Reading, Ended
  <2>2. QED
    BY <2>1, MakesNone
<1>25. ASSUME NEW c \in Calls, ClientLeaves(c) PROVE SessionIsMade'
  <2>1. (\A d \in Calls \ {c} : calls'[d] = calls[d]) /\ calls'[c].session = calls[c].session
        /\ calls'[c].step = calls[c].step /\ calls'[c].op = calls[c].op
    BY <1>25, TypeIs DEF ClientLeaves, Steps, Asking, CallType
  <2>2. agent' = agent
    BY <1>25 DEF ClientLeaves
  <2>3. QED
    BY <2>1, <2>2, MakesFrame
<1>26. ASSUME NEW c \in Calls, NEW op \in Ops, Call(c, op) PROVE SessionIsMade'
  <2>1. (\A d \in Calls \ {c} : calls'[d] = calls[d]) /\ calls'[c].session = calls[c].session
        /\ calls'[c].step \notin Asking
    BY <1>26, TypeIs DEF Call, Steps, Asking, CallType, NoCall
  <2>2. agent' = agent
    BY <1>26 DEF Call
  <2>3. QED
    BY <2>1, <2>2, MakesFrame
<1>27. ASSUME UNCHANGED vars PROVE SessionIsMade'
  BY <1>27, MakesFrame DEF vars
<1>28. QED
  BY <1>1, <1>2, <1>3, <1>4, <1>5, <1>6, <1>7, <1>8, <1>9, <1>10, <1>11,
     <1>12, <1>13, <1>14, <1>15, <1>16, <1>17, <1>18, <1>19, <1>20,
     <1>21, <1>22, <1>23, <1>24, <1>25, <1>26, <1>27 DEF Next, Handles, Environment

-----------------------------------------------------------------------------
(* The theorems.                                                           *)

\* At first there is no Pi, and no request.
LEMMA InitInv == Init => AgentInv
<1> SUFFICES ASSUME Init PROVE AgentInv
  OBVIOUS
<1>1. agent = NoAgent /\ agent.up = "none" /\ agent.in = <<>> /\ agent.out = <<>> /\ agent.work = Nothing
  BY DEF Init, NoAgent
<1>2. \A c \in Calls : calls[c] = NoCall
  BY DEF Init
<1>3. /\ NoCall.step = "none" /\ NoCall.held = <<>> /\ NoCall.chan = <<>>
  BY DEF NoCall
<1>4. queue = <<>> /\ queue \in Seq(Calls) /\ DOMAIN queue = {}
  BY DEF Init
<1>5. TypeOK
  <2>1. NoAgent \in AgentType
    BY Empty DEF NoAgent, AgentType
  <2>2. NoCall \in CallType
    BY Empty DEF NoCall, CallType, Steps
  <2>3. QED
    BY <1>4, <2>1, <2>2, TypeIs, FaultsAssumption DEF Init
<1>6. ModelIsThePis /\ InputNeedsPi
  BY <1>1 DEF ModelIsThePis, InputNeedsPi
<1>7. OneAtATime
  BY <1>2, <1>3, <1>4 DEF OneAtATime, Asking, Reading, Ended
<1>8. StepsFit
  BY <1>2, <1>3 DEF StepsFit, Asking, Reading
<1>9. LinesAreOfCalls
  BY <1>1, Empty DEF LinesAreOfCalls
<1>10. ReplyIsRead
  BY <1>1, <1>2, <1>3, Empty DEF ReplyIsRead
<1>11. SessionIsMade
  BY <1>2, <1>3 DEF SessionIsMade
<1>12. QED
  BY <1>5, <1>6, <1>7, <1>8, <1>9, <1>10, <1>11 DEF AgentInv

\* Every step keeps the invariant.
LEMMA InvStep == AgentInv /\ [Next]_vars => AgentInv'
<1> SUFFICES ASSUME AgentInv, [Next]_vars PROVE AgentInv'
  OBVIOUS
<1>1. TypeOK' /\ StepsFit' /\ LinesAreOfCalls' /\ OneAtATime'
  BY TypeStep, FitKeeps, LinesKeep, TurnKeeps DEF AgentInv
<1>2. ModelIsThePis' /\ InputNeedsPi' /\ SessionIsMade'
  BY NameKeeps, InputKeeps, SessionKeeps DEF AgentInv
<1>3. ReplyIsRead'
  BY <1>1, ReplyKeeps DEF AgentInv
<1>4. QED
  BY <1>1, <1>2, <1>3 DEF AgentInv

\* The mutex, the pipes, Pi and the calls agree, always.
THEOREM InvHolds == Spec => []AgentInv
<1>1. QED
  BY InitInv, InvStep, PTL DEF Spec

\* The types.
THEOREM TypeCorrect == Spec => []TypeOK
<1>1. AgentInv => TypeOK
  BY DEF AgentInv
<1>2. QED
  BY <1>1, InvHolds, PTL

\* What a client is sent of a reply is of the reply to its own prompt
\* (read_from_pi), while none before it was given up at a line that did not parse.
THEOREM OwnReplyHolds == Spec => []OwnReply
<1>1. AgentInv => OwnReply
  <2>1. SUFFICES ASSUME AgentInv PROVE OwnReply
    OBVIOUS
  <2>2. QED
    BY <2>1 DEF AgentInv, ReplyIsRead, OwnReply, OfReply
<1>2. QED
  BY <1>1, InvHolds, PTL

\* Only the answer about its state ends a session request well.
LEMMA OnlyStateRead ==
    ASSUME AgentInv, NEW s \in Calls,
           calls[s].op = "session", calls[s].step # "done", calls'[s].step = "done", [Next]_vars
    PROVE  StateRead(s)
<1>1. ASSUME NEW c \in Calls, Lock(c) PROVE StateRead(s)
  <2>1. (\A d \in Calls \ {c} : calls'[d] = calls[d])
        /\ (calls'[c].step # "done" \/ calls[c].op # "session")
    BY <1>1, StepFacts DEF Lock, Asks, Enters, Reads, Steps, Asking, Reading, Ended, AgentInv
  <2>2. QED
    BY <2>1
<1>2. ASSUME NEW c \in Calls, NoAgentToUse(c) PROVE StateRead(s)
  <2>1. (\A d \in Calls \ {c} : calls'[d] = calls[d])
        /\ (calls'[c].step # "done" \/ calls[c].op # "session")
    BY <1>2, EndFacts DEF NoAgentToUse, Asks, Enters, Reads, Steps, Asking, Reading, Ended, AgentInv, Holds
  <2>2. QED
    BY <2>1
<1>3. ASSUME NEW c \in Calls, Start(c) PROVE StateRead(s)
  <2>1. (\A d \in Calls \ {c} : calls'[d] = calls[d])
        /\ (calls'[c].step # "done" \/ calls[c].op # "session")
    BY <1>3, EndFacts DEF Start, Asks, Enters, Reads, Steps, Asking, Reading, Ended, AgentInv, Holds
  <2>2. QED
    BY <2>1
<1>4. ASSUME NEW c \in Calls, NewSession(c) PROVE StateRead(s)
  <2>1. (\A d \in Calls \ {c} : calls'[d] = calls[d])
        /\ (calls'[c].step # "done" \/ calls[c].op # "session")
    BY <1>4, StepFacts DEF NewSession, Asks, Enters, Reads, Steps, Asking, Reading, Ended, AgentInv
  <2>2. QED
    BY <2>1
<1>5. ASSUME NEW c \in Calls, StartSession(c) PROVE StateRead(s)
  <2>1. (\A d \in Calls \ {c} : calls'[d] = calls[d])
        /\ (calls'[c].step # "done" \/ calls[c].op # "session")
    BY <1>5, StepFacts DEF StartSession, Asks, Enters, Reads, Steps, Asking, Reading, Ended, AgentInv
  <2>2. QED
    BY <2>1
<1>6. ASSUME NEW c \in Calls, State(c) PROVE StateRead(s)
  <2>1. (\A d \in Calls \ {c} : calls'[d] = calls[d])
        /\ (calls'[c].step # "done" \/ calls[c].op # "session")
    BY <1>6, StepFacts DEF State, Asks, Enters, Reads, Steps, Asking, Reading, Ended, AgentInv
  <2>2. QED
    BY <2>1
<1>7. ASSUME NEW c \in Calls, EndSession(c) PROVE StateRead(s)
  <2>1. (\A d \in Calls \ {c} : calls'[d] = calls[d])
        /\ (calls'[c].step # "done" \/ calls[c].op # "session")
    BY <1>7, EndFacts DEF EndSession, Asks, Enters, Reads, Steps, Asking, Reading, Ended, AgentInv, Holds
  <2>2. QED
    BY <2>1
<1>8. ASSUME NEW c \in Calls, Skip(c) PROVE StateRead(s)
  BY <1>8 DEF Skip
<1>9. ASSUME NEW c \in Calls, SessionMade(c) PROVE StateRead(s)
  <2>1. (\A d \in Calls \ {c} : calls'[d] = calls[d])
        /\ (calls'[c].step # "done" \/ calls[c].op # "session")
    BY <1>9, StepFacts DEF SessionMade, Asks, Enters, Reads, Steps, Asking, Reading, Ended, AgentInv
  <2>2. QED
    BY <2>1
<1>10. ASSUME NEW c \in Calls, StateRead(c) PROVE StateRead(s)
  <2>1. \A d \in Calls \ {c} : calls'[d] = calls[d]
    BY <1>10, TypeIs DEF StateRead, AgentInv
  <2>2. QED
    BY <1>10, <2>1
<1>11. ASSUME NEW c \in Calls, AskEnds(c) PROVE StateRead(s)
  <2>1. (\A d \in Calls \ {c} : calls'[d] = calls[d])
        /\ (calls'[c].step # "done" \/ calls[c].op # "session")
    BY <1>11, EndFacts DEF AskEnds, Asks, Enters, Reads, Steps, Asking, Reading, Ended, AgentInv, Holds
  <2>2. QED
    BY <2>1
<1>12. ASSUME NEW c \in Calls, Prompt(c) PROVE StateRead(s)
  <2>1. (\A d \in Calls \ {c} : calls'[d] = calls[d])
        /\ (calls'[c].step # "done" \/ calls[c].op # "session")
    BY <1>12, StepFacts DEF Prompt, Asks, Enters, Reads, Steps, Asking, Reading, Ended, AgentInv
  <2>2. QED
    BY <2>1
<1>13. ASSUME NEW c \in Calls, ReadLine(c) PROVE StateRead(s)
  <2>1. (\A d \in Calls \ {c} : calls'[d] = calls[d])
        /\ (calls'[c].step # "done" \/ calls[c].op # "session")
    BY <1>13, LineRead DEF ReadLine, Asks, Enters, Reads, Steps, Asking, Reading, Ended, AgentInv, StepsFit
  <2>2. QED
    BY <2>1
<1>14. ASSUME NEW c \in Calls, SendLine(c) PROVE StateRead(s)
  <2>1. (\A d \in Calls \ {c} : calls'[d] = calls[d])
        /\ (calls'[c].step # "done" \/ calls[c].op # "session")
    BY <1>14, SendFacts DEF SendLine, Asks, Enters, Reads, Steps, Asking, Reading, Ended, AgentInv, StepsFit
  <2>2. QED
    BY <2>1
<1>15. ASSUME NEW c \in Calls, ReplyEnds(c) PROVE StateRead(s)
  <2>1. (\A d \in Calls \ {c} : calls'[d] = calls[d])
        /\ (calls'[c].step # "done" \/ calls[c].op # "session")
    BY <1>15, EndFacts DEF ReplyEnds, Asks, Enters, Reads, Steps, Asking, Reading, Ended, AgentInv, Holds, StepsFit
  <2>2. QED
    BY <2>1
<1>16. ASSUME NEW c \in Calls, Cancelled(c) PROVE StateRead(s)
  <2>1. (\A d \in Calls \ {c} : calls'[d] = calls[d])
        /\ (calls'[c].step # "done" \/ calls[c].op # "session")
    BY <1>16, CancelFacts DEF Cancelled, Asks, Enters, Reads, Steps, Asking, Reading, Ended, AgentInv
  <2>2. QED
    BY <2>1
<1>17. ASSUME NEW c \in Calls, ClientTakes(c) PROVE StateRead(s)
  <2>1. (\A d \in Calls \ {c} : calls'[d] = calls[d]) /\ calls'[c].step = calls[c].step
    BY <1>17, TypeIs DEF ClientTakes, CallType, AgentInv
  <2>2. QED
    BY <2>1
<1>18. ASSUME PiReads PROVE StateRead(s)
  BY <1>18 DEF PiReads
<1>19. ASSUME PiReplies PROVE StateRead(s)
  BY <1>19 DEF PiReplies
<1>20. ASSUME PiPrintsJunk PROVE StateRead(s)
  BY <1>20 DEF PiPrintsJunk
<1>21. ASSUME PiDies PROVE StateRead(s)
  BY <1>21 DEF PiDies
<1>22. ASSUME Pick PROVE StateRead(s)
  BY <1>22 DEF Pick
<1>23. ASSUME NEW c \in Calls, StartFails(c) PROVE StateRead(s)
  <2>1. (\A d \in Calls \ {c} : calls'[d] = calls[d])
        /\ (calls'[c].step # "done" \/ calls[c].op # "session")
    BY <1>23, EndFacts DEF StartFails, Asks, Enters, Reads, Steps, Asking, Reading, Ended, AgentInv, Holds
  <2>2. QED
    BY <2>1
<1>24. ASSUME NEW c \in Calls, AskTimesOut(c) PROVE StateRead(s)
  <2>1. (\A d \in Calls \ {c} : calls'[d] = calls[d])
        /\ (calls'[c].step # "done" \/ calls[c].op # "session")
    BY <1>24, EndFacts DEF AskTimesOut, Asks, Enters, Reads, Steps, Asking, Reading, Ended, AgentInv, Holds
  <2>2. QED
    BY <2>1
<1>25. ASSUME NEW c \in Calls, ClientLeaves(c) PROVE StateRead(s)
  <2>1. (\A d \in Calls \ {c} : calls'[d] = calls[d]) /\ calls'[c].step = calls[c].step
    BY <1>25, TypeIs DEF ClientLeaves, CallType, AgentInv
  <2>2. QED
    BY <2>1
<1>26. ASSUME NEW c \in Calls, NEW op \in Ops, Call(c, op) PROVE StateRead(s)
  <2>1. (\A d \in Calls \ {c} : calls'[d] = calls[d])
        /\ (calls'[c].step # "done" \/ calls[c].op # "session")
    BY <1>26, TypeIs DEF Call, Asks, Enters, Reads, Steps, Asking, Reading, Ended, AgentInv, CallType, NoCall
  <2>2. QED
    BY <2>1
<1>27. ASSUME UNCHANGED vars PROVE StateRead(s)
  BY <1>27 DEF vars
<1>28. QED
  BY <1>1, <1>2, <1>3, <1>4, <1>5, <1>6, <1>7, <1>8, <1>9, <1>10, <1>11,
     <1>12, <1>13, <1>14, <1>15, <1>16, <1>17, <1>18, <1>19, <1>20,
     <1>21, <1>22, <1>23, <1>24, <1>25, <1>26, <1>27 DEF Next, Handles, Environment

\* A session that is handed out is the one Pi is in, made for this call alone
\* (do_create_session), with nothing of an older reply before its prompts.
THEOREM SessionIsNewHolds == Spec => SessionIsNew
<1> DEFINE New(c) == /\ calls'[c].session = agent.session
                     /\ \A d \in Calls \ {c} : calls[d].session # agent.session
                     /\ agent'.work = Nothing
                     /\ \A i \in DOMAIN agent'.out :
                          agent'.out[i].kind \notin {"event", "settled", "junk"}
           P == \A c \in Calls :
                  (calls[c].op = "session" /\ calls[c].step # "done" /\ calls'[c].step = "done") => New(c)
<1>1. ASSUME AgentInv, [Next]_vars PROVE P
  <2> SUFFICES ASSUME NEW c \in Calls, calls[c].op = "session", calls[c].step # "done",
                      calls'[c].step = "done"
               PROVE  New(c)
    OBVIOUS
  <2>1. StateRead(c)
    BY <1>1, OnlyStateRead
  <2>2. TypeOK /\ Told(c, agent.in, agent.out, IsFresh, agent.session)
    BY <1>1, <2>1, SessionIs DEF AgentInv, StateRead, Makes
  <2>3. agent.out # <<>> /\ agent.out \in Seq(Lines)
        /\ calls'[c].session = Head(agent.out).session
    BY <2>1, <2>2, TypeIs DEF StateRead, AgentType, CallType
  <2>4. Head(agent.out) = agent.out[1] /\ 1 \in DOMAIN agent.out
    BY <2>3, Taken
  <2>5. calls'[c].session = agent.session
    BY <2>2, <2>3, <2>4 DEF Told
  <2>6. agent'.work = agent.work /\ agent'.out = Tail(agent.out)
    BY <2>1, <2>2, <2>3, ReadFacts DEF StateRead
  <2>7. agent'.out = <<>>
    BY <2>2, <2>3, <2>6, OneLine DEF Told
  <2>8. agent'.work = Nothing /\ \A d \in Calls : calls[d].session # agent.session
    BY <2>2, <2>6 DEF Told, IsFresh
  <2>9. QED
    BY <2>5, <2>7, <2>8, Empty
<1>2. AgentInv /\ [Next]_vars => [P]_vars
  BY <1>1
<1>3. QED
  BY <1>2, InvHolds, PTL DEF Spec, SessionIsNew

-------------------------------------------------------------------------------
(* The REPL and its Pi. *)

USE ReplAssumption

-------------------------------------------------------------------------------
(* Pi's pipes: a line is added at the end and taken at the front. *)

LEMMA PipeAdds ==
    ASSUME NEW T, NEW s \in Seq(T), NEW x \in T
    PROVE  /\ Append(s, x) \in Seq(T)
           /\ DOMAIN s = 1..Len(s) /\ Len(s) \in Nat
           /\ DOMAIN Append(s, x) = 1..(Len(s) + 1)
           /\ \A i \in DOMAIN s : Append(s, x)[i] = s[i]
           /\ Append(s, x)[Len(s) + 1] = x
OBVIOUS

LEMMA PipeTakes ==
    ASSUME NEW T, NEW s \in Seq(T), s # <<>>
    PROVE  /\ Head(s) \in T /\ Head(s) = s[1] /\ 1 \in DOMAIN s
           /\ Tail(s) \in Seq(T)
           /\ DOMAIN s = 1..Len(s) /\ Len(s) \in Nat \ {0}
           /\ DOMAIN Tail(s) = 1..(Len(s) - 1)
           /\ \A i \in DOMAIN Tail(s) : i + 1 \in DOMAIN s /\ Tail(s)[i] = s[i + 1]
OBVIOUS

LEMMA AddsOne ==
    ASSUME NEW T, NEW s \in Seq(T), NEW x \in T, NEW K
    PROVE  /\ Append(s, x) \in Seq(T)
           /\ \A i \in DOMAIN Append(s, x) :
                 \/ i \in DOMAIN s /\ Append(s, x)[i] = s[i]
                 \/ Append(s, x)[i] = x
           /\ Without(s, K) /\ x.kind \notin K => Without(Append(s, x), K)
           /\ AtMostOne(s, K) /\ x.kind \notin K => AtMostOne(Append(s, x), K)
           /\ Without(s, K) => AtMostOne(Append(s, x), K)
<1>1. /\ Append(s, x) \in Seq(T)
      /\ DOMAIN s = 1..Len(s) /\ Len(s) \in Nat
      /\ DOMAIN Append(s, x) = 1..(Len(s) + 1)
      /\ \A i \in DOMAIN s : Append(s, x)[i] = s[i]
      /\ Append(s, x)[Len(s) + 1] = x
  BY PipeAdds
<1> DEFINE t == Append(s, x)
<1>2. /\ \A i \in DOMAIN t : (i \in DOMAIN s /\ t[i] = s[i]) \/ (i = Len(s) + 1 /\ t[i] = x)
  BY <1>1
<1> HIDE DEF t
<1>3. Without(s, K) /\ x.kind \notin K => Without(t, K)
  BY <1>2 DEF Without
<1>4. AtMostOne(s, K) /\ x.kind \notin K => AtMostOne(t, K)
  BY <1>2 DEF AtMostOne
<1>5. Without(s, K) => AtMostOne(t, K)
  BY <1>2 DEF AtMostOne, Without
<1> QED
  BY <1>1, <1>2, <1>3, <1>4, <1>5 DEF t

LEMMA TakesOne ==
    ASSUME NEW T, NEW s \in Seq(T), s # <<>>, NEW K
    PROVE  /\ Head(s) \in T /\ Tail(s) \in Seq(T)
           /\ 1 \in DOMAIN s /\ Head(s) = s[1]
           /\ \A i \in DOMAIN Tail(s) : i + 1 \in DOMAIN s /\ Tail(s)[i] = s[i + 1]
           /\ Without(s, K) => Head(s).kind \notin K /\ Without(Tail(s), K)
           /\ AtMostOne(s, K) => AtMostOne(Tail(s), K)
           /\ AtMostOne(s, K) /\ Head(s).kind \in K => Without(Tail(s), K)
<1>1. /\ Head(s) \in T /\ Head(s) = s[1] /\ 1 \in DOMAIN s
      /\ Tail(s) \in Seq(T)
      /\ DOMAIN s = 1..Len(s) /\ Len(s) \in Nat \ {0}
      /\ DOMAIN Tail(s) = 1..(Len(s) - 1)
      /\ \A i \in DOMAIN Tail(s) : i + 1 \in DOMAIN s /\ Tail(s)[i] = s[i + 1]
  BY PipeTakes
<1> DEFINE t == Tail(s)
<1>2. \A i \in DOMAIN t : i \in Nat \ {0} /\ i + 1 \in DOMAIN s /\ t[i] = s[i + 1]
  BY <1>1
<1> HIDE DEF t
<1>3. Without(s, K) => s[1].kind \notin K /\ Without(t, K)
  BY <1>1, <1>2 DEF Without
<1>4. AtMostOne(s, K) => AtMostOne(t, K)
  <2> SUFFICES ASSUME AtMostOne(s, K), NEW i \in DOMAIN t, NEW j \in DOMAIN t,
                      t[i].kind \in K, t[j].kind \in K
               PROVE  i = j
    BY DEF AtMostOne
  <2>1. i + 1 = j + 1
    BY <1>2 DEF AtMostOne
  <2> QED
    BY <1>2, <2>1
<1>5. AtMostOne(s, K) /\ s[1].kind \in K => Without(t, K)
  <2> SUFFICES ASSUME AtMostOne(s, K), s[1].kind \in K, NEW i \in DOMAIN t, t[i].kind \in K
               PROVE  FALSE
    BY DEF Without
  <2>1. i + 1 = 1
    BY <1>1, <1>2 DEF AtMostOne
  <2> QED
    BY <1>2, <2>1
<1> QED
  BY <1>1, <1>2, <1>3, <1>4, <1>5 DEF t

LEMMA NoLines ==
    /\ \A T : <<>> \in Seq(T)
    /\ \A K : Without(<<>>, K) /\ AtMostOne(<<>>, K)
    /\ DOMAIN <<>> = {}
BY DEF Without, AtMostOne

\* Two or three lines at once are as many one after the other.
LEMMA PrintsTwo ==
    ASSUME NEW T, NEW s \in Seq(T), NEW a \in T, NEW b \in T
    PROVE  s \o <<a, b>> = Append(Append(s, a), b)
OBVIOUS

LEMMA PrintsThree ==
    ASSUME NEW s \in Seq(PiLines), NEW a \in PiLines, NEW b \in PiLines, NEW c \in PiLines
    PROVE  /\ s \o (<<a, b>> \o <<c>>) = Append(Append(Append(s, a), b), c)
           /\ s \o (<<c>> \o <<a, b>>) = Append(Append(Append(s, c), a), b)
<1>1. /\ <<c>> \in Seq(PiLines) /\ <<a, b>> \in Seq(PiLines)
      /\ Append(s, c) \in Seq(PiLines) /\ Append(Append(s, a), b) \in Seq(PiLines)
  OBVIOUS
<1>2. /\ s \o (<<a, b>> \o <<c>>) = (s \o <<a, b>>) \o <<c>>
      /\ s \o (<<c>> \o <<a, b>>) = (s \o <<c>>) \o <<a, b>>
  BY <1>1, ConcatAssociative
<1>3. s \o <<a, b>> = Append(Append(s, a), b) /\ s \o <<c>> = Append(s, c)
  OBVIOUS
<1> DEFINE t == Append(Append(s, a), b)
           u == Append(s, c)
<1> HIDE DEF t, u
<1>4. t \in Seq(PiLines) /\ u \in Seq(PiLines)
  BY <1>1 DEF t, u
<1>5. t \o <<c>> = Append(t, c) /\ u \o <<a, b>> = Append(Append(u, a), b)
  <2>1. \A v \in Seq(PiLines), x, y \in PiLines :
           v \o <<x>> = Append(v, x) /\ v \o <<x, y>> = Append(Append(v, x), y)
    OBVIOUS
  <2> QED
    BY <1>4, <2>1
<1> QED
  BY <1>2, <1>3, <1>5 DEF t, u

\* A line of Pi's, or a command to it.
LEMMA PiLineFacts ==
    /\ \A k, o : PiLine(k, o).kind = k /\ PiLine(k, o).of = o
    /\ \A k \in {"prompt", "abort", "get_commands", "get_state"} \cup Levels, o \in 0..MaxInputs :
          PiLine(k, o) \in PiCommands
    /\ \A k \in {"accepted", "refused", "end", "error", "settled", "aborted", "junk",
                 "get_commands"} \cup Levels, o \in 0..MaxInputs : PiLine(k, o) \in PiLines
    /\ \A o \in PiLevels : PiLine("state", o) \in PiLines
    /\ 0 \in 0..MaxInputs
BY DEF PiLine, PiCommands, PiLines

-------------------------------------------------------------------------------
(* What the steps do to Pi *)

LEMMA PrintsOne ==
    ASSUME NEW T, NEW s \in Seq(T), NEW a \in T
    PROVE  /\ s \o <<a>> = Append(s, a) /\ Append(s, a) \in Seq(T)
           /\ s \o (<<>> \o <<a>>) = Append(s, a) /\ s \o (<<a>> \o <<>>) = Append(s, a)
<1>1. <<>> \o <<a>> = <<a>> /\ <<a>> \o <<>> = <<a>>
  OBVIOUS
<1>2. s \o <<a>> = Append(s, a) /\ Append(s, a) \in Seq(T)
  OBVIOUS
<1> QED
  BY <1>1, <1>2

LEMMA NoneFacts == None \in 0..MaxInputs
BY DEF None

LEMMA PiIs ==
    ASSUME ReplTypeOK
    PROVE  /\ pi.up \in BOOLEAN /\ pi.work \in 0..MaxInputs /\ pi.level \in PiLevels
           /\ pi.in \in Seq(PiCommands) /\ pi.out \in Seq(PiLines)
           /\ repl.session \in Sessions /\ repl.started \in BOOLEAN /\ repl.last \in Nat
           /\ repl.level \in Levels /\ repl.turns \in Seq(Nat)
BY DEF ReplTypeOK, PiType, ReplType

LEMMA LoopTakes ==
    ASSUME ReplTypeOK, pi.out # <<>>, pi' = [pi EXCEPT !.out = Tail(@)]
    PROVE  /\ pi' \in PiType /\ pi'.out = Tail(pi.out) /\ pi'.in = pi.in
           /\ pi'.up = pi.up /\ pi'.work = pi.work /\ pi'.level = pi.level
<1>1. Tail(pi.out) \in Seq(PiLines)
  BY PiIs, PipeTakes
<1> QED
  BY <1>1 DEF ReplTypeOK, PiType

LEMMA LoopWrites ==
    ASSUME ReplTypeOK, pi.out # <<>>, NEW c \in PiCommands,
           pi' = [pi EXCEPT !.out = Tail(@), !.in = Append(@, c)]
    PROVE  /\ pi' \in PiType /\ pi'.out = Tail(pi.out) /\ pi'.in = Append(pi.in, c)
           /\ pi'.up = pi.up /\ pi'.work = pi.work /\ pi'.level = pi.level
<1>1. Tail(pi.out) \in Seq(PiLines)
  BY PiIs, PipeTakes
<1>2. Append(pi.in, c) \in Seq(PiCommands)
  BY PiIs, PipeAdds
<1> QED
  BY <1>1, <1>2 DEF ReplTypeOK, PiType

LEMMA Writes ==
    ASSUME ReplTypeOK, NEW c \in PiCommands, pi' = [pi EXCEPT !.in = Append(@, c)]
    PROVE  /\ pi' \in PiType /\ pi'.out = pi.out /\ pi'.in = Append(pi.in, c)
           /\ pi'.up = pi.up /\ pi'.work = pi.work /\ pi'.level = pi.level
<1>2. Append(pi.in, c) \in Seq(PiCommands)
  BY PiIs, PipeAdds
<1> QED
  BY <1>2 DEF ReplTypeOK, PiType

LEMMA AbortPrints ==
    ASSUME ReplTypeOK,
           NEW lines \in {SettledLines \o <<PiLine("aborted", 0)>>,
                          <<PiLine("aborted", 0)>> \o SettledLines}
    PROVE  /\ pi.work = None => PiPrints(lines) = Append(pi.out, PiLine("aborted", 0))
           /\ pi.work # None =>
                \/ PiPrints(lines) = Append(Append(Append(pi.out, PiLine("end", pi.work)),
                                       PiLine("settled", pi.work)), PiLine("aborted", 0))
                \/ PiPrints(lines) = Append(Append(Append(pi.out, PiLine("aborted", 0)),
                                       PiLine("end", pi.work)), PiLine("settled", pi.work))
<1> DEFINE a == PiLine("end", pi.work)
           b == PiLine("settled", pi.work)
           c == PiLine("aborted", 0)
<1>1. /\ pi.out \in Seq(PiLines) /\ a \in PiLines /\ b \in PiLines /\ c \in PiLines
  BY PiIs, PiLineFacts
<1>2. /\ pi.work = None => SettledLines = <<>>
      /\ pi.work # None => SettledLines = <<a, b>>
      /\ lines = SettledLines \o <<c>> \/ lines = <<c>> \o SettledLines
      /\ PiPrints(lines) = pi.out \o lines
  BY DEF SettledLines, PiPrints
<1> SUFFICES /\ pi.work = None => PiPrints(lines) = Append(pi.out, c)
             /\ pi.work # None => \/ PiPrints(lines) = Append(Append(Append(pi.out, a), b), c)
                                  \/ PiPrints(lines) = Append(Append(Append(pi.out, c), a), b)
  OBVIOUS
<1> HIDE DEF a, b, c
<1>3. /\ pi.out \o (<<>> \o <<c>>) = Append(pi.out, c) /\ pi.out \o (<<c>> \o <<>>) = Append(pi.out, c)
  BY <1>1, PrintsOne
<1>4. /\ pi.out \o (<<a, b>> \o <<c>>) = Append(Append(Append(pi.out, a), b), c)
      /\ pi.out \o (<<c>> \o <<a, b>>) = Append(Append(Append(pi.out, c), a), b)
  <2>1. \A s \in Seq(PiLines) : \A x, y, z \in PiLines :
           /\ s \o (<<x, y>> \o <<z>>) = Append(Append(Append(s, x), y), z)
           /\ s \o (<<z>> \o <<x, y>>) = Append(Append(Append(s, z), x), y)
    BY PrintsThree
  <2> QED
    BY <1>1, <2>1, Zenon
<1> QED
  BY <1>2, <1>3, <1>4, Zenon

\* A command's kind decides its answer, and aborts end what Pi works on.
LEMMA ObeysFacts ==
    ASSUME ReplTypeOK, PiObeys
    PROVE  /\ pi' \in PiType /\ pi.up /\ pi'.up = pi.up
           /\ pi.in # <<>> /\ pi'.in = Tail(pi.in) /\ Head(pi.in) \in PiCommands
           /\ LET cmd == Head(pi.in) IN
              \/ /\ cmd.kind = "prompt" /\ pi.work = None /\ pi'.work = cmd.of
                 /\ pi'.out = Append(pi.out, PiLine("accepted", cmd.of))
                 /\ pi'.level = pi.level
              \/ /\ cmd.kind = "prompt" /\ pi.work # None /\ pi'.work = pi.work
                 /\ pi'.out = Append(pi.out, PiLine("refused", cmd.of))
                 /\ pi'.level = pi.level
              \/ /\ cmd.kind = "abort" /\ pi.work = None /\ pi'.work = None
                 /\ pi'.out = Append(pi.out, PiLine("aborted", 0))
                 /\ pi'.level = pi.level
              \/ /\ cmd.kind = "abort" /\ pi.work # None /\ pi'.work = None
                 /\ pi'.level = pi.level
                 /\ \/ pi'.out = Append(Append(Append(pi.out, PiLine("end", pi.work)),
                                        PiLine("settled", pi.work)), PiLine("aborted", 0))
                    \/ pi'.out = Append(Append(Append(pi.out, PiLine("aborted", 0)),
                                        PiLine("end", pi.work)), PiLine("settled", pi.work))
              \/ /\ cmd.kind \in Levels /\ pi'.work = pi.work
                 /\ pi'.out = Append(pi.out, PiLine(cmd.kind, cmd.of))
              \/ /\ cmd.kind = "get_commands" /\ pi'.work = pi.work /\ pi'.level = pi.level
                 /\ pi'.out = Append(pi.out, PiLine("get_commands", cmd.of))
              \/ /\ cmd.kind = "get_state" /\ pi'.work = pi.work /\ pi'.level = pi.level
                 /\ pi'.out = Append(pi.out, PiLine("state", pi.level))
<1> DEFINE cmd == Head(pi.in)
           took == [pi EXCEPT !.in = Tail(@)]
<1>1. /\ pi.up \in BOOLEAN /\ pi.work \in 0..MaxInputs /\ pi.level \in PiLevels
      /\ pi.in \in Seq(PiCommands) /\ pi.out \in Seq(PiLines)
      /\ pi.up /\ pi.in # <<>> /\ pi \in PiType
  BY PiIs DEF PiObeys, ReplTypeOK
<1>2. Tail(pi.in) \in Seq(PiCommands) /\ cmd \in PiCommands
  BY <1>1, PipeTakes
<1>3. /\ cmd.kind \in {"prompt", "abort", "get_commands", "get_state"} \cup Levels
      /\ cmd.of \in 0..MaxInputs
  BY <1>2 DEF PiCommands
<1>4. /\ took \in PiType /\ took.in = Tail(pi.in) /\ took.out = pi.out
      /\ took.up = pi.up /\ took.work = pi.work /\ took.level = pi.level
  BY <1>1, <1>2 DEF PiType
<1>5. \A l \in PiLines : PiPrints(<<l>>) = Append(pi.out, l) /\ Append(pi.out, l) \in Seq(PiLines)
  BY <1>1, PrintsOne DEF PiPrints
<1>6. /\ cmd.kind = "prompt" =>
           pi' = IF pi.work = None
                 THEN [took EXCEPT !.work = cmd.of,
                                   !.out = PiPrints(<<PiLine("accepted", cmd.of)>>)]
                 ELSE [took EXCEPT !.out = PiPrints(<<PiLine("refused", cmd.of)>>)]
      /\ cmd.kind = "abort" =>
           \E lines \in {SettledLines \o <<PiLine("aborted", 0)>>,
                         <<PiLine("aborted", 0)>> \o SettledLines} :
              pi' = [took EXCEPT !.work = None, !.out = PiPrints(lines)]
      /\ cmd.kind \in Levels =>
           \E level \in PiLevels :
              pi' = [took EXCEPT !.level = level, !.out = PiPrints(<<PiLine(cmd.kind, cmd.of)>>)]
      /\ cmd.kind = "get_commands" =>
           pi' = [took EXCEPT !.out = PiPrints(<<PiLine("get_commands", cmd.of)>>)]
      /\ cmd.kind = "get_state" =>
           pi' = [took EXCEPT !.out = PiPrints(<<PiLine("state", pi.level)>>)]
  BY DEF PiObeys, Levels
<1> HIDE DEF cmd, took
<1>7. CASE cmd.kind = "prompt"
  <2>1. PiLine("accepted", cmd.of) \in PiLines /\ PiLine("refused", cmd.of) \in PiLines
    BY <1>3, PiLineFacts
  <2>2. CASE pi.work = None
    <3>1. pi' = [took EXCEPT !.work = cmd.of, !.out = Append(pi.out, PiLine("accepted", cmd.of))]
      BY <1>5, <1>6, <1>7, <2>1, <2>2
    <3>2. /\ pi' \in PiType /\ pi'.in = took.in /\ pi'.up = took.up /\ pi'.work = cmd.of
          /\ pi'.level = took.level /\ pi'.out = Append(pi.out, PiLine("accepted", cmd.of))
      BY <1>3, <1>4, <1>5, <2>1, <3>1 DEF PiType
    <3> QED
      BY <1>1, <1>2, <1>4, <1>7, <2>2, <3>2 DEF cmd
  <2>3. CASE pi.work # None
    <3>1. pi' = [took EXCEPT !.out = Append(pi.out, PiLine("refused", cmd.of))]
      BY <1>5, <1>6, <1>7, <2>1, <2>3
    <3>2. /\ pi' \in PiType /\ pi'.in = took.in /\ pi'.up = took.up /\ pi'.work = took.work
          /\ pi'.level = took.level /\ pi'.out = Append(pi.out, PiLine("refused", cmd.of))
      BY <1>4, <1>5, <2>1, <3>1 DEF PiType
    <3> QED
      BY <1>1, <1>2, <1>4, <1>7, <2>3, <3>2 DEF cmd
  <2> QED
    BY <2>2, <2>3
<1>8. CASE cmd.kind = "abort"
  <2>1. /\ PiLine("end", pi.work) \in PiLines /\ PiLine("settled", pi.work) \in PiLines
        /\ PiLine("aborted", 0) \in PiLines
    BY <1>1, PiLineFacts
  <2>2. PICK lines \in {SettledLines \o <<PiLine("aborted", 0)>>,
                        <<PiLine("aborted", 0)>> \o SettledLines} :
           pi' = [took EXCEPT !.work = None, !.out = PiPrints(lines)]
    BY <1>6, <1>8
  <2> DEFINE out == PiPrints(lines)
             one == Append(pi.out, PiLine("aborted", 0))
             two == Append(Append(Append(pi.out, PiLine("end", pi.work)),
                           PiLine("settled", pi.work)), PiLine("aborted", 0))
             three == Append(Append(Append(pi.out, PiLine("aborted", 0)),
                           PiLine("end", pi.work)), PiLine("settled", pi.work))
  <2>3. one \in Seq(PiLines) /\ two \in Seq(PiLines) /\ three \in Seq(PiLines)
    BY <1>1, <2>1, PipeAdds
  <2>4. pi.work = None => out = one
    BY AbortPrints
  <2>5. pi.work # None => out = two \/ out = three
    BY AbortPrints
  <2>6. pi' = [took EXCEPT !.work = None, !.out = out]
    BY <2>2
  <2> HIDE DEF out, one, two, three
  <2>7. /\ pi' \in PiType /\ pi'.in = took.in /\ pi'.up = took.up /\ pi'.work = None
        /\ pi'.level = took.level /\ pi'.out = out
    BY <1>4, <2>3, <2>4, <2>5, <2>6, NoneFacts DEF PiType
  <2> QED
    BY <1>1, <1>2, <1>4, <1>8, <2>4, <2>5, <2>7 DEF cmd, one, two, three
<1>9. CASE cmd.kind \in Levels
  <2>1. PiLine(cmd.kind, cmd.of) \in PiLines
    BY <1>3, <1>9, PiLineFacts
  <2>2. PICK level \in PiLevels :
           pi' = [took EXCEPT !.level = level, !.out = Append(pi.out, PiLine(cmd.kind, cmd.of))]
    BY <1>5, <1>6, <1>9, <2>1
  <2>3. /\ pi' \in PiType /\ pi'.in = took.in /\ pi'.up = took.up /\ pi'.work = took.work
        /\ pi'.out = Append(pi.out, PiLine(cmd.kind, cmd.of))
    BY <1>4, <1>5, <1>9, <2>1, <2>2 DEF PiType
  <2> QED
    BY <1>1, <1>2, <1>4, <1>9, <2>3 DEF cmd
<1>10. CASE cmd.kind = "get_commands"
  <2>1. PiLine("get_commands", cmd.of) \in PiLines
    BY <1>3, PiLineFacts
  <2>2. pi' = [took EXCEPT !.out = Append(pi.out, PiLine("get_commands", cmd.of))]
    BY <1>5, <1>6, <1>10, <2>1
  <2>3. /\ pi' \in PiType /\ pi'.in = took.in /\ pi'.up = took.up /\ pi'.work = took.work
        /\ pi'.level = took.level /\ pi'.out = Append(pi.out, PiLine("get_commands", cmd.of))
    BY <1>4, <1>5, <2>1, <2>2 DEF PiType
  <2> QED
    BY <1>1, <1>2, <1>4, <1>10, <2>3 DEF cmd
<1>11. CASE cmd.kind = "get_state"
  <2>1. PiLine("state", pi.level) \in PiLines
    BY <1>1, PiLineFacts
  <2>2. pi' = [took EXCEPT !.out = Append(pi.out, PiLine("state", pi.level))]
    BY <1>5, <1>6, <1>11, <2>1
  <2>3. /\ pi' \in PiType /\ pi'.in = took.in /\ pi'.up = took.up /\ pi'.work = took.work
        /\ pi'.level = took.level /\ pi'.out = Append(pi.out, PiLine("state", pi.level))
    BY <1>4, <1>5, <2>1, <2>2 DEF PiType
  <2> QED
    BY <1>1, <1>2, <1>4, <1>11, <2>3 DEF cmd
<1> QED
  BY <1>3, <1>7, <1>8, <1>9, <1>10, <1>11

\* What Pi prints by itself.
LEMMA EndsFacts ==
    ASSUME ReplTypeOK, PiEnds \/ PiErrs
    PROVE  /\ pi' \in PiType /\ pi.up /\ pi'.up = pi.up /\ pi'.in = pi.in
           /\ pi.work # None /\ pi'.work = None /\ pi'.level = pi.level
           /\ \E k \in {"end", "error"} :
                 pi'.out = Append(Append(pi.out, PiLine(k, pi.work)), PiLine("settled", pi.work))
<1>1. /\ pi.up \in BOOLEAN /\ pi.work \in 0..MaxInputs /\ pi.level \in PiLevels
      /\ pi.in \in Seq(PiCommands) /\ pi.out \in Seq(PiLines)
      /\ pi.up /\ pi.work # None /\ pi \in PiType
  BY PiIs DEF PiEnds, PiErrs, ReplTypeOK
<1>2. PICK k \in {"end", "error"} :
         pi' = [pi EXCEPT !.work = None,
                          !.out = PiPrints(<<PiLine(k, pi.work), PiLine("settled", pi.work)>>)]
  BY <1>1 DEF PiEnds, PiErrs, SettledLines
<1>3. PiLine(k, pi.work) \in PiLines /\ PiLine("settled", pi.work) \in PiLines
  BY <1>1, PiLineFacts
<1> DEFINE out == Append(Append(pi.out, PiLine(k, pi.work)), PiLine("settled", pi.work))
<1>4. PiPrints(<<PiLine(k, pi.work), PiLine("settled", pi.work)>>) = out
  BY <1>1, <1>3, PrintsTwo DEF PiPrints
<1>5. out \in Seq(PiLines)
  BY <1>1, <1>3, PipeAdds
<1> HIDE DEF out
<1>6. pi' = [pi EXCEPT !.work = None, !.out = out]
  BY <1>2, <1>4
<1>7. /\ pi' \in PiType /\ pi'.in = pi.in /\ pi'.up = pi.up /\ pi'.work = None
      /\ pi'.level = pi.level /\ pi'.out = out
  BY <1>1, <1>5, <1>6, NoneFacts DEF PiType
<1> QED
  BY <1>1, <1>7 DEF out

LEMMA PrintsFacts ==
    ASSUME ReplTypeOK, PiRetries \/ PiGarbles
    PROVE  /\ pi' \in PiType /\ pi.up /\ pi'.up = pi.up /\ pi'.in = pi.in
           /\ pi'.work = pi.work /\ pi'.level = pi.level
           /\ \/ "retry" \in happened'
              \/ pi'.out = Append(pi.out, PiLine("junk", pi.work))
<1>1. /\ pi.up \in BOOLEAN /\ pi.work \in 0..MaxInputs /\ pi.level \in PiLevels
      /\ pi.in \in Seq(PiCommands) /\ pi.out \in Seq(PiLines)
      /\ pi.up /\ pi \in PiType
  BY PiIs DEF PiRetries, PiGarbles, ReplTypeOK
<1>2. PICK k \in {"error", "junk"} : /\ pi' = [pi EXCEPT !.out = PiPrints(<<PiLine(k, pi.work)>>)]
                                     /\ k = "error" => "retry" \in happened'
  BY DEF PiRetries, PiGarbles, Happens
<1>3. PiLine(k, pi.work) \in PiLines
  BY <1>1, PiLineFacts
<1>4. PiPrints(<<PiLine(k, pi.work)>>) = Append(pi.out, PiLine(k, pi.work))
      /\ Append(pi.out, PiLine(k, pi.work)) \in Seq(PiLines)
  BY <1>1, <1>3, PrintsThree, PipeAdds DEF PiPrints
<1>5. pi' = [pi EXCEPT !.out = Append(pi.out, PiLine(k, pi.work))]
  BY <1>2, <1>4
<1>6. /\ pi' \in PiType /\ pi'.in = pi.in /\ pi'.up = pi.up /\ pi'.work = pi.work
      /\ pi'.level = pi.level /\ pi'.out = Append(pi.out, PiLine(k, pi.work))
  BY <1>1, <1>4, <1>5 DEF PiType
<1> QED
  BY <1>1, <1>2, <1>6

LEMMA CrashFacts ==
    ASSUME ReplTypeOK, PiCrashes
    PROVE  /\ pi' \in PiType /\ ~pi'.up /\ pi'.in = <<>> /\ pi'.work = None
           /\ pi'.level = pi.level /\ pi'.out = pi.out
<1>1. pi' = [pi EXCEPT !.up = FALSE, !.work = None, !.in = <<>>] /\ pi \in PiType
  BY DEF PiCrashes, ReplTypeOK
<1>2. <<>> \in Seq(PiCommands)
  OBVIOUS
<1> QED
  BY <1>1, <1>2, NoneFacts DEF PiType

-------------------------------------------------------------------------------
(* What the steps do to the REPL's session and to the database *)

LEMMA ChatsAre ==
    ASSUME ReplTypeOK
    PROVE  /\ chats \in Seq(ChatType) /\ DOMAIN chats = 1..Len(chats) /\ Len(chats) \in Nat
           /\ \A i \in DOMAIN chats : chats[i] \in ChatType /\ chats[i].session \in Sessions
           /\ \A s : \A i \in ChatsOf(s) : i \in DOMAIN chats /\ i \in Nat \ {0} /\ i <= Len(chats)
<1>1. chats \in Seq(ChatType) /\ DOMAIN chats = 1..Len(chats) /\ Len(chats) \in Nat
  BY DEF ReplTypeOK
<1>2. \A i \in DOMAIN chats : chats[i] \in ChatType
  BY <1>1
<1> QED
  BY <1>1, <1>2 DEF ChatType, ChatsOf

LEMMA AddsFacts ==
    ASSUME ReplTypeOK, NEW role \in {"user", "assistant"}, NEW parent \in Nat,
           AddChat(role, parent)
    PROVE  /\ chats' \in Seq(ChatType) /\ Len(chats') = Len(chats) + 1
           /\ DOMAIN chats' = 1..(Len(chats) + 1)
           /\ \A i \in DOMAIN chats : chats'[i] = chats[i]
           /\ chats'[Len(chats) + 1].session = repl.session
           /\ chats'[Len(chats) + 1].role = role
           /\ chats'[Len(chats) + 1].parent = parent
           /\ chats'[Len(chats) + 1].turn = ended
<1> DEFINE x == Chat(repl.session, role, parent, ended)
<1>1. /\ x \in ChatType /\ x.session = repl.session /\ x.role = role /\ x.parent = parent
      /\ x.turn = ended
  BY PiIs DEF Chat, ChatType, ReplTypeOK
<1>2. chats' = Append(chats, x) /\ chats \in Seq(ChatType)
  BY DEF AddChat, ReplTypeOK
<1> HIDE DEF x
<1>3. /\ Append(chats, x) \in Seq(ChatType)
      /\ DOMAIN chats = 1..Len(chats) /\ Len(chats) \in Nat
      /\ DOMAIN Append(chats, x) = 1..(Len(chats) + 1)
      /\ Len(Append(chats, x)) = Len(chats) + 1
      /\ \A i \in DOMAIN chats : Append(chats, x)[i] = chats[i]
      /\ Append(chats, x)[Len(chats) + 1] = x
  BY <1>1, <1>2
<1> QED
  BY <1>1, <1>2, <1>3

LEMMA SaveUserFacts ==
    ASSUME ReplTypeOK, SaveUser
    PROVE  /\ AddChat("user", IF repl.started THEN repl.last ELSE None)
           /\ (IF repl.started THEN repl.last ELSE None) \in Nat
           /\ repl' \in ReplType /\ repl'.session = repl.session /\ repl'.started
           /\ repl'.last = Len(chats) + 1 /\ repl'.turns = repl.turns
           /\ repl'.level = repl.level
<1>1. AddChat("user", IF repl.started THEN repl.last ELSE None)
  BY DEF SaveUser
<1>2. (IF repl.started THEN repl.last ELSE None) \in Nat
  BY PiIs DEF None
<1>3. Len(chats') = Len(chats) + 1 /\ Len(chats) \in Nat
  BY <1>1, <1>2, AddsFacts, ChatsAre
<1> DEFINE n == Len(chats) + 1
<1>4. repl' = [repl EXCEPT !.started = TRUE, !.last = n] /\ n \in Nat
  BY <1>3 DEF SaveUser
<1> HIDE DEF n
<1>5. /\ repl' \in ReplType /\ repl'.session = repl.session /\ repl'.started
      /\ repl'.last = n /\ repl'.turns = repl.turns /\ repl'.level = repl.level
  BY <1>4 DEF ReplTypeOK, ReplType
<1> QED
  BY <1>1, <1>2, <1>5 DEF n

LEMMA SaveReplyFacts ==
    ASSUME ReplTypeOK, SaveReply
    PROVE  /\ AddChat("assistant", repl.last) /\ repl.last \in Nat
           /\ repl' \in ReplType /\ repl'.session = repl.session /\ repl'.started = repl.started
           /\ repl'.last = Len(chats) + 1 /\ repl'.turns = Append(repl.turns, ended)
           /\ repl'.level = repl.level
<1>1. AddChat("assistant", repl.last) /\ repl.last \in Nat
  BY PiIs DEF SaveReply
<1>2. Append(repl.turns, ended) \in Seq(Nat)
  BY PiIs DEF ReplTypeOK
<1>3. Len(chats') = Len(chats) + 1 /\ Len(chats) \in Nat
  BY <1>1, AddsFacts, ChatsAre
<1> DEFINE n == Len(chats) + 1
           t == Append(repl.turns, ended)
<1>4. repl' = [repl EXCEPT !.last = n, !.turns = t] /\ n \in Nat /\ t \in Seq(Nat)
  BY <1>2, <1>3 DEF SaveReply
<1> HIDE DEF n, t
<1>5. /\ repl' \in ReplType /\ repl'.session = repl.session /\ repl'.started = repl.started
      /\ repl'.last = n /\ repl'.turns = t /\ repl'.level = repl.level
  BY <1>4 DEF ReplTypeOK, ReplType
<1> QED
  BY <1>1, <1>5 DEF n, t

LEMMA ResumeFacts ==
    ASSUME ReplTypeOK, AppendsToTheEnd, NEW s \in Sessions, Resume(s)
    PROVE  /\ ChatsOf(s) # {} /\ LastOf(ChatsOf(s)) \in ChatsOf(s)
           /\ repl' \in ReplType /\ repl'.session = s /\ repl'.started
           /\ repl'.last = LastOf(ChatsOf(s)) /\ repl'.turns = snapshots[s]
           /\ repl'.level = repl.level /\ repl'.last <= Len(chats)
<1>1. /\ ChatsOf(s) # {} /\ LastOf(ChatsOf(s)) \in ChatsOf(s)
      /\ LastOf(ChatsOf(s)) \in Nat /\ LastOf(ChatsOf(s)) <= Len(chats)
  BY ChatsAre DEF Resume, AppendsToTheEnd
<1>2. snapshots[s] \in Seq(Nat)
  BY DEF ReplTypeOK
<1>3. repl' = [repl EXCEPT !.session = s, !.started = TRUE, !.pending = TRUE,
                           !.last = LastOf(ChatsOf(s)), !.turns = snapshots[s]]
  BY DEF Resume
<1> QED
  BY <1>1, <1>2, <1>3 DEF ReplTypeOK, ReplType

LEMMA NewFacts ==
    ASSUME NEW s \in Sessions, NEW t \in Levels, NEW l \in PiLevels
    PROVE  /\ NewRepl(s, l) \in ReplType /\ NewRepl(s, l).session = s /\ ~NewRepl(s, l).started
           /\ NewRepl(s, l).last = 0 /\ NewRepl(s, l).turns = <<>>
           /\ Shows(NewRepl(s, l).level, l)
           /\ NewPi(t, l) \in PiType /\ NewPi(t, l).up /\ NewPi(t, l).work = None
           /\ NewPi(t, l).level = l /\ NewPi(t, l).in = <<>> /\ NewPi(t, l).out = <<>>
<1>1. <<>> \in Seq(Nat) /\ <<>> \in Seq(PiCommands) /\ <<>> \in Seq(PiLines)
  OBVIOUS
<1> QED
  BY <1>1, NoneFacts DEF NewRepl, NewPi, ReplType, PiType, None, Parsed, Shows, Levels

LEMMA RerunFacts ==
    ASSUME ReplTypeOK, Rerun
    PROVE  /\ run' = run + 1 /\ run' \in 1..MaxRuns /\ run' \in Sessions
           /\ repl' \in ReplType /\ repl'.session = run' /\ ~repl'.started
           /\ repl'.last = 0 /\ repl'.turns = <<>>
           /\ pi' \in PiType /\ pi'.up /\ pi'.work = None /\ pi'.in = <<>> /\ pi'.out = <<>>
           /\ Shows(repl'.level, pi'.level)
<1>1. run' = run + 1 /\ run' \in 1..MaxRuns /\ run' \in Sessions
  BY DEF Rerun, ReplTypeOK, Sessions
<1>2. pi.setting \in Levels
  BY DEF ReplTypeOK, PiType
<1>3. PICK level \in PiLevels : repl' = NewRepl(run', level) /\ pi' = NewPi(pi.setting, level)
  BY DEF Rerun
<1> QED
  BY <1>1, <1>2, <1>3, NewFacts

\* Typing a command: Pi gets it, or is gone.
LEMMA SendFactsOf ==
    ASSUME ReplTypeOK, NEW c \in PiCommands, Send(c)
    PROVE  /\ pi' \in PiType /\ pi'.out = pi.out /\ pi'.up = pi.up /\ pi'.work = pi.work
           /\ pi'.level = pi.level
           /\ \/ pi.up /\ pi'.in = Append(pi.in, c) /\ pc' = "reads"
              \/ ~pi.up /\ pi'.in = pi.in /\ pc' = "failed"
<1>1. CASE pi.up
  BY <1>1, Writes DEF Send, Goes
<1>2. CASE ~pi.up
  BY <1>2 DEF Send, Goes, ReplTypeOK
<1> QED
  BY <1>1, <1>2

LEMMA TypesFacts ==
    ASSUME ReplTypeOK, Types
    PROVE  inputs' = inputs + 1 /\ inputs' \in 0..MaxInputs /\ pc = "input"
BY DEF ReplTypeOK, Types

LEMMA PromptFacts ==
    ASSUME ReplTypeOK, TypePrompt
    PROVE  /\ pi' \in PiType /\ pi'.out = pi.out /\ pi'.up = pi.up /\ pi'.work = pi.work
           /\ pi'.level = pi.level /\ pc = "input" /\ inputs' = inputs + 1
           /\ inputs' \in 0..MaxInputs
           /\ PiLine("prompt", inputs') \in PiCommands
           /\ \/ pi.up /\ pi'.in = Append(pi.in, PiLine("prompt", inputs')) /\ pc' = "reads"
              \/ ~pi.up /\ pi'.in = pi.in /\ pc' = "failed"
           /\ repl' \in ReplType /\ repl'.session = repl.session /\ repl'.started = repl.started
           /\ repl'.last = repl.last /\ repl'.turns = repl.turns /\ repl'.level = repl.level
<1>1. inputs' = inputs + 1 /\ inputs' \in 0..MaxInputs /\ pc = "input"
  BY TypesFacts DEF TypePrompt
<1> DEFINE c == PiLine("prompt", inputs')
<1>2. c \in PiCommands
  BY <1>1, PiLineFacts
<1>3. Send(c)
  BY DEF TypePrompt
<1> HIDE DEF c
<1>4. /\ pi' \in PiType /\ pi'.out = pi.out /\ pi'.up = pi.up /\ pi'.work = pi.work
      /\ pi'.level = pi.level
      /\ \/ pi.up /\ pi'.in = Append(pi.in, c) /\ pc' = "reads"
         \/ ~pi.up /\ pi'.in = pi.in /\ pc' = "failed"
  BY <1>2, <1>3, SendFactsOf
<1>5. /\ repl' \in ReplType /\ repl'.session = repl.session /\ repl'.started = repl.started
      /\ repl'.last = repl.last /\ repl'.turns = repl.turns /\ repl'.level = repl.level
  BY DEF TypePrompt, ReplTypeOK, ReplType
<1> QED
  BY <1>1, <1>2, <1>4, <1>5 DEF c

LEMMA CommandFacts ==
    ASSUME ReplTypeOK, TypeCommand
    PROVE  \E kind \in {"get_commands"} \cup Levels :
           /\ pi' \in PiType /\ pi'.out = pi.out /\ pi'.up = pi.up /\ pi'.work = pi.work
           /\ pi'.level = pi.level /\ pc = "input" /\ inputs' = inputs + 1
           /\ inputs' \in 0..MaxInputs /\ repl' = repl
           /\ PiLine(kind, inputs') \in PiCommands
           /\ \/ pi.up /\ pi'.in = Append(pi.in, PiLine(kind, inputs')) /\ pc' = "reads"
              \/ ~pi.up /\ pi'.in = pi.in /\ pc' = "failed"
<1>1. /\ inputs' = inputs + 1 /\ inputs' \in 0..MaxInputs /\ pc = "input" /\ repl' = repl
  BY TypesFacts DEF TypeCommand
<1>2. PICK kind \in {"get_commands"} \cup Levels : Send(PiLine(kind, inputs'))
  BY DEF TypeCommand
<1> DEFINE c == PiLine(kind, inputs')
<1>3. c \in PiCommands
  BY <1>1, PiLineFacts
<1>4. Send(c)
  BY <1>2
<1> HIDE DEF c
<1>5. /\ pi' \in PiType /\ pi'.out = pi.out /\ pi'.up = pi.up /\ pi'.work = pi.work
      /\ pi'.level = pi.level
      /\ \/ pi.up /\ pi'.in = Append(pi.in, c) /\ pc' = "reads"
         \/ ~pi.up /\ pi'.in = pi.in /\ pc' = "failed"
  BY <1>3, <1>4, SendFactsOf
<1> QED
  BY <1>1, <1>3, <1>5 DEF c

LEMMA LevelReadFacts ==
    ASSUME ReplTypeOK, LevelRead
    PROVE  /\ repl' \in ReplType /\ repl'.session = repl.session
           /\ repl'.started = repl.started /\ repl'.last = repl.last
           /\ repl'.turns = repl.turns /\ Shows(repl'.level, nextLine.of)
           /\ pi' \in PiType /\ pi'.out = Tail(pi.out) /\ pi'.in = pi.in
           /\ pi'.up = pi.up /\ pi'.work = pi.work /\ pi'.level = pi.level
<1>1. /\ pi \in PiType /\ repl \in ReplType /\ Tail(pi.out) \in Seq(PiLines)
  BY PiIs, PipeTakes DEF LevelRead, ReplTypeOK
<1>2. PICK setting \in Persisted(nextLine.of) :
         pi' = [pi EXCEPT !.out = Tail(@), !.setting = setting]
  BY DEF LevelRead
<1>3. setting \in Levels
  BY <1>1, <1>2 DEF Persisted, Parsed, PiType
<1>4. /\ pi' \in PiType /\ pi'.out = Tail(pi.out) /\ pi'.in = pi.in
      /\ pi'.up = pi.up /\ pi'.work = pi.work /\ pi'.level = pi.level
  BY <1>1, <1>2, <1>3 DEF PiType
<1>5. repl' = [repl EXCEPT !.level = Parsed(nextLine.of, @)]
  BY DEF LevelRead
<1>6. /\ repl' \in ReplType /\ repl'.session = repl.session
      /\ repl'.started = repl.started /\ repl'.last = repl.last
      /\ repl'.turns = repl.turns /\ Shows(repl'.level, nextLine.of)
  BY <1>1, <1>5 DEF Parsed, ReplType, Shows
<1> QED
  BY <1>4, <1>6

-------------------------------------------------------------------------------
(* The types *)

\* The steps of the loop take a line at most, and may write a command.
LEMMA LoopTypes ==
    ASSUME ReplTypeOK, LoopSteps \/ StateFails
    PROVE  /\ pi' \in PiType /\ repl' \in ReplType
           /\ repl'.session = repl.session /\ repl'.started = repl.started
           /\ repl'.last = repl.last /\ repl'.turns = repl.turns
           /\ ended' \in 0..MaxInputs /\ interrupted' \in BOOLEAN
           /\ pc \in {"reads", "asks"} /\ pc' \in {"reads", "asks", "input", "user", "failed"}
           /\ run' = run /\ retries' = retries /\ cache' = cache /\ chats' = chats
           /\ snapshots' = snapshots /\ inputs' = inputs
<1>1. /\ repl \in ReplType /\ pi \in PiType /\ ended \in 0..MaxInputs /\ interrupted \in BOOLEAN
      /\ PiLine("abort", 0) \in PiCommands /\ PiLine("get_state", 0) \in PiCommands
  BY PiLineFacts DEF ReplTypeOK
<1>2. CASE Interrupt
  <2>1. pi' \in PiType
    <3>1. CASE pi.up
      BY <1>1, <1>2, <3>1, LoopWrites DEF Interrupt, HasLine
    <3>2. CASE ~pi.up
      BY <1>2, <3>2, LoopTakes DEF Interrupt, HasLine
    <3> QED
      BY <3>1, <3>2
  <2> QED
    BY <1>1, <1>2, <2>1 DEF Interrupt, HasLine, loopUnchanged, Goes
<1>3. CASE Ignore
  BY <1>1, <1>3, LoopTakes DEF Ignore, HasLine, loopUnchanged, Goes
<1>4. CASE Respond
  BY <1>1, <1>4, LoopTakes DEF Respond, HasLine, loopUnchanged, Goes
<1>5. CASE LevelSet
  <2>1. pi' \in PiType
    <3>1. CASE pi.up
      BY <1>1, <1>5, <3>1, LoopWrites DEF LevelSet, HasLine
    <3>2. CASE ~pi.up
      BY <1>5, <3>2, LoopTakes DEF LevelSet, HasLine
    <3> QED
      BY <3>1, <3>2
  <2> QED
    BY <1>1, <1>5, <2>1 DEF LevelSet, HasLine, loopUnchanged, Goes
<1>6. CASE Unparsed
  BY <1>1, <1>6, LoopTakes DEF Unparsed, HasLine, loopUnchanged, Goes
<1>7. CASE StateSkip
  BY <1>1, <1>7, LoopTakes DEF StateSkip, loopUnchanged, Goes
<1>8. CASE LevelRead
  <2>1. pi' \in PiType
    BY <1>8, LevelReadFacts
  <2>2. /\ repl' \in ReplType /\ repl'.session = repl.session /\ repl'.started = repl.started
        /\ repl'.last = repl.last /\ repl'.turns = repl.turns
    BY <1>8, LevelReadFacts
  <2> QED
    BY <1>1, <1>8, <2>1, <2>2 DEF LevelRead, loopUnchanged, Goes
<1>9. CASE StateFails
  BY <1>1, <1>9 DEF StateFails, Goes
<1>10. CASE OutputEnds
  BY <1>1, <1>10 DEF OutputEnds, loopUnchanged, Goes
<1>11. CASE AgentEnd
  <2>1. nextLine \in PiLines /\ nextLine.kind \in {"end", "error"} /\ pi.out # <<>>
    BY <1>11, PiIs, PipeTakes DEF AgentEnd, HasLine, nextLine
  <2>2. nextLine.of \in 0..MaxInputs
    BY <2>1 DEF PiLines
  <2>3. pi' \in PiType /\ pc' \in {"user", "failed"}
    <3>1. CASE nextLine.kind = "error" /\ pi.up
      <4>1. pi' = [[pi EXCEPT !.out = Tail(@)] EXCEPT !.in = Append(@, PiLine("abort", 0))] /\ pc' = "user"
        BY <1>11, <3>1 DEF AgentEnd, Goes
      <4>2. pi' = [pi EXCEPT !.out = Tail(@), !.in = Append(@, PiLine("abort", 0))]
        BY <1>1, <4>1 DEF PiType
      <4> QED
        BY <1>1, <2>1, <4>1, <4>2, LoopWrites
    <3>2. CASE ~(nextLine.kind = "error" /\ pi.up)
      <4>1. pi' = [pi EXCEPT !.out = Tail(@)] /\ pc' \in {"user", "failed"}
        BY <1>11, <2>1, <3>2 DEF AgentEnd, Goes
      <4> QED
        BY <2>1, <4>1, LoopTakes
    <3> QED
      BY <3>1, <3>2
  <2> QED
    BY <1>1, <1>11, <2>2, <2>3 DEF AgentEnd, HasLine, loopUnchanged, Goes
<1> QED
  BY <1>2, <1>3, <1>4, <1>5, <1>6, <1>7, <1>8, <1>9, <1>10, <1>11 DEF LoopSteps

LEMMA ReplTypeKeeps ==
    ASSUME ReplInv, ReplNext
    PROVE  ReplTypeOK'
<1>0. ReplTypeOK /\ AppendsToTheEnd
  BY DEF ReplInv
<1>1. CASE Load \/ TooManyRetries \/ LoadFails
  BY <1>0, <1>1 DEF ReplTypeOK, Load, TooManyRetries, LoadFails, loadUnchanged, Goes, Places
<1>2. CASE Download \/ DownloadFails \/ Deleted
  <2>1. /\ run' = run /\ interrupted' = interrupted /\ repl' = repl /\ ended' = ended
        /\ pi' = pi /\ chats' = chats /\ snapshots' = snapshots /\ inputs' = inputs
    BY <1>2 DEF Download, DownloadFails, Deleted, loadUnchanged
  <2>2. /\ pc' \in Places /\ cache' \in {"missing", "partial", "whole"}
        /\ retries' \in 0..(MAX_LOAD_MODEL_RETRIES + 1)
        /\ pc' = "download" => retries' <= MAX_LOAD_MODEL_RETRIES
    BY <1>0, <1>2 DEF ReplTypeOK, Download, DownloadFails, Deleted, Goes, Places, MAX_LOAD_MODEL_RETRIES
  <2> QED
    BY <1>0, <2>1, <2>2 DEF ReplTypeOK
<1>3. CASE LoopSteps \/ StateFails
  BY <1>0, <1>3, LoopTypes DEF ReplTypeOK, Places
<1>4. CASE SaveUser \/ SaveReply
  <2>1. /\ repl' \in ReplType /\ repl'.last = Len(chats) + 1
        /\ chats' \in Seq(ChatType) /\ Len(chats') = Len(chats) + 1 /\ Len(chats) \in Nat
    <3>1. CASE SaveUser
      BY <1>0, <3>1, SaveUserFacts, AddsFacts, ChatsAre
    <3>2. CASE SaveReply
      BY <1>0, <3>2, SaveReplyFacts, AddsFacts, ChatsAre
    <3> QED
      BY <1>4, <3>1, <3>2
  <2>2. /\ pc' \in Places \ {"download"} /\ run' = run /\ retries' = retries /\ cache' = cache
        /\ interrupted' = interrupted /\ pi' = pi /\ inputs' = inputs /\ ended' = ended
        /\ snapshots' = snapshots
    BY <1>4 DEF SaveUser, SaveReply, saveUnchanged, Goes, Places
  <2> QED
    BY <1>0, <2>1, <2>2 DEF ReplTypeOK
<1>5. CASE SaveSnapshot
  <2>1. snapshots' \in [Sessions -> Seq(Nat)]
    BY <1>0, <1>5, PiIs DEF SaveSnapshot, ReplTypeOK
  <2>2. /\ pc' = "input" /\ ended' = None /\ run' = run /\ retries' = retries /\ cache' = cache
        /\ interrupted' = interrupted /\ pi' = pi /\ inputs' = inputs /\ repl' = repl /\ chats' = chats
    BY <1>5 DEF SaveSnapshot, saveUnchanged, Goes
  <2> QED
    BY <1>0, <2>1, <2>2, NoneFacts DEF ReplTypeOK, Places
<1>6. CASE PiObeys
  BY <1>0, <1>6, ObeysFacts DEF PiObeys, piUnchanged, ReplTypeOK
<1>7. CASE PiEnds \/ PiErrs
  BY <1>0, <1>7, EndsFacts DEF PiEnds, PiErrs, piUnchanged, ReplTypeOK
<1>8. CASE PiRetries \/ PiGarbles
  BY <1>0, <1>8, PrintsFacts DEF PiRetries, PiGarbles, piUnchanged, ReplTypeOK
<1>9. CASE PiCrashes
  BY <1>0, <1>9, CrashFacts DEF PiCrashes, piUnchanged, ReplTypeOK
<1>10. CASE TypePrompt
  <2>1. /\ run' = run /\ retries' = retries /\ cache' = cache /\ interrupted' = interrupted
        /\ ended' = ended /\ chats' = chats /\ snapshots' = snapshots
    BY <1>10 DEF TypePrompt, typingUnchanged
  <2> QED
    BY <1>0, <1>10, <2>1, PromptFacts DEF ReplTypeOK, Places
<1>11. CASE TypeCommand
  <2>1. /\ run' = run /\ retries' = retries /\ cache' = cache /\ interrupted' = interrupted
        /\ ended' = ended /\ chats' = chats /\ snapshots' = snapshots
    BY <1>11 DEF TypeCommand, typingUnchanged
  <2>2. /\ pi' \in PiType /\ inputs' \in 0..MaxInputs /\ repl' = repl
        /\ pc' \in {"reads", "failed"}
    BY <1>0, <1>11, CommandFacts
  <2> QED
    BY <1>0, <2>1, <2>2 DEF ReplTypeOK, Places
<1>12. CASE \E s \in Sessions : Resume(s)
  <2> PICK s \in Sessions : Resume(s)
    BY <1>12
  <2>1. repl' \in ReplType /\ repl'.last <= Len(chats)
    BY <1>0, ResumeFacts
  <2>2. /\ run' = run /\ retries' = retries /\ cache' = cache /\ interrupted' = interrupted
        /\ ended' = ended /\ chats' = chats /\ snapshots' = snapshots /\ pc' = pc /\ pi' = pi
    BY DEF Resume, typingUnchanged
  <2>3. inputs' \in 0..MaxInputs
    BY <1>0, TypesFacts DEF Resume
  <2> QED
    BY <1>0, <2>1, <2>2, <2>3, TypesFacts DEF ReplTypeOK, Resume
<1>13. CASE ResumePanics
  BY <1>0, <1>13, TypesFacts DEF ResumePanics, typingUnchanged, ReplTypeOK, Goes, Places
<1>14. CASE Exit
  BY <1>0, <1>14 DEF Exit, typingUnchanged, ReplTypeOK, Goes, Places
<1>15. CASE Rerun
  <2>1. run' \in 1..MaxRuns /\ run' \in Sessions
    BY <1>0, <1>15 DEF Rerun, ReplTypeOK, Sessions
  <2>2. repl' \in ReplType /\ repl'.last = 0 /\ pi' \in PiType
    BY <1>0, <1>15, RerunFacts
  <2>3. /\ pc' = "load" /\ retries' = 0 /\ interrupted' = FALSE /\ ended' = None
        /\ cache' = cache /\ chats' = chats /\ snapshots' = snapshots /\ inputs' = inputs
    BY <1>15 DEF Rerun, Goes
  <2>4. 0 <= Len(chats) /\ 0 \in 0..(MAX_LOAD_MODEL_RETRIES + 1)
    BY <1>0, ChatsAre DEF MAX_LOAD_MODEL_RETRIES
  <2> QED
    BY <1>0, <2>1, <2>2, <2>3, <2>4, NoneFacts DEF ReplTypeOK, Places
<1>16. CASE CtrlC
  BY <1>0, <1>16 DEF CtrlC, ReplTypeOK
<1>17. CASE SaveFails
  BY <1>0, <1>17 DEF SaveFails, ReplTypeOK, Goes, Places
<1> QED
  BY <1>1, <1>2, <1>3, <1>4, <1>5, <1>6, <1>7, <1>8, <1>9, <1>10, <1>11, <1>12, <1>13,
     <1>14, <1>15, <1>16, <1>17
  DEF ReplNext, Loading, Saving, PiWorks, User, Misfortune

-------------------------------------------------------------------------------
(* The database *)

LEMMA LastIs ==
    ASSUME NEW S \in SUBSET Nat, NEW m \in S, \A j \in S : j <= m
    PROVE  LastOf(S) = m
<1>1. \A i \in S : (\A j \in S : j <= i) => i = m
  OBVIOUS
<1> QED
  BY <1>1 DEF LastOf

\* Most steps leave the chats and the session alone.
LEMMA DatabaseStays ==
    ASSUME ReplInv, chats' = chats, snapshots' = snapshots, run' = run,
           repl'.session = repl.session, repl'.started = repl.started,
           repl'.last = repl.last, repl'.turns = repl.turns,
           pc' \in {"reply", "snapshot"} => pc \in {"reply", "snapshot"},
           pc' \notin {"snapshot", "ended", "failed"} => pc \notin {"snapshot", "ended", "failed"}
    PROVE  OnePath' /\ SnapshotIsOfItsSession' /\ AppendsToTheEnd'
<1>1. OnePath /\ SnapshotIsOfItsSession /\ AppendsToTheEnd
  BY DEF ReplInv
<1>2. OnePath'
  BY <1>1 DEF OnePath
<1>3. AppendsToTheEnd'
  BY <1>1 DEF AppendsToTheEnd, ChatsOf
<1>4. SnapshotIsOfItsSession'
  BY <1>1, <1>3 DEF SnapshotIsOfItsSession, AppendsToTheEnd
<1> QED
  BY <1>2, <1>3, <1>4

\* A chat that is added after the last one of its session.
LEMMA AddKeepsPath ==
    ASSUME ReplInv, NEW x \in Sessions, x = repl.session, NEW role \in {"user", "assistant"}, NEW parent \in Nat,
           AddChat(role, parent),
           parent = IF ChatsOf(x) = {} THEN None ELSE LastOf(ChatsOf(x))
    PROVE  /\ OnePath'
           /\ \A s \in Sessions :
                 ChatsOf(s)' = ChatsOf(s) \cup (IF s = x THEN {Len(chats) + 1} ELSE {})
           /\ LastOf(ChatsOf(x)') = Len(chats) + 1
           /\ \A c \in DOMAIN chats : c \in DOMAIN chats' /\ chats'[c] = chats[c]
           /\ Len(chats) + 1 \in DOMAIN chats'
<1>0. ReplTypeOK /\ OnePath /\ repl.session \in Sessions
  BY PiIs DEF ReplInv
<1>1. /\ DOMAIN chats' = 1..(Len(chats) + 1) /\ DOMAIN chats = 1..Len(chats)
      /\ Len(chats) \in Nat
      /\ \A i \in DOMAIN chats : chats'[i] = chats[i]
      /\ chats'[Len(chats) + 1].session = repl.session
      /\ chats'[Len(chats) + 1].parent = parent
      /\ \A s : \A i \in ChatsOf(s) : i \in Nat /\ i <= Len(chats)
  BY <1>0, AddsFacts, ChatsAre
<1> DEFINE n == Len(chats) + 1
<1>2. \A s \in Sessions : ChatsOf(s)' = ChatsOf(s) \cup (IF s = x THEN {n} ELSE {})
  <2> TAKE s \in Sessions
  <2>1. \A i : i \in DOMAIN chats' <=> i \in DOMAIN chats \/ i = n
    BY <1>1
  <2>2. n \notin DOMAIN chats
    BY <1>1
  <2> HIDE DEF n
  <2>3. chats'[n].session = repl.session
    BY <1>1 DEF n
  <2> QED
    BY <1>1, <2>1, <2>2, <2>3 DEF ChatsOf
<1>3. LastOf(ChatsOf(x)') = n
  <2>1. /\ ChatsOf(x)' \in SUBSET Nat /\ n \in ChatsOf(x)'
        /\ \A j \in ChatsOf(x)' : j <= n
    <3>1. ChatsOf(x)' = ChatsOf(x) \cup {n} /\ n \in Nat
      BY <1>1, <1>2
    <3> QED
      BY <1>1, <3>1
  <2> QED
    BY <2>1, LastIs
<1>4. OnePath'
  <2> SUFFICES ASSUME NEW i \in DOMAIN chats'
               PROVE  LET before == {j \in 1..(i - 1) : chats'[j].session = chats'[i].session}
                      IN  chats'[i].parent = IF before = {} THEN None ELSE LastOf(before)
    BY DEF OnePath
  <2> DEFINE before == {j \in 1..(i - 1) : chats'[j].session = chats'[i].session}
             was == {j \in 1..(i - 1) : chats[j].session = chats[i].session}
  <2>1. CASE i \in DOMAIN chats
    <3>1. before = was
      BY <1>1, <2>1
    <3>2. chats[i].parent = IF was = {} THEN None ELSE LastOf(was)
      BY <1>0, <2>1 DEF OnePath
    <3> QED
      BY <1>1, <2>1, <3>1, <3>2
  <2>2. CASE i = n
    <3>1. before = ChatsOf(x)
      BY <1>1, <2>2 DEF ChatsOf
    <3> QED
      BY <1>1, <2>2, <3>1
  <2> QED
    BY <1>1, <2>1, <2>2
<1> QED
  BY <1>1, <1>2, <1>3, <1>4

LEMMA SavesKeepDatabase ==
    ASSUME ReplInv, SaveUser \/ SaveReply
    PROVE  OnePath' /\ SnapshotIsOfItsSession' /\ AppendsToTheEnd'
<1>0. /\ ReplTypeOK /\ OnePath /\ SnapshotIsOfItsSession /\ AppendsToTheEnd
      /\ repl.session \in Sessions /\ run \in 1..MaxRuns /\ repl.turns \in Seq(Nat)
      /\ repl.started \in BOOLEAN /\ repl.session \in Nat /\ ended \in Nat
  BY PiIs DEF ReplInv, ReplTypeOK, Sessions
<1> DEFINE n == Len(chats) + 1
<1>1. /\ run' = run /\ snapshots' = snapshots
      /\ pc' \in {"reply", "snapshot"}
  BY DEF SaveUser, SaveReply, saveUnchanged, Goes
<1>x. PICK x \in Sessions : x = repl.session
  BY <1>0
<1>2. PICK role \in {"user", "assistant"}, parent \in Nat :
         /\ AddChat(role, parent)
         /\ parent = IF ChatsOf(x) = {} THEN None ELSE LastOf(ChatsOf(x))
         /\ repl'.session = repl.session /\ repl'.started /\ repl'.last = n
         /\ \/ repl'.turns = repl.turns /\ pc' = "reply" /\ pc = "user"
            \/ /\ repl'.turns = Append(repl.turns, ended) /\ role = "assistant"
               /\ pc' = "snapshot"
  <2>1. CASE SaveUser
    <3> DEFINE parent == IF repl.started THEN repl.last ELSE None
    <3>1. /\ AddChat("user", parent) /\ parent \in Nat
          /\ repl'.session = repl.session /\ repl'.started /\ repl'.last = n
          /\ repl'.turns = repl.turns
      BY <1>0, <2>1, SaveUserFacts
    <3>2. parent = IF ChatsOf(x) = {} THEN None ELSE LastOf(ChatsOf(x))
      BY <1>0, <1>x DEF AppendsToTheEnd
    <3>3. pc = "user" /\ pc' = "reply"
      BY <2>1 DEF SaveUser, Goes
    <3> HIDE DEF parent, n
    <3> QED
      BY <3>1, <3>2, <3>3
  <2>2. CASE SaveReply
    <3>1. /\ AddChat("assistant", repl.last) /\ repl.last \in Nat
          /\ repl'.session = repl.session /\ repl'.started = repl.started /\ repl'.last = n
          /\ repl'.turns = Append(repl.turns, ended)
      BY <1>0, <2>2, SaveReplyFacts
    <3>2. /\ pc = "reply" /\ pc' = "snapshot"
      BY <2>2 DEF SaveReply, Goes
    <3>3. repl.started /\ repl.last \in ChatsOf(x)
          /\ repl.last = LastOf(ChatsOf(x))
      BY <1>0, <1>x, <3>2 DEF AppendsToTheEnd
    <3> HIDE DEF n
    <3> QED
      BY <3>1, <3>2, <3>3
  <2> QED
    BY <2>1, <2>2
<1>3. /\ OnePath'
      /\ \A s \in Sessions :
            ChatsOf(s)' = ChatsOf(s) \cup (IF s = x THEN {n} ELSE {})
      /\ LastOf(ChatsOf(x)') = n
      /\ \A c \in DOMAIN chats : c \in DOMAIN chats' /\ chats'[c] = chats[c]
      /\ n \in DOMAIN chats'
  BY <1>x, <1>2, AddKeepsPath
<1>4. chats'[n].session = repl.session /\ chats'[n].role = role /\ chats'[n].turn = ended
  BY <1>0, <1>2, AddsFacts
<1> HIDE DEF n
<1>5. \A i \in DOMAIN repl'.turns :
         \E c \in DOMAIN chats' : /\ chats'[c].session = repl.session
                                  /\ chats'[c].role = "assistant"
                                  /\ chats'[c].turn = repl'.turns[i]
  <2>1. \A i \in DOMAIN repl.turns :
           \E c \in DOMAIN chats' : /\ chats'[c].session = repl.session
                                    /\ chats'[c].role = "assistant"
                                    /\ chats'[c].turn = repl.turns[i]
    BY <1>0, <1>3 DEF AppendsToTheEnd
  <2>2. CASE repl'.turns = repl.turns
    BY <2>1, <2>2
  <2>3. CASE repl'.turns = Append(repl.turns, ended) /\ role = "assistant"
    <3>1. \A i \in DOMAIN Append(repl.turns, ended) :
             \/ i \in DOMAIN repl.turns /\ Append(repl.turns, ended)[i] = repl.turns[i]
             \/ Append(repl.turns, ended)[i] = ended
      <4>1. /\ DOMAIN repl.turns = 1..Len(repl.turns) /\ Len(repl.turns) \in Nat
            /\ DOMAIN Append(repl.turns, ended) = 1..(Len(repl.turns) + 1)
            /\ \A i \in DOMAIN repl.turns : Append(repl.turns, ended)[i] = repl.turns[i]
            /\ Append(repl.turns, ended)[Len(repl.turns) + 1] = ended
        BY <1>0, PipeAdds
      <4> QED
        BY <4>1
    <3> QED
      BY <1>3, <1>4, <2>1, <2>3, <3>1
  <2> QED
    BY <1>2, <2>2, <2>3
<1>6. AppendsToTheEnd'
  <2>1. \A s \in Sessions : ChatsOf(s)' # {} => LastOf(ChatsOf(s)') \in ChatsOf(s)'
    <3> TAKE s \in Sessions
    <3>1. CASE s = x
      BY <1>3, <3>1
    <3>2. CASE s # x
      <4>1. ChatsOf(s)' = ChatsOf(s)
        BY <1>3, <3>2
      <4> QED
        BY <1>0, <4>1 DEF AppendsToTheEnd
    <3> QED
      BY <3>1, <3>2
  <2>2. /\ repl'.last \in ChatsOf(x)' /\ repl'.last = LastOf(ChatsOf(x)')
        /\ repl'.session = x
    BY <1>0, <1>x, <1>2, <1>3
  <2>3. \A s \in Sessions : s > run => ChatsOf(s)' = {} /\ snapshots[s] = <<>>
    BY <1>0, <1>x, <1>3 DEF AppendsToTheEnd, Sessions
  <2>4. pc' # "snapshot" => repl'.turns = snapshots[repl.session]
    BY <1>0, <1>2 DEF AppendsToTheEnd
  <2> QED
    <3>1. /\ repl'.started /\ repl'.session <= run' /\ pc' # "ended" /\ pc' # "failed"
          /\ repl'.session = repl.session
      BY <1>0, <1>1, <1>2 DEF AppendsToTheEnd
    <3>2. (repl.last \in ChatsOf(repl.session) /\ repl.last = LastOf(ChatsOf(repl.session)))'
      BY <2>2 DEF ChatsOf
    <3> QED
      BY <1>1, <1>5, <2>1, <2>3, <2>4, <3>1, <3>2 DEF AppendsToTheEnd
<1>7. SnapshotIsOfItsSession'
  <2>1. \A s \in Sessions : \A i \in DOMAIN snapshots[s] :
           \E c \in DOMAIN chats' : /\ chats'[c].session = s
                                    /\ chats'[c].role = "assistant"
                                    /\ chats'[c].turn = snapshots[s][i]
    BY <1>0, <1>3 DEF SnapshotIsOfItsSession
  <2> QED
    BY <1>1, <2>1 DEF SnapshotIsOfItsSession
<1> QED
  BY <1>3, <1>6, <1>7

LEMMA SnapshotKeepsDatabase ==
    ASSUME ReplInv, SaveSnapshot
    PROVE  OnePath' /\ SnapshotIsOfItsSession' /\ AppendsToTheEnd'
<1>0. /\ ReplTypeOK /\ OnePath /\ SnapshotIsOfItsSession /\ AppendsToTheEnd
      /\ repl.session \in Sessions /\ run \in 1..MaxRuns /\ snapshots \in [Sessions -> Seq(Nat)]
  BY PiIs DEF ReplInv, ReplTypeOK
<1>1. /\ run' = run /\ chats' = chats /\ repl' = repl /\ pc' = "input"
      /\ snapshots' = [snapshots EXCEPT ![repl.session] = repl.turns]
      /\ pc = "snapshot"
  BY DEF SaveSnapshot, saveUnchanged, Goes
<1>2. /\ \A s \in Sessions : snapshots'[s] = IF s = repl.session THEN repl.turns ELSE snapshots[s]
      /\ ~(repl.session > run)
  BY <1>0, <1>1 DEF AppendsToTheEnd, Sessions
<1>3. OnePath'
  BY <1>0, <1>1 DEF OnePath
<1>4. AppendsToTheEnd'
  BY <1>0, <1>1, <1>2 DEF AppendsToTheEnd, ChatsOf
<1>5. SnapshotIsOfItsSession'
  BY <1>0, <1>1, <1>2 DEF SnapshotIsOfItsSession, AppendsToTheEnd
<1> QED
  BY <1>3, <1>4, <1>5

LEMMA ResumeKeepsDatabase ==
    ASSUME ReplInv, NEW s \in Sessions, Resume(s)
    PROVE  OnePath' /\ SnapshotIsOfItsSession' /\ AppendsToTheEnd'
<1>0. /\ ReplTypeOK /\ OnePath /\ SnapshotIsOfItsSession /\ AppendsToTheEnd /\ run \in 1..MaxRuns
  BY DEF ReplInv, ReplTypeOK
<1>1. /\ run' = run /\ chats' = chats /\ snapshots' = snapshots /\ pc' = pc /\ pc = "input"
  BY DEF Resume, typingUnchanged, Types
<1>2. /\ ChatsOf(s) # {} /\ LastOf(ChatsOf(s)) \in ChatsOf(s)
      /\ repl'.session = s /\ repl'.started
      /\ repl'.last = LastOf(ChatsOf(s)) /\ repl'.turns = snapshots[s]
  BY <1>0, ResumeFacts
<1>3. s <= run
  BY <1>0, <1>2 DEF AppendsToTheEnd, Sessions
<1>4. OnePath'
  BY <1>0, <1>1 DEF OnePath
<1>5. AppendsToTheEnd'
  <2>1. \A x \in Sessions : ChatsOf(x)' = ChatsOf(x)
    BY <1>1 DEF ChatsOf
  <2>2. \A i \in DOMAIN snapshots[s] :
           \E c \in DOMAIN chats : /\ chats[c].session = s
                                   /\ chats[c].role = "assistant"
                                   /\ chats[c].turn = snapshots[s][i]
    BY <1>0 DEF SnapshotIsOfItsSession
  <2> QED
    BY <1>0, <1>1, <1>2, <1>3, <2>1, <2>2 DEF AppendsToTheEnd
<1>6. SnapshotIsOfItsSession'
  BY <1>0, <1>1, <1>2 DEF SnapshotIsOfItsSession
<1> QED
  BY <1>4, <1>5, <1>6

LEMMA RerunKeepsDatabase ==
    ASSUME ReplInv, Rerun
    PROVE  OnePath' /\ SnapshotIsOfItsSession' /\ AppendsToTheEnd'
<1>0. /\ ReplTypeOK /\ OnePath /\ SnapshotIsOfItsSession /\ AppendsToTheEnd /\ run \in 1..MaxRuns
  BY DEF ReplInv, ReplTypeOK
<1>1. /\ run' = run + 1 /\ chats' = chats /\ snapshots' = snapshots /\ pc' = "load"
      /\ run' \in Sessions
  BY <1>0 DEF Rerun, Goes, Sessions
<1>2. /\ repl'.session = run' /\ ~repl'.started /\ repl'.turns = <<>>
  BY <1>0, RerunFacts
<1>3. OnePath'
  BY <1>0, <1>1 DEF OnePath
<1>4. ChatsOf(run') = {} /\ snapshots[run'] = <<>>
  BY <1>0, <1>1 DEF AppendsToTheEnd
<1>5. AppendsToTheEnd'
  <2>1. \A x \in Sessions : ChatsOf(x)' = ChatsOf(x)
    BY <1>1 DEF ChatsOf
  <2>2. \A x \in Sessions : x > run' => x > run
    BY <1>0, <1>1 DEF Sessions
  <2>3. run' <= run' /\ DOMAIN <<>> = {}
    BY <1>0, <1>1
  <2> QED
    BY <1>0, <1>1, <1>2, <1>4, <2>1, <2>2, <2>3 DEF AppendsToTheEnd
<1>6. SnapshotIsOfItsSession'
  BY <1>0, <1>1 DEF SnapshotIsOfItsSession
<1> QED
  BY <1>3, <1>5, <1>6

LEMMA DatabaseKeeps ==
    ASSUME ReplInv, ReplNext
    PROVE  OnePath' /\ SnapshotIsOfItsSession' /\ AppendsToTheEnd'
<1>0. ReplTypeOK
  BY DEF ReplInv
<1>1. CASE Load \/ TooManyRetries \/ LoadFails \/ Download \/ DownloadFails \/ Deleted
  <2>1. /\ chats' = chats /\ snapshots' = snapshots /\ run' = run /\ repl' = repl
        /\ pc \in {"load", "download"} /\ pc' \in {"load", "download", "input", "failed"}
    BY <1>1 DEF Load, TooManyRetries, LoadFails, Download, DownloadFails, Deleted, Goes, loadUnchanged
  <2> QED
    BY <2>1, DatabaseStays
<1>2. CASE LoopSteps \/ StateFails
  BY <1>0, <1>2, LoopTypes, DatabaseStays
<1>3. CASE SaveUser \/ SaveReply
  BY <1>3, SavesKeepDatabase
<1>4. CASE SaveSnapshot
  BY <1>4, SnapshotKeepsDatabase
<1>5. CASE PiObeys \/ PiEnds \/ PiErrs \/ PiRetries \/ PiGarbles \/ PiCrashes
  <2>1. /\ chats' = chats /\ snapshots' = snapshots /\ run' = run /\ repl' = repl /\ pc' = pc
    BY <1>5 DEF PiObeys, PiEnds, PiErrs, PiRetries, PiGarbles, PiCrashes, piUnchanged
  <2> QED
    BY <2>1, DatabaseStays
<1>6. CASE TypePrompt
  <2>1. /\ chats' = chats /\ snapshots' = snapshots /\ run' = run
    BY <1>6 DEF TypePrompt, typingUnchanged
  <2> QED
    BY <1>0, <1>6, <2>1, PromptFacts, DatabaseStays
<1>7. CASE TypeCommand
  <2>1. /\ chats' = chats /\ snapshots' = snapshots /\ run' = run
    BY <1>7 DEF TypeCommand, typingUnchanged
  <2>2. repl' = repl /\ pc = "input" /\ pc' \in {"reads", "failed"}
    BY <1>0, <1>7, CommandFacts
  <2> QED
    BY <2>1, <2>2, DatabaseStays
<1>8. CASE \E s \in Sessions : Resume(s)
  BY <1>8, ResumeKeepsDatabase
<1>9. CASE ResumePanics \/ Exit \/ CtrlC \/ SaveFails
  <2>1. /\ chats' = chats /\ snapshots' = snapshots /\ run' = run /\ repl' = repl
        /\ pc' = pc \/ pc' \in {"ended", "failed"}
    BY <1>9 DEF ResumePanics, Exit, CtrlC, SaveFails, typingUnchanged, Goes
  <2> QED
    BY <2>1, DatabaseStays
<1>10. CASE Rerun
  BY <1>10, RerunKeepsDatabase
<1> QED
  BY <1>1, <1>2, <1>3, <1>4, <1>5, <1>6, <1>7, <1>8, <1>9, <1>10
  DEF ReplNext, Loading, Saving, PiWorks, User, Misfortune

-------------------------------------------------------------------------------
(* What is under way between the REPL and Pi *)

Idle == {"load", "download", "input", "user", "reply", "snapshot"}

\* What is enough after a step, by where the REPL is then.
LEMMA StopsAnswer ==
    ASSUME pc' \in {"ended", "failed"}, ~pi'.up => pi'.in = <<>> /\ pi'.work = None,
           pc' = "ended" => ended' = None, InStep' /\ ended' # None => ended' = inputs'
    PROVE  AnswerIsTheNext'
BY DEF AnswerIsTheNext

LEMMA IdleAnswers ==
    ASSUME pc' \in Idle, ~pi'.up => pi'.in = <<>> /\ pi'.work = None,
           pc' \notin {"user", "reply", "snapshot"} => ended' = None,
           InStep' /\ ended' # None => ended' = inputs',
           InStep' => Without(pi'.in, Awaited) /\ pi'.work = None /\ Without(pi'.out, Enders),
           InStep' /\ pi'.up => Shows(repl'.level, pi'.level)
    PROVE  AnswerIsTheNext'
<1>1. InStep' => NothingAwaited' /\ LevelShown'
  BY DEF NothingAwaited, LevelShown
<1>2. InStep' => OneWait'
  BY DEF OneWait, AtMostOne, Without
<1> QED
  BY <1>1, <1>2 DEF AnswerIsTheNext, Idle

LEMMA ReadsAnswer ==
    ASSUME pc' = "reads", ~pi'.up => pi'.in = <<>> /\ pi'.work = None, ended' = None,
           InStep' => OneWait',
           InStep' => /\ \A i \in DOMAIN pi'.in : Fits(pi.in[i].kind, pi.in[i].of)'
                      /\ \A i \in DOMAIN pi'.out : Fits(pi.out[i].kind, pi.out[i].of)'
                      /\ pi'.work # None => Fits("end", pi.work)'
    PROVE  AnswerIsTheNext'
BY DEF AnswerIsTheNext

\* What is known before a step.
LEMMA AnswerFacts ==
    ASSUME ReplInv
    PROVE  /\ pi.in \in Seq(PiCommands) /\ pi.out \in Seq(PiLines) /\ pi.work \in 0..MaxInputs
           /\ \A i \in DOMAIN pi.in :
                 pi.in[i].kind \in {"prompt", "abort", "get_commands", "get_state"} \cup Levels
           /\ \A i \in DOMAIN pi.out :
                 pi.out[i].kind \in {"accepted", "refused", "end", "error", "settled", "aborted",
                                     "junk", "get_commands", "state"} \cup Levels
           /\ ~pi.up => pi.in = <<>> /\ pi.work = None
           /\ pc \notin {"user", "reply", "snapshot", "failed"} => ended = None
           /\ InStep /\ ended # None => ended = inputs
           /\ InStep /\ pc \in Idle =>
                 /\ Without(pi.in, Awaited) /\ pi.work = None /\ Without(pi.out, Enders)
                 /\ pi.up => Shows(repl.level, pi.level)
           /\ InStep /\ pc \in {"reads", "asks"} =>
                 /\ AtMostOne(pi.in, Awaited) /\ AtMostOne(pi.out, Enders)
                 /\ pi.work # None \/ ~Without(pi.out, Enders) => Without(pi.in, Awaited)
                 /\ pi.work # None => Without(pi.out, Enders)
           /\ InStep /\ pc = "reads" =>
                 /\ \A i \in DOMAIN pi.in : Fits(pi.in[i].kind, pi.in[i].of)
                 /\ \A i \in DOMAIN pi.out : Fits(pi.out[i].kind, pi.out[i].of)
                 /\ pi.work # None => Fits("end", pi.work)
           /\ InStep /\ pc = "asks" =>
                 /\ Without(pi.in, Awaited \ {"get_state"}) /\ pi.work = None
                 /\ Without(pi.out, Enders \ {"state"})
                 /\ \A i \in DOMAIN pi.out :
                       pi.out[i].kind = "state" => pi.out[i].of = pi.level
<1>1. /\ pi.in \in Seq(PiCommands) /\ pi.out \in Seq(PiLines) /\ pi.work \in 0..MaxInputs
  BY PiIs DEF ReplInv
<1>2. \A i \in DOMAIN pi.in :
         pi.in[i].kind \in {"prompt", "abort", "get_commands", "get_state"} \cup Levels
  <2>1. \A i \in DOMAIN pi.in : pi.in[i] \in PiCommands
    BY <1>1
  <2> QED
    BY <2>1 DEF PiCommands
<1>3. \A i \in DOMAIN pi.out :
         pi.out[i].kind \in {"accepted", "refused", "end", "error", "settled", "aborted",
                             "junk", "get_commands", "state"} \cup Levels
  <2>1. \A i \in DOMAIN pi.out : pi.out[i] \in PiLines
    BY <1>1
  <2> QED
    BY <2>1 DEF PiLines
<1>4. AnswerIsTheNext
  BY DEF ReplInv
<1>5. InStep /\ pc \in Idle =>
         /\ Without(pi.in, Awaited) /\ pi.work = None /\ Without(pi.out, Enders)
         /\ pi.up => Shows(repl.level, pi.level)
  BY <1>4 DEF AnswerIsTheNext, NothingAwaited, LevelShown, Idle
<1>6. InStep /\ pc \in {"reads", "asks"} =>
         /\ AtMostOne(pi.in, Awaited) /\ AtMostOne(pi.out, Enders)
         /\ pi.work # None \/ ~Without(pi.out, Enders) => Without(pi.in, Awaited)
         /\ pi.work # None => Without(pi.out, Enders)
  BY <1>4 DEF AnswerIsTheNext, OneWait
<1> QED
  BY <1>1, <1>2, <1>3, <1>4, <1>5, <1>6 DEF AnswerIsTheNext

\* Nothing passes between them.
LEMMA PiRests ==
    ASSUME ReplInv, pi' = pi, repl'.level = repl.level, InStep' => InStep,
           \/ pc' = pc /\ ended' = ended /\ inputs' = inputs
           \/ /\ pc \in Idle \cup {"ended", "failed"} /\ pc' \in {"ended", "failed"}
              /\ ended' = ended /\ (ended = None \/ inputs' = inputs)
              /\ pc' = "ended" => ended = None
           \/ /\ pc \in Idle /\ pc' \in Idle
              /\ ended' = None \/ (ended' = ended /\ inputs' = inputs)
              /\ pc' \notin {"user", "reply", "snapshot"} => ended' = None
    PROVE  AnswerIsTheNext'
<1>1. CASE pc' = pc /\ ended' = ended /\ inputs' = inputs
  BY <1>1 DEF ReplInv, AnswerIsTheNext, OneWait, NothingAwaited, LevelShown, Fits
<1>2. CASE /\ pc \in Idle \cup {"ended", "failed"} /\ pc' \in {"ended", "failed"}
           /\ ended' = ended /\ (ended = None \/ inputs' = inputs)
           /\ pc' = "ended" => ended = None
  BY <1>2, AnswerFacts, StopsAnswer
<1>3. CASE /\ pc \in Idle /\ pc' \in Idle
           /\ ended' = None \/ (ended' = ended /\ inputs' = inputs)
           /\ pc' \notin {"user", "reply", "snapshot"} => ended' = None
  BY <1>3, AnswerFacts, IdleAnswers
<1> QED
  BY <1>1, <1>2, <1>3

-------------------------------------------------------------------------------
(* What is under way, after the steps of the loop *)

\* Fits, of a line in any state.
Suits(kind, of, n, up, shown, level) ==
    /\ kind \notin {"get_state", "state"}
    /\ kind \in {"prompt", "end", "error"} => of = n
    /\ kind \in {"prompt", "get_commands", "refused", "end", "error"} => (up => Shows(shown, level))

LEMMA ReadsSuit ==
    ASSUME ReplInv, InStep, pc = "reads"
    PROVE  /\ \A i \in DOMAIN pi.in :
                 Suits(pi.in[i].kind, pi.in[i].of, inputs, pi.up, repl.level, pi.level)
           /\ \A i \in DOMAIN pi.out :
                 Suits(pi.out[i].kind, pi.out[i].of, inputs, pi.up, repl.level, pi.level)
           /\ pi.work # None => Suits("end", pi.work, inputs, pi.up, repl.level, pi.level)
BY AnswerFacts DEF Fits, Suits, LevelShown

LEMMA SuitsAnswer ==
    ASSUME pc' = "reads", ~pi'.up => pi'.in = <<>> /\ pi'.work = None, ended' = None,
           InStep' =>
              /\ AtMostOne(pi'.in, Awaited) /\ AtMostOne(pi'.out, Enders)
              /\ pi'.work # None \/ ~Without(pi'.out, Enders) => Without(pi'.in, Awaited)
              /\ pi'.work # None => Without(pi'.out, Enders)
              /\ \A i \in DOMAIN pi'.in :
                    Suits(pi'.in[i].kind, pi'.in[i].of, inputs', pi'.up, repl'.level, pi'.level)
              /\ \A i \in DOMAIN pi'.out :
                    Suits(pi'.out[i].kind, pi'.out[i].of, inputs', pi'.up, repl'.level, pi'.level)
              /\ pi'.work # None =>
                    Suits("end", pi'.work, inputs', pi'.up, repl'.level, pi'.level)
    PROVE  AnswerIsTheNext'
<1>1. InStep' => OneWait'
  BY DEF OneWait
<1>2. InStep' => /\ \A i \in DOMAIN pi'.in : Fits(pi.in[i].kind, pi.in[i].of)'
                 /\ \A i \in DOMAIN pi'.out : Fits(pi.out[i].kind, pi.out[i].of)'
                 /\ pi'.work # None => Fits("end", pi.work)'
  BY DEF Fits, Suits, LevelShown
<1> QED
  BY <1>1, <1>2, ReadsAnswer

LEMMA AsksAnswer ==
    ASSUME pc' = "asks", ~pi'.up => pi'.in = <<>> /\ pi'.work = None, ended' = None,
           InStep' =>
              /\ AtMostOne(pi'.in, Awaited) /\ AtMostOne(pi'.out, Enders)
              /\ ~Without(pi'.out, Enders) => Without(pi'.in, Awaited)
              /\ Without(pi'.in, Awaited \ {"get_state"}) /\ pi'.work = None
              /\ Without(pi'.out, Enders \ {"state"})
              /\ \A i \in DOMAIN pi'.out : pi'.out[i].kind = "state" => pi'.out[i].of = pi'.level
    PROVE  AnswerIsTheNext'
<1>1. InStep' => OneWait'
  BY DEF OneWait
<1> QED
  BY <1>1 DEF AnswerIsTheNext

\* A line is taken that ends no wait, and no command written but abort.
LEMMA SkipAnswers ==
    ASSUME ReplInv, pc = "reads", pc' = "reads", pi.out # <<>>, pi'.out = Tail(pi.out),
           pi'.in = pi.in \/ (pi.up /\ pi'.in = Append(pi.in, PiLine("abort", 0))),
           pi'.up = pi.up, pi'.work = pi.work, pi'.level = pi.level,
           repl'.level = repl.level, inputs' = inputs, ended' = ended, InStep' => InStep
    PROVE  AnswerIsTheNext'
<1> DEFINE a == PiLine("abort", 0)
<1>1. /\ pi.in \in Seq(PiCommands) /\ pi.out \in Seq(PiLines)
      /\ ~pi.up => pi.in = <<>> /\ pi.work = None
      /\ ended = None
  BY AnswerFacts
<1>2. a \in PiCommands /\ a.kind = "abort" /\ "abort" \notin Awaited
  BY PiLineFacts DEF Awaited, Levels
<1> HIDE DEF a
<1> SUFFICES ASSUME InStep
             PROVE  /\ AtMostOne(pi'.in, Awaited) /\ AtMostOne(pi'.out, Enders)
                    /\ pi'.work # None \/ ~Without(pi'.out, Enders) => Without(pi'.in, Awaited)
                    /\ pi'.work # None => Without(pi'.out, Enders)
                    /\ \A i \in DOMAIN pi'.in :
                          Suits(pi'.in[i].kind, pi'.in[i].of, inputs, pi.up, repl.level, pi.level)
                    /\ \A i \in DOMAIN pi'.out :
                          Suits(pi'.out[i].kind, pi'.out[i].of, inputs, pi.up, repl.level, pi.level)
                    /\ pi'.work # None =>
                          Suits("end", pi.work, inputs, pi.up, repl.level, pi.level)
  BY <1>1, SuitsAnswer DEF a
<1>3. /\ AtMostOne(pi.in, Awaited) /\ AtMostOne(pi.out, Enders)
      /\ pi.work # None \/ ~Without(pi.out, Enders) => Without(pi.in, Awaited)
      /\ pi.work # None => Without(pi.out, Enders)
  BY AnswerFacts
<1>4. /\ \A i \in DOMAIN pi.in :
            Suits(pi.in[i].kind, pi.in[i].of, inputs, pi.up, repl.level, pi.level)
      /\ \A i \in DOMAIN pi.out :
            Suits(pi.out[i].kind, pi.out[i].of, inputs, pi.up, repl.level, pi.level)
      /\ pi.work # None => Suits("end", pi.work, inputs, pi.up, repl.level, pi.level)
  BY ReadsSuit
<1>5. /\ Without(pi.out, Enders) => Without(pi'.out, Enders)
      /\ AtMostOne(pi'.out, Enders)
      /\ \A i \in DOMAIN pi'.out : i + 1 \in DOMAIN pi.out /\ pi'.out[i] = pi.out[i + 1]
  BY <1>1, <1>3, TakesOne
<1>6. /\ Without(pi.in, Awaited) => Without(pi'.in, Awaited)
      /\ AtMostOne(pi'.in, Awaited)
      /\ \A i \in DOMAIN pi'.in : (i \in DOMAIN pi.in /\ pi'.in[i] = pi.in[i]) \/ pi'.in[i] = a
  <2>1. CASE pi'.in = pi.in
    BY <1>3, <2>1
  <2>2. CASE pi'.in = Append(pi.in, a)
    BY <1>1, <1>2, <1>3, <2>2, AddsOne
  <2> QED
    BY <2>1, <2>2 DEF a
<1>7. \A i \in DOMAIN pi'.out :
         Suits(pi'.out[i].kind, pi'.out[i].of, inputs, pi.up, repl.level, pi.level)
  BY <1>4, <1>5
<1>8. \A i \in DOMAIN pi'.in :
         Suits(pi'.in[i].kind, pi'.in[i].of, inputs, pi.up, repl.level, pi.level)
  <2>1. Suits(a.kind, a.of, inputs, pi.up, repl.level, pi.level)
    BY <1>2 DEF Suits
  <2> QED
    BY <1>4, <1>6, <2>1
<1> QED
  BY <1>3, <1>4, <1>5, <1>6, <1>7, <1>8

\* The line that ended the wait is taken: nothing is left to wait for.
LEMMA EnderTaken ==
    ASSUME ReplInv, InStep, pc \in {"reads", "asks"}, pi.out # <<>>, nextLine.kind \in Enders
    PROVE  /\ pi.work = None /\ Without(pi.in, Awaited) /\ Without(Tail(pi.out), Enders)
           /\ pc = "reads" =>
                Suits(nextLine.kind, nextLine.of, inputs, pi.up, repl.level, pi.level)
           /\ pc = "asks" => (nextLine.kind = "state" => nextLine.of = pi.level)
<1>1. /\ pi.out \in Seq(PiLines) /\ AtMostOne(pi.out, Enders)
      /\ pi.work # None \/ ~Without(pi.out, Enders) => Without(pi.in, Awaited)
      /\ pi.work # None => Without(pi.out, Enders)
  BY AnswerFacts
<1>2. /\ 1 \in DOMAIN pi.out /\ nextLine = pi.out[1]
      /\ Without(pi.out, Enders) => nextLine.kind \notin Enders
      /\ AtMostOne(pi.out, Enders) /\ nextLine.kind \in Enders => Without(Tail(pi.out), Enders)
  BY <1>1, TakesOne DEF nextLine
<1>3. pc = "reads" =>
         Suits(pi.out[1].kind, pi.out[1].of, inputs, pi.up, repl.level, pi.level)
  BY <1>2, ReadsSuit
<1>4. pc = "asks" => (pi.out[1].kind = "state" => pi.out[1].of = pi.level)
  BY <1>2, AnswerFacts
<1> QED
  BY <1>1, <1>2, <1>3, <1>4

LEMMA LoopAnswers ==
    ASSUME ReplInv, LoopSteps \/ StateFails
    PROVE  AnswerIsTheNext'
<1>1. /\ ReplTypeOK /\ pi.in \in Seq(PiCommands) /\ pi.out \in Seq(PiLines)
      /\ ~pi.up => pi.in = <<>> /\ pi.work = None
      /\ pc \notin {"user", "reply", "snapshot", "failed"} => ended = None
  BY AnswerFacts DEF ReplInv
<1>2. /\ pc \in {"reads", "asks"} /\ inputs' = inputs /\ ended = None
      /\ InStep' => InStep
  BY <1>1, LoopTypes DEF LoopSteps, Interrupt, Ignore, Respond, LevelSet, Unparsed, StateSkip,
       LevelRead, StateFails, OutputEnds, AgentEnd, loopUnchanged, InStep, Happens
<1>3. CASE Interrupt
  <2>1. /\ pc = "reads" /\ pi.out # <<>> /\ repl' = repl /\ ended' = ended
    BY <1>3 DEF Interrupt, HasLine
  <2>2. CASE pi.up
    <3>1. pi' = [pi EXCEPT !.out = Tail(@), !.in = Append(@, PiLine("abort", 0))] /\ pc' = pc
      BY <1>3, <2>2 DEF Interrupt
    <3>2. PiLine("abort", 0) \in PiCommands
      BY PiLineFacts
    <3>3. /\ pi'.out = Tail(pi.out) /\ pi'.in = Append(pi.in, PiLine("abort", 0))
          /\ pi'.up = pi.up /\ pi'.work = pi.work /\ pi'.level = pi.level
      BY <1>1, <2>1, <3>1, <3>2, LoopWrites
    <3> QED
      BY <1>2, <2>1, <2>2, <3>1, <3>3, SkipAnswers
  <2>3. CASE ~pi.up
    <3>1. pi' = [pi EXCEPT !.out = Tail(@)] /\ pc' = "failed"
      BY <1>3, <2>3 DEF Interrupt, Goes
    <3>2. pi'.in = pi.in /\ pi'.work = pi.work
      BY <1>1, <2>1, <3>1, LoopTakes
    <3> QED
      BY <1>1, <1>2, <2>1, <2>3, <3>1, <3>2, StopsAnswer
  <2> QED
    BY <2>2, <2>3
<1>4. CASE Ignore
  <2>1. /\ pc = "reads" /\ pi.out # <<>> /\ repl' = repl /\ ended' = ended /\ pc' = pc
        /\ pi' = [pi EXCEPT !.out = Tail(@)]
    BY <1>4 DEF Ignore, HasLine
  <2>2. /\ pi'.out = Tail(pi.out) /\ pi'.in = pi.in
        /\ pi'.up = pi.up /\ pi'.work = pi.work /\ pi'.level = pi.level
    BY <1>1, <2>1, LoopTakes
  <2> QED
    BY <1>2, <2>1, <2>2, SkipAnswers
<1>5. CASE Respond
  <2>1. /\ pc = "reads" /\ pi.out # <<>> /\ repl' = repl /\ ended' = ended /\ pc' = "input"
        /\ pi' = [pi EXCEPT !.out = Tail(@)] /\ nextLine.kind \in {"refused", "get_commands"}
    BY <1>5 DEF Respond, HasLine, Goes
  <2>2. /\ pi'.out = Tail(pi.out) /\ pi'.in = pi.in
        /\ pi'.up = pi.up /\ pi'.work = pi.work /\ pi'.level = pi.level
    BY <1>1, <2>1, LoopTakes
  <2>3. nextLine.kind \in Enders
    BY <2>1 DEF Enders
  <2>4. InStep' => /\ pi.work = None /\ Without(pi.in, Awaited) /\ Without(Tail(pi.out), Enders)
                   /\ Suits(nextLine.kind, nextLine.of, inputs, pi.up, repl.level, pi.level)
    BY <1>2, <2>1, <2>3, EnderTaken
  <2>5. InStep' /\ pi.up => Shows(repl.level, pi.level)
    BY <2>1, <2>4 DEF Suits
  <2> QED
    BY <1>1, <1>2, <2>1, <2>2, <2>4, <2>5, IdleAnswers DEF Idle
<1>6. CASE LevelSet
  <2>1. /\ pc = "reads" /\ pi.out # <<>> /\ repl' = repl /\ ended' = ended
        /\ nextLine.kind \in Levels
    BY <1>6 DEF LevelSet, HasLine, Goes
  <2>2. CASE pi.up
    <3> DEFINE g == PiLine("get_state", 0)
    <3>1. pi' = [pi EXCEPT !.out = Tail(@), !.in = Append(@, PiLine("get_state", 0))] /\ pc' = "asks"
      BY <1>6, <2>2 DEF LevelSet, Goes
    <3>2. g \in PiCommands /\ g.kind = "get_state" /\ g.kind \notin Awaited \ {"get_state"}
      BY PiLineFacts DEF Awaited
    <3>3. /\ pi'.out = Tail(pi.out) /\ pi'.in = Append(pi.in, g)
          /\ pi'.up = pi.up /\ pi'.work = pi.work /\ pi'.level = pi.level
      BY <1>1, <2>1, <3>1, <3>2, LoopWrites
    <3> HIDE DEF g
    <3>4. nextLine.kind \in Enders
      BY <2>1 DEF Enders
    <3>5. InStep' => pi.work = None /\ Without(pi.in, Awaited) /\ Without(Tail(pi.out), Enders)
      BY <1>2, <2>1, <3>4, EnderTaken
    <3>6. InStep' => Without(pi.in, Awaited \ {"get_state"})
      BY <3>5 DEF Without
    <3>7. /\ InStep' => AtMostOne(pi'.in, Awaited) 
          /\ InStep' => Without(pi'.in, Awaited \ {"get_state"})
      BY <1>1, <3>2, <3>3, <3>5, <3>6, AddsOne
    <3>8. /\ InStep' => AtMostOne(pi'.out, Enders) /\ Without(pi'.out, Enders)
          /\ InStep' => Without(pi'.out, Enders \ {"state"})
          /\ InStep' => \A i \in DOMAIN pi'.out : pi'.out[i].kind # "state"
      BY <3>3, <3>5 DEF AtMostOne, Without, Enders
    <3> QED
      BY <1>1, <1>2, <2>1, <2>2, <3>1, <3>3, <3>5, <3>7, <3>8, AsksAnswer
  <2>3. CASE ~pi.up
    <3>1. pi' = [pi EXCEPT !.out = Tail(@)] /\ pc' = "failed"
      BY <1>6, <2>3 DEF LevelSet, Goes
    <3>2. pi'.in = pi.in /\ pi'.work = pi.work
      BY <1>1, <2>1, <3>1, LoopTakes
    <3> QED
      BY <1>1, <1>2, <2>1, <2>3, <3>1, <3>2, StopsAnswer
  <2> QED
    BY <2>2, <2>3
<1>7. CASE Unparsed
  <2>1. /\ pi.out # <<>> /\ ended' = ended /\ pc' = "failed" /\ pi' = [pi EXCEPT !.out = Tail(@)]
    BY <1>7 DEF Unparsed, HasLine, Goes
  <2>2. pi'.in = pi.in /\ pi'.work = pi.work /\ pi'.up = pi.up
    BY <1>1, <2>1, LoopTakes
  <2> QED
    BY <1>1, <1>2, <2>1, <2>2, StopsAnswer
<1>8. CASE StateSkip
  <2>1. /\ pc = "asks" /\ pc' = "asks" /\ pi.out # <<>> /\ ended' = ended
        /\ pi' = [pi EXCEPT !.out = Tail(@)]
    BY <1>8 DEF StateSkip
  <2>2. /\ pi'.out = Tail(pi.out) /\ pi'.in = pi.in
        /\ pi'.up = pi.up /\ pi'.work = pi.work /\ pi'.level = pi.level
    BY <1>1, <2>1, LoopTakes
  <2>3. InStep =>
          /\ AtMostOne(pi.in, Awaited) /\ AtMostOne(pi.out, Enders)
          /\ ~Without(pi.out, Enders) => Without(pi.in, Awaited)
          /\ Without(pi.in, Awaited \ {"get_state"}) /\ pi.work = None
          /\ Without(pi.out, Enders \ {"state"})
          /\ \A i \in DOMAIN pi.out : pi.out[i].kind = "state" => pi.out[i].of = pi.level
    BY <2>1, AnswerFacts
  <2>4. /\ \A i \in DOMAIN pi'.out : i + 1 \in DOMAIN pi.out /\ pi'.out[i] = pi.out[i + 1]
        /\ AtMostOne(pi.out, Enders) => AtMostOne(pi'.out, Enders)
        /\ Without(pi.out, Enders) => Without(pi'.out, Enders)
        /\ Without(pi.out, Enders \ {"state"}) => Without(pi'.out, Enders \ {"state"})
    BY <1>1, <2>1, <2>2, TakesOne
  <2> QED
    BY <1>1, <1>2, <2>1, <2>2, <2>3, <2>4, AsksAnswer
<1>9. CASE LevelRead
  <2>1. /\ pc = "asks" /\ pc' = "input" /\ pi.out # <<>> /\ ended' = ended
        /\ nextLine.kind = "state"
    BY <1>9 DEF LevelRead, Goes
  <2>2. /\ pi'.out = Tail(pi.out) /\ pi'.in = pi.in
        /\ pi'.up = pi.up /\ pi'.work = pi.work /\ pi'.level = pi.level
    BY <1>1, <1>9, LevelReadFacts
  <2>3. Shows(repl'.level, nextLine.of)
    BY <1>1, <1>9, LevelReadFacts
  <2>4. nextLine.kind \in Enders
    BY <2>1 DEF Enders
  <2>5. InStep' => /\ pi.work = None /\ Without(pi.in, Awaited) /\ Without(Tail(pi.out), Enders)
                   /\ nextLine.of = pi.level
    BY <1>2, <2>1, <2>4, EnderTaken
  <2> QED
    BY <1>1, <1>2, <2>1, <2>2, <2>3, <2>5, IdleAnswers DEF Idle
<1>10. CASE StateFails
  <2>1. pc' = "failed" /\ ended' = ended /\ pi' = pi
    BY <1>10 DEF StateFails, Goes
  <2> QED
    BY <1>1, <1>2, <2>1, StopsAnswer
<1>11. CASE OutputEnds
  <2>1. /\ pc = "reads" /\ pc' = "input" /\ pi.out = <<>> /\ ~pi.up /\ ended' = ended
        /\ pi' = pi /\ repl' = repl
    BY <1>11 DEF OutputEnds, Goes
  <2>2. pi'.in = <<>> /\ pi'.out = <<>> /\ pi'.work = None /\ ~pi'.up
    BY <1>1, <2>1
  <2> QED
    BY <1>2, <2>1, <2>2, NoLines, IdleAnswers DEF Idle
<1>12. CASE AgentEnd
  <2>1. /\ pc = "reads" /\ pi.out # <<>> /\ repl' = repl /\ ended' = nextLine.of
        /\ nextLine.kind \in {"end", "error"}
    BY <1>12 DEF AgentEnd, HasLine
  <2>2. nextLine.kind \in Enders
    BY <2>1 DEF Enders
  <2>3. InStep' => /\ pi.work = None /\ Without(pi.in, Awaited) /\ Without(Tail(pi.out), Enders)
                   /\ Suits(nextLine.kind, nextLine.of, inputs, pi.up, repl.level, pi.level)
    BY <1>2, <2>1, <2>2, EnderTaken
  <2>4. InStep' => nextLine.of = inputs /\ (pi.up => Shows(repl.level, pi.level))
    BY <2>1, <2>3 DEF Suits
  <2>5. CASE nextLine.kind = "error" /\ pi.up
    <3> DEFINE a == PiLine("abort", 0)
    <3>1. pi' = [[pi EXCEPT !.out = Tail(@)] EXCEPT !.in = Append(@, PiLine("abort", 0))] /\ pc' = "user"
      BY <1>12, <2>5 DEF AgentEnd, Goes
    <3>2. pi' = [pi EXCEPT !.out = Tail(@), !.in = Append(@, PiLine("abort", 0))]
      BY <1>1, <3>1 DEF ReplTypeOK, PiType
    <3>3. a \in PiCommands /\ a.kind \notin Awaited
      BY PiLineFacts DEF Awaited, Levels
    <3>4. /\ pi'.out = Tail(pi.out) /\ pi'.in = Append(pi.in, a)
          /\ pi'.up = pi.up /\ pi'.work = pi.work /\ pi'.level = pi.level
      BY <1>1, <2>1, <3>2, <3>3, LoopWrites
    <3> HIDE DEF a
    <3>5. InStep' => Without(pi'.in, Awaited)
      BY <1>1, <2>3, <3>3, <3>4, AddsOne
    <3> QED
      BY <1>1, <1>2, <2>1, <2>3, <2>4, <2>5, <3>1, <3>4, <3>5, IdleAnswers DEF Idle
  <2>6. CASE ~(nextLine.kind = "error" /\ pi.up)
    <3>1. pi' = [pi EXCEPT !.out = Tail(@)] /\ pc' \in {"user", "failed"}
      BY <1>12, <2>1, <2>6 DEF AgentEnd, Goes
    <3>2. /\ pi'.out = Tail(pi.out) /\ pi'.in = pi.in
          /\ pi'.up = pi.up /\ pi'.work = pi.work /\ pi'.level = pi.level
      BY <1>1, <2>1, <3>1, LoopTakes
    <3>3. CASE pc' = "user"
      BY <1>1, <1>2, <2>1, <2>3, <2>4, <3>2, <3>3, IdleAnswers DEF Idle
    <3>4. CASE pc' = "failed"
      BY <1>1, <1>2, <2>1, <2>4, <3>2, <3>4, StopsAnswer
    <3> QED
      BY <3>1, <3>3, <3>4
  <2> QED
    BY <2>5, <2>6
<1> QED
  BY <1>3, <1>4, <1>5, <1>6, <1>7, <1>8, <1>9, <1>10, <1>11, <1>12 DEF LoopSteps

-------------------------------------------------------------------------------
(* What is under way, after Pi's steps and the user's *)

\* Lines that end no wait come at the end of the output.
LEMMA PrintsNoEnder ==
    ASSUME ReplInv, pc' = pc, ended' = ended, inputs' = inputs, repl' = repl, InStep' => InStep,
           pi'.up = pi.up, pi'.work = pi.work, pi'.level = pi.level, pi'.in = pi.in,
           NEW x \in PiLines, pi'.out = Append(pi.out, x), x.kind \notin Enders
    PROVE  AnswerIsTheNext'
<1>1. /\ pi.out \in Seq(PiLines)
      /\ ~pi.up => pi.in = <<>> /\ pi.work = None
      /\ pc \notin {"user", "reply", "snapshot", "failed"} => ended = None
      /\ InStep /\ ended # None => ended = inputs
  BY AnswerFacts
<1>2. /\ Without(pi.out, Enders) => Without(pi'.out, Enders)
      /\ AtMostOne(pi.out, Enders) => AtMostOne(pi'.out, Enders)
      /\ Without(pi.out, Enders \ {"state"}) => Without(pi'.out, Enders \ {"state"})
      /\ \A i \in DOMAIN pi'.out :
            (i \in DOMAIN pi.out /\ pi'.out[i] = pi.out[i]) \/ pi'.out[i] = x
  BY <1>1, AddsOne
<1>3. CASE pc \in {"ended", "failed"}
  BY <1>1, <1>3, StopsAnswer
<1>4. CASE pc \in Idle
  BY <1>1, <1>2, <1>4, AnswerFacts, IdleAnswers DEF Idle
<1>5. CASE pc = "reads"
  <2>1. InStep => /\ AtMostOne(pi.in, Awaited) /\ AtMostOne(pi.out, Enders)
                  /\ pi.work # None \/ ~Without(pi.out, Enders) => Without(pi.in, Awaited)
                  /\ pi.work # None => Without(pi.out, Enders)
    BY <1>5, AnswerFacts
  <2>2. x.kind \in {"accepted", "settled", "aborted", "junk"}
    BY DEF PiLines, Enders
  <2>3. Suits(x.kind, x.of, inputs, pi.up, repl.level, pi.level)
    BY <2>2 DEF Suits
  <2>4. InStep => /\ \A i \in DOMAIN pi'.out :
                        Suits(pi'.out[i].kind, pi'.out[i].of, inputs, pi.up, repl.level, pi.level)
    BY <1>2, <1>5, <2>3, ReadsSuit
  <2>5. ~Without(pi'.out, Enders) => ~Without(pi.out, Enders)
    BY <1>2
  <2> QED
    BY <1>1, <1>2, <1>5, <2>1, <2>4, <2>5, ReadsSuit, SuitsAnswer
<1>6. CASE pc = "asks"
  <2>1. InStep =>
          /\ AtMostOne(pi.in, Awaited) /\ AtMostOne(pi.out, Enders)
          /\ ~Without(pi.out, Enders) => Without(pi.in, Awaited)
          /\ Without(pi.in, Awaited \ {"get_state"}) /\ pi.work = None
          /\ Without(pi.out, Enders \ {"state"})
          /\ \A i \in DOMAIN pi.out : pi.out[i].kind = "state" => pi.out[i].of = pi.level
    BY <1>6, AnswerFacts
  <2>2. x.kind # "state"
    BY DEF Enders
  <2> QED
    BY <1>1, <1>2, <1>6, <2>1, <2>2, AsksAnswer
<1> QED
  BY <1>3, <1>4, <1>5, <1>6 DEF ReplInv, ReplTypeOK, Places, Idle

\* The turn that Pi works on ends, at what the user waits for.
LEMMA EndsAnswer ==
    ASSUME ReplInv, pc' = pc, ended' = ended, inputs' = inputs, repl' = repl, InStep' => InStep,
           pi.up, pi'.up = pi.up, pi.work # None, pi'.work = None, pi'.level = pi.level,
           InStep /\ Without(pi.in, Awaited) => Without(pi'.in, Awaited) /\ AtMostOne(pi'.in, Awaited),
           InStep => \A i \in DOMAIN pi'.in :
              pi'.in[i].kind \in {"prompt", "abort", "get_commands", "get_state"} \cup Levels,
           NEW e \in PiLines, e.kind \in {"end", "error"}, e.of = pi.work,
           NEW x \in PiLines, NEW y \in PiLines, x.kind \notin Enders, y.kind \notin Enders,
           \/ pi'.out = Append(Append(pi.out, e), x)
           \/ pi'.out = Append(Append(Append(pi.out, e), x), y)
           \/ pi'.out = Append(Append(Append(pi.out, y), e), x)
    PROVE  AnswerIsTheNext'
<1>1. /\ pi.out \in Seq(PiLines)
      /\ pc \notin {"user", "reply", "snapshot", "failed"} => ended = None
      /\ InStep /\ ended # None => ended = inputs
      /\ InStep => pc \notin Idle /\ pc # "asks"
  BY AnswerFacts
<1>2. /\ Append(pi.out, e) \in Seq(PiLines) /\ Append(pi.out, y) \in Seq(PiLines)
      /\ Append(Append(pi.out, e), x) \in Seq(PiLines)
      /\ Append(Append(pi.out, y), e) \in Seq(PiLines)
  BY <1>1, PipeAdds
<1> DEFINE e1 == Append(pi.out, e)
           e2 == Append(e1, x)
           e3 == Append(e2, y)
           y1 == Append(pi.out, y)
           y2 == Append(y1, e)
           y3 == Append(y2, x)
<1>3. Without(pi.out, Enders) => AtMostOne(e1, Enders)
  BY <1>1, AddsOne
<1>4. Without(pi.out, Enders) => AtMostOne(e2, Enders)
  BY <1>2, <1>3, AddsOne
<1>5. Without(pi.out, Enders) => AtMostOne(e3, Enders)
  BY <1>2, <1>4, AddsOne
<1>6. Without(pi.out, Enders) => Without(y1, Enders)
  BY <1>1, AddsOne
<1>7. Without(pi.out, Enders) => AtMostOne(y2, Enders)
  BY <1>2, <1>6, AddsOne
<1>8. Without(pi.out, Enders) => AtMostOne(y3, Enders)
  BY <1>2, <1>7, AddsOne
<1>9. /\ \A i \in DOMAIN e1 : (i \in DOMAIN pi.out /\ e1[i] = pi.out[i]) \/ e1[i] = e
      /\ \A i \in DOMAIN y1 : (i \in DOMAIN pi.out /\ y1[i] = pi.out[i]) \/ y1[i] = y
  BY <1>1, AddsOne
<1>10. /\ \A i \in DOMAIN e2 : (i \in DOMAIN e1 /\ e2[i] = e1[i]) \/ e2[i] = x
       /\ \A i \in DOMAIN y2 : (i \in DOMAIN y1 /\ y2[i] = y1[i]) \/ y2[i] = e
  BY <1>2, AddsOne
<1>11. /\ \A i \in DOMAIN e3 : (i \in DOMAIN e2 /\ e3[i] = e2[i]) \/ e3[i] = y
       /\ \A i \in DOMAIN y3 : (i \in DOMAIN y2 /\ y3[i] = y2[i]) \/ y3[i] = x
  BY <1>2, AddsOne
<1>12. pi'.out = e2 \/ pi'.out = e3 \/ pi'.out = y3
  OBVIOUS
<1> HIDE DEF e1, e2, e3, y1, y2, y3
<1>13. \A i \in DOMAIN pi'.out :
          (i \in DOMAIN pi.out /\ pi'.out[i] = pi.out[i]) \/ pi'.out[i] \in {e, x, y}
  BY <1>9, <1>10, <1>11, <1>12
<1>14. Without(pi.out, Enders) => AtMostOne(pi'.out, Enders)
  BY <1>4, <1>5, <1>8, <1>12
<1>15. CASE ~InStep'
  BY <1>1, <1>15 DEF AnswerIsTheNext
<1>16. CASE InStep' /\ pc \in {"ended", "failed"}
  BY <1>1, <1>16, StopsAnswer
<1>17. CASE InStep' /\ pc = "reads"
  <2>0. /\ InStep /\ pc = "reads" /\ ended = None
    BY <1>1, <1>17
  <2>1. /\ Without(pi.out, Enders) /\ Without(pi.in, Awaited)
    BY <2>0, AnswerFacts
  <2>2. Suits("end", pi.work, inputs, pi.up, repl.level, pi.level)
    BY <2>0, ReadsSuit
  <2>3. Suits(e.kind, e.of, inputs, pi.up, repl.level, pi.level)
    BY <2>2 DEF Suits
  <2>4. /\ Suits(x.kind, x.of, inputs, pi.up, repl.level, pi.level)
        /\ Suits(y.kind, y.of, inputs, pi.up, repl.level, pi.level)
    BY DEF Suits, Enders, PiLines, Levels
  <2>5. \A i \in DOMAIN pi'.out :
           Suits(pi'.out[i].kind, pi'.out[i].of, inputs, pi.up, repl.level, pi.level)
    BY <1>13, <2>0, <2>3, <2>4, ReadsSuit
  <2>6. Without(pi'.in, Awaited) /\ AtMostOne(pi'.in, Awaited)
    BY <2>0, <2>1
  <2>7. \A i \in DOMAIN pi'.in :
           Suits(pi'.in[i].kind, pi'.in[i].of, inputs, pi.up, repl.level, pi.level)
    BY <2>0, <2>6 DEF Without, Awaited, Suits, Levels
  <2> QED
    BY <1>14, <2>0, <2>1, <2>5, <2>6, <2>7, SuitsAnswer
<1> QED
  BY <1>1, <1>15, <1>16, <1>17 DEF ReplInv, ReplTypeOK, Places, Idle

\* Pi takes a command: the one it answers, or an abort.
LEMMA ObeysAnswer ==
    ASSUME ReplInv, PiObeys
    PROVE  AnswerIsTheNext'
<1> DEFINE cmd == Head(pi.in)
           aborted == PiLine("aborted", 0)
<1>1. /\ ReplTypeOK /\ pi.in \in Seq(PiCommands) /\ pi.out \in Seq(PiLines)
      /\ pi.work \in 0..MaxInputs /\ pi.level \in PiLevels
      /\ pc \notin {"user", "reply", "snapshot", "failed"} => ended = None
      /\ InStep /\ ended # None => ended = inputs
  BY AnswerFacts, PiIs DEF ReplInv
<1>2. /\ pc' = pc /\ ended' = ended /\ inputs' = inputs /\ repl' = repl /\ InStep' = InStep
  BY DEF PiObeys, piUnchanged, InStep
<1>3. /\ pi.up /\ pi'.up = pi.up /\ pi.in # <<>> /\ pi'.in = Tail(pi.in) /\ cmd \in PiCommands
  BY <1>1, ObeysFacts
<1>4. cmd.kind \in {"prompt", "abort", "get_commands", "get_state"} \cup Levels
      /\ cmd.of \in 0..MaxInputs
  BY <1>3 DEF PiCommands
<1>5. /\ 1 \in DOMAIN pi.in /\ cmd = pi.in[1]
      /\ \A i \in DOMAIN pi'.in : i + 1 \in DOMAIN pi.in /\ pi'.in[i] = pi.in[i + 1]
      /\ Without(pi.in, Awaited) => cmd.kind \notin Awaited /\ Without(pi'.in, Awaited)
      /\ AtMostOne(pi.in, Awaited) => AtMostOne(pi'.in, Awaited)
      /\ AtMostOne(pi.in, Awaited) /\ cmd.kind \in Awaited => Without(pi'.in, Awaited)
      /\ Without(pi.in, Awaited \ {"get_state"}) =>
            cmd.kind \notin Awaited \ {"get_state"} /\ Without(pi'.in, Awaited \ {"get_state"})
  BY <1>1, <1>3, TakesOne
<1>6. aborted \in PiLines /\ aborted.kind = "aborted" /\ aborted.kind \notin Enders
  BY PiLineFacts DEF Enders, Levels
<1>7. \A l \in PiLines :
         LET t == Append(pi.out, l) IN
         /\ \A i \in DOMAIN t : (i \in DOMAIN pi.out /\ t[i] = pi.out[i]) \/ t[i] = l
         /\ Without(pi.out, Enders) /\ l.kind \notin Enders => Without(t, Enders)
         /\ AtMostOne(pi.out, Enders) /\ l.kind \notin Enders => AtMostOne(t, Enders)
         /\ Without(pi.out, Enders) => AtMostOne(t, Enders)
         /\ Without(pi.out, Enders \ {"state"}) /\ l.kind \notin Enders \ {"state"} =>
              Without(t, Enders \ {"state"})
  BY <1>1, AddsOne
<1>8. cmd.kind = "abort" /\ pi.work = None =>
         pi'.out = Append(pi.out, aborted) /\ pi'.work = None /\ pi'.level = pi.level
  BY <1>1, ObeysFacts DEF Levels
<1>9. AtMostOne(pi'.in, Awaited) /\ Without(pi'.in, Awaited) <=> Without(pi'.in, Awaited)
  BY DEF AtMostOne, Without
<1>10. CASE ~InStep
  <2>1. ~InStep' /\ pi'.up
    BY <1>2, <1>3, <1>10
  <2> QED
    BY <1>1, <1>2, <2>1 DEF AnswerIsTheNext
<1>11. CASE pc \in {"ended", "failed"}
  BY <1>1, <1>2, <1>3, <1>11, StopsAnswer
<1>12. CASE InStep /\ pc \in Idle
  <2>1. /\ Without(pi.in, Awaited) /\ pi.work = None /\ Without(pi.out, Enders)
        /\ Shows(repl.level, pi.level)
    BY <1>3, <1>12, AnswerFacts
  <2>2. cmd.kind = "abort"
    BY <1>4, <1>5, <2>1 DEF Awaited
  <2> HIDE DEF aborted
  <2>3. Without(Append(pi.out, aborted), Enders)
    BY <1>6, <1>7, <2>1
  <2> QED
    BY <1>1, <1>2, <1>3, <1>5, <1>8, <1>12, <2>1, <2>2, <2>3, IdleAnswers DEF Idle
<1>13. CASE InStep /\ pc = "asks"
  <2>1. /\ AtMostOne(pi.in, Awaited) /\ AtMostOne(pi.out, Enders)
        /\ ~Without(pi.out, Enders) => Without(pi.in, Awaited)
        /\ Without(pi.in, Awaited \ {"get_state"}) /\ pi.work = None
        /\ Without(pi.out, Enders \ {"state"})
        /\ \A i \in DOMAIN pi.out : pi.out[i].kind = "state" => pi.out[i].of = pi.level
    BY <1>13, AnswerFacts
  <2>2. cmd.kind = "abort" \/ cmd.kind = "get_state"
    BY <1>4, <1>5, <2>1 DEF Awaited
  <2>3. CASE cmd.kind = "abort"
    <3> HIDE DEF aborted
    <3>1. pi'.out = Append(pi.out, aborted) /\ pi'.work = None /\ pi'.level = pi.level
      BY <1>8, <2>1, <2>3
    <3>2. /\ AtMostOne(pi'.out, Enders) /\ Without(pi'.out, Enders \ {"state"})
          /\ Without(pi.out, Enders) => Without(pi'.out, Enders)
          /\ \A i \in DOMAIN pi'.out : (i \in DOMAIN pi.out /\ pi'.out[i] = pi.out[i]) \/ pi'.out[i] = aborted
      BY <1>6, <1>7, <2>1, <3>1
    <3> QED
      BY <1>1, <1>2, <1>3, <1>5, <1>6, <1>13, <2>1, <3>1, <3>2, AsksAnswer
  <2>4. CASE cmd.kind = "get_state"
    <3> DEFINE l == PiLine("state", pi.level)
    <3>1. pi'.out = Append(pi.out, l) /\ pi'.work = None /\ pi'.level = pi.level
      BY <1>1, <2>1, <2>4, ObeysFacts DEF Levels
    <3>2. l \in PiLines /\ l.kind = "state" /\ l.of = pi.level
      BY <1>1, PiLineFacts
    <3> HIDE DEF l
    <3>3. cmd.kind \in Awaited
      BY <2>4 DEF Awaited
    <3>4. Without(pi'.in, Awaited) /\ Without(pi.out, Enders)
      BY <1>5, <2>1, <3>3
    <3>5. /\ AtMostOne(pi'.out, Enders) /\ Without(pi'.out, Enders \ {"state"})
          /\ \A i \in DOMAIN pi'.out : (i \in DOMAIN pi.out /\ pi'.out[i] = pi.out[i]) \/ pi'.out[i] = l
      BY <1>7, <2>1, <3>1, <3>2, <3>4
    <3> QED
      BY <1>1, <1>2, <1>3, <1>5, <1>13, <2>1, <3>1, <3>2, <3>4, <3>5, AsksAnswer
  <2> QED
    BY <2>2, <2>3, <2>4
<1>14. CASE InStep /\ pc = "reads"
  <2>1. /\ AtMostOne(pi.in, Awaited) /\ AtMostOne(pi.out, Enders)
        /\ pi.work # None \/ ~Without(pi.out, Enders) => Without(pi.in, Awaited)
        /\ pi.work # None => Without(pi.out, Enders)
        /\ ended = None
    BY <1>1, <1>14, AnswerFacts
  <2>2. /\ \A i \in DOMAIN pi.in :
              Suits(pi.in[i].kind, pi.in[i].of, inputs, pi.up, repl.level, pi.level)
        /\ \A i \in DOMAIN pi.out :
              Suits(pi.out[i].kind, pi.out[i].of, inputs, pi.up, repl.level, pi.level)
        /\ pi.work # None => Suits("end", pi.work, inputs, pi.up, repl.level, pi.level)
    BY <1>14, ReadsSuit
  <2>3. /\ \A i \in DOMAIN pi'.in :
              Suits(pi'.in[i].kind, pi'.in[i].of, inputs, pi.up, repl.level, pi.level)
        /\ Suits(cmd.kind, cmd.of, inputs, pi.up, repl.level, pi.level)
    BY <1>5, <2>2
  <2>4. CASE cmd.kind = "abort" /\ pi.work = None
    <3> HIDE DEF aborted
    <3>1. pi'.out = Append(pi.out, aborted) /\ pi'.work = None /\ pi'.level = pi.level
      BY <1>8, <2>4
    <3>2. /\ AtMostOne(pi'.out, Enders)
          /\ Without(pi.out, Enders) => Without(pi'.out, Enders)
          /\ \A i \in DOMAIN pi'.out : (i \in DOMAIN pi.out /\ pi'.out[i] = pi.out[i]) \/ pi'.out[i] = aborted
      BY <1>6, <1>7, <2>1, <3>1
    <3>3. Suits(aborted.kind, aborted.of, inputs, pi.up, repl.level, pi.level)
      BY <1>6 DEF Suits
    <3>4. \A i \in DOMAIN pi'.out :
             Suits(pi'.out[i].kind, pi'.out[i].of, inputs, pi.up, repl.level, pi.level)
      BY <2>2, <3>2, <3>3
    <3> QED
      BY <1>2, <1>3, <1>5, <1>14, <2>1, <2>3, <3>1, <3>2, <3>4, SuitsAnswer
  <2>5. CASE cmd.kind = "abort" /\ pi.work # None
    <3> DEFINE e == PiLine("end", pi.work)
               x == PiLine("settled", pi.work)
    <3>1. /\ pi'.work = None /\ pi'.level = pi.level
          /\ \/ pi'.out = Append(Append(Append(pi.out, e), x), aborted)
             \/ pi'.out = Append(Append(Append(pi.out, aborted), e), x)
      BY <1>1, <2>5, ObeysFacts DEF Levels
    <3>2. /\ e \in PiLines /\ e.kind = "end" /\ e.of = pi.work
          /\ x \in PiLines /\ x.kind \notin Enders
      BY <1>1, PiLineFacts DEF Enders, Levels
    <3> HIDE DEF e, x, aborted
    <3>3. \A i \in DOMAIN pi'.in :
             pi'.in[i].kind \in {"prompt", "abort", "get_commands", "get_state"} \cup Levels
      BY <1>5, AnswerFacts
    <3>4. Without(pi.in, Awaited) => Without(pi'.in, Awaited) /\ AtMostOne(pi'.in, Awaited)
      BY <1>5, <2>1
    <3> QED
      BY <1>2, <1>3, <1>6, <2>1, <2>5, <3>1, <3>2, <3>3, <3>4, EndsAnswer
  <2>6. CASE cmd.kind # "abort"
    <3>1. cmd.kind \in Awaited /\ cmd.kind # "get_state"
      BY <1>4, <2>3, <2>6 DEF Awaited, Suits
    <3>2. /\ Without(pi'.in, Awaited) /\ AtMostOne(pi'.in, Awaited)
          /\ pi.work = None /\ Without(pi.out, Enders)
      BY <1>5, <2>1, <3>1
    <3>3. CASE cmd.kind = "prompt"
      <4> DEFINE l == PiLine("accepted", cmd.of)
      <4>1. pi'.out = Append(pi.out, l) /\ pi'.work = cmd.of /\ pi'.level = pi.level
        BY <1>1, <3>2, <3>3, ObeysFacts DEF Levels
      <4>2. l \in PiLines /\ l.kind = "accepted" /\ l.kind \notin Enders
        BY <1>4, PiLineFacts DEF Enders, Levels
      <4> HIDE DEF l, cmd
      <4>3. /\ Without(pi'.out, Enders) /\ AtMostOne(pi'.out, Enders)
            /\ \A i \in DOMAIN pi'.out : (i \in DOMAIN pi.out /\ pi'.out[i] = pi.out[i]) \/ pi'.out[i] = l
        BY <1>7, <2>1, <3>2, <4>1, <4>2
      <4>4. /\ Suits(l.kind, l.of, inputs, pi.up, repl.level, pi.level)
            /\ Suits("end", cmd.of, inputs, pi.up, repl.level, pi.level)
        BY <2>3, <3>3, <4>2 DEF Suits
      <4>5. \A i \in DOMAIN pi'.out :
               Suits(pi'.out[i].kind, pi'.out[i].of, inputs, pi.up, repl.level, pi.level)
        BY <2>2, <4>3, <4>4
      <4> QED
        BY <1>2, <1>3, <1>14, <2>1, <2>3, <3>2, <4>1, <4>3, <4>4, <4>5, SuitsAnswer
    <3>4. CASE cmd.kind \in Levels
      <4> DEFINE l == PiLine(cmd.kind, cmd.of)
      <4>1. pi'.out = Append(pi.out, l) /\ pi'.work = None
        BY <1>1, <3>2, <3>4, ObeysFacts DEF Levels
      <4>2. l \in PiLines /\ l.kind = cmd.kind
        BY <1>4, <3>4, PiLineFacts
      <4> HIDE DEF l, cmd
      <4>3. /\ AtMostOne(pi'.out, Enders)
            /\ \A i \in DOMAIN pi'.out : (i \in DOMAIN pi.out /\ pi'.out[i] = pi.out[i]) \/ pi'.out[i] = l
        BY <1>7, <3>2, <4>1, <4>2
      <4>4. Suits(l.kind, l.of, inputs, pi.up, repl.level, pi'.level)
        BY <3>4, <4>2 DEF Suits, Levels
      <4>5. \A i \in DOMAIN pi.out :
               Suits(pi.out[i].kind, pi.out[i].of, inputs, pi.up, repl.level, pi'.level)
        <5>1. \A i \in DOMAIN pi.out :
                 pi.out[i].kind \in {"accepted", "settled", "aborted", "junk"}
          BY <3>2, AnswerFacts DEF Without, Enders
        <5> QED
          BY <5>1 DEF Suits
      <4>6. \A i \in DOMAIN pi'.out :
               Suits(pi'.out[i].kind, pi'.out[i].of, inputs, pi.up, repl.level, pi'.level)
        BY <4>3, <4>4, <4>5
      <4>7. \A i \in DOMAIN pi'.in :
               Suits(pi'.in[i].kind, pi'.in[i].of, inputs, pi.up, repl.level, pi'.level)
        <5>1. \A i \in DOMAIN pi'.in : pi'.in[i].kind = "abort"
          BY <1>5, <3>2, AnswerFacts DEF Without, Awaited
        <5> QED
          BY <5>1 DEF Suits
      <4> QED
        BY <1>2, <1>3, <1>14, <2>1, <3>2, <4>1, <4>3, <4>6, <4>7, SuitsAnswer
    <3>5. CASE cmd.kind = "get_commands"
      <4> DEFINE l == PiLine("get_commands", cmd.of)
      <4>1. pi'.out = Append(pi.out, l) /\ pi'.work = None /\ pi'.level = pi.level
        BY <1>1, <3>2, <3>5, ObeysFacts DEF Levels
      <4>2. l \in PiLines /\ l.kind = "get_commands"
        BY <1>4, PiLineFacts
      <4> HIDE DEF l, cmd
      <4>3. /\ AtMostOne(pi'.out, Enders)
            /\ \A i \in DOMAIN pi'.out : (i \in DOMAIN pi.out /\ pi'.out[i] = pi.out[i]) \/ pi'.out[i] = l
        BY <1>7, <3>2, <4>1, <4>2
      <4>4. Suits(l.kind, l.of, inputs, pi.up, repl.level, pi.level)
        BY <2>3, <3>5, <4>2 DEF Suits
      <4>5. \A i \in DOMAIN pi'.out :
               Suits(pi'.out[i].kind, pi'.out[i].of, inputs, pi.up, repl.level, pi.level)
        BY <2>2, <4>3, <4>4
      <4> QED
        BY <1>2, <1>3, <1>14, <2>1, <2>3, <3>2, <4>1, <4>3, <4>5, SuitsAnswer
    <3> QED
      BY <1>4, <2>6, <3>1, <3>3, <3>4, <3>5
  <2> QED
    BY <2>4, <2>5, <2>6
<1> QED
  BY <1>1, <1>10, <1>11, <1>12, <1>13, <1>14 DEF ReplTypeOK, Places, Idle

LEMMA PiAnswers ==
    ASSUME ReplInv, PiObeys \/ PiEnds \/ PiErrs \/ PiRetries \/ PiGarbles \/ PiCrashes
    PROVE  AnswerIsTheNext'
<1>1. /\ ReplTypeOK /\ pi.in \in Seq(PiCommands) /\ pi.out \in Seq(PiLines)
      /\ pi.work \in 0..MaxInputs
      /\ ~pi.up => pi.in = <<>> /\ pi.work = None
      /\ pc \notin {"user", "reply", "snapshot", "failed"} => ended = None
      /\ InStep /\ ended # None => ended = inputs
  BY AnswerFacts DEF ReplInv
<1>2. /\ pc' = pc /\ ended' = ended /\ inputs' = inputs /\ repl' = repl
      /\ InStep' => InStep
  BY DEF PiObeys, PiEnds, PiErrs, PiRetries, PiGarbles, PiCrashes, piUnchanged, InStep, Happens
<1>3. CASE PiEnds \/ PiErrs
  <2>1. /\ pi.up /\ pi'.up = pi.up /\ pi'.in = pi.in
        /\ pi.work # None /\ pi'.work = None /\ pi'.level = pi.level
    BY <1>1, <1>3, EndsFacts
  <2>2. PICK k \in {"end", "error"} :
           pi'.out = Append(Append(pi.out, PiLine(k, pi.work)), PiLine("settled", pi.work))
    BY <1>1, <1>3, EndsFacts
  <2> DEFINE e == PiLine(k, pi.work)
             x == PiLine("settled", pi.work)
  <2>3. /\ e \in PiLines /\ e.kind \in {"end", "error"} /\ e.of = pi.work
        /\ x \in PiLines /\ x.kind \notin Enders
    BY <1>1, PiLineFacts DEF Enders, Levels
  <2>4. pi'.out = Append(Append(pi.out, e), x)
    BY <2>2
  <2> HIDE DEF e, x
  <2>5. \A i \in DOMAIN pi'.in :
           pi'.in[i].kind \in {"prompt", "abort", "get_commands", "get_state"} \cup Levels
    BY <2>1, AnswerFacts
  <2>6. Without(pi.in, Awaited) => Without(pi'.in, Awaited) /\ AtMostOne(pi'.in, Awaited)
    BY <2>1 DEF Without, AtMostOne
  <2> QED
    BY <1>2, <2>1, <2>3, <2>4, <2>5, <2>6, EndsAnswer
<1>4. CASE PiRetries \/ PiGarbles
  <2>1. /\ pi.up /\ pi'.up = pi.up /\ pi'.in = pi.in
        /\ pi'.work = pi.work /\ pi'.level = pi.level
        /\ "retry" \in happened' \/ pi'.out = Append(pi.out, PiLine("junk", pi.work))
    BY <1>1, <1>4, PrintsFacts
  <2>2. CASE "retry" \in happened'
    <3>1. ~InStep' /\ pi'.up
      BY <2>1, <2>2 DEF InStep
    <3> QED
      BY <1>1, <1>2, <3>1 DEF AnswerIsTheNext
  <2>3. CASE pi'.out = Append(pi.out, PiLine("junk", pi.work))
    <3> DEFINE x == PiLine("junk", pi.work)
    <3>1. x \in PiLines /\ x.kind \notin Enders
      BY <1>1, PiLineFacts DEF Enders, Levels
    <3>2. pi'.out = Append(pi.out, x)
      BY <2>3
    <3> HIDE DEF x
    <3> QED
      BY <1>2, <2>1, <3>1, <3>2, PrintsNoEnder
  <2> QED
    BY <2>1, <2>2, <2>3
<1>5. CASE PiCrashes
  <2>1. /\ ~pi'.up /\ pi'.in = <<>> /\ pi'.work = None /\ pi'.level = pi.level /\ pi'.out = pi.out
    BY <1>1, <1>5, CrashFacts
  <2>2. Without(pi'.in, Awaited) /\ AtMostOne(pi'.in, Awaited) /\ DOMAIN pi'.in = {}
        /\ Without(pi'.in, Awaited \ {"get_state"})
    BY <2>1, NoLines
  <2>3. CASE pc \in {"ended", "failed"}
    BY <1>1, <1>2, <2>1, <2>3, StopsAnswer
  <2>4. CASE pc \in Idle
    <3>1. InStep => Without(pi.out, Enders)
      BY <2>4, AnswerFacts
    <3> QED
      BY <1>1, <1>2, <2>1, <2>2, <2>4, <3>1, IdleAnswers DEF Idle
  <2>5. CASE pc = "reads"
    <3>1. InStep => /\ AtMostOne(pi.out, Enders)
                    /\ \A i \in DOMAIN pi.out :
                          Suits(pi.out[i].kind, pi.out[i].of, inputs, pi.up, repl.level, pi.level)
      BY <2>5, AnswerFacts, ReadsSuit
    <3>2. InStep => \A i \in DOMAIN pi'.out :
                       Suits(pi'.out[i].kind, pi'.out[i].of, inputs, pi'.up, repl.level, pi.level)
      BY <2>1, <3>1 DEF Suits
    <3> QED
      BY <1>1, <1>2, <2>1, <2>2, <2>5, <3>1, <3>2, SuitsAnswer
  <2>6. CASE pc = "asks"
    <3>1. InStep =>
            /\ AtMostOne(pi.out, Enders)
            /\ Without(pi.out, Enders \ {"state"})
            /\ \A i \in DOMAIN pi.out : pi.out[i].kind = "state" => pi.out[i].of = pi.level
      BY <2>6, AnswerFacts
    <3> QED
      BY <1>1, <1>2, <2>1, <2>2, <2>6, <3>1, AsksAnswer
  <2> QED
    BY <1>1, <2>3, <2>4, <2>5, <2>6 DEF ReplTypeOK, Places, Idle
<1> QED
  BY <1>3, <1>4, <1>5, ObeysAnswer

\* A prompt or a command is the only thing under way.
LEMMA SentAnswers ==
    ASSUME ReplInv, pc = "input", ended' = ended, InStep' => InStep,
           NEW c \in PiCommands, c.kind \in {"prompt", "get_commands"} \cup Levels,
           c.of = inputs',
           pi'.out = pi.out, pi'.up = pi.up, pi'.work = pi.work, pi'.level = pi.level,
           repl'.level = repl.level,
           \/ pi.up /\ pi'.in = Append(pi.in, c) /\ pc' = "reads"
           \/ ~pi.up /\ pi'.in = pi.in /\ pc' = "failed"
    PROVE  AnswerIsTheNext'
<1>1. /\ pi.in \in Seq(PiCommands) /\ pi.out \in Seq(PiLines)
      /\ ~pi.up => pi.in = <<>> /\ pi.work = None
      /\ ended = None
  BY AnswerFacts
<1>2. CASE pc' = "failed"
  BY <1>1, <1>2, StopsAnswer
<1>3. CASE pc' = "reads"
  <2>0. pi.up /\ pi'.in = Append(pi.in, c)
    BY <1>3
  <2>1. InStep' => /\ Without(pi.in, Awaited) /\ pi.work = None /\ Without(pi.out, Enders)
                   /\ Shows(repl.level, pi.level)
    BY <2>0, AnswerFacts DEF Idle
  <2>2. /\ InStep' => AtMostOne(pi'.in, Awaited)
        /\ \A i \in DOMAIN pi'.in : (i \in DOMAIN pi.in /\ pi'.in[i] = pi.in[i]) \/ pi'.in[i] = c
    BY <1>1, <2>0, <2>1, AddsOne
  <2>3. InStep' => AtMostOne(pi.out, Enders)
    BY <2>1 DEF AtMostOne, Without
  <2>4. InStep' => Suits(c.kind, c.of, inputs', pi.up, repl.level, pi.level)
    BY <2>1 DEF Suits, Levels
  <2>5. InStep' => \A i \in DOMAIN pi.in :
                      Suits(pi.in[i].kind, pi.in[i].of, inputs', pi.up, repl.level, pi.level)
    <3>1. InStep' => \A i \in DOMAIN pi.in : pi.in[i].kind = "abort"
      BY <2>1, AnswerFacts DEF Without, Awaited
    <3> QED
      BY <3>1 DEF Suits
  <2>6. InStep' => \A i \in DOMAIN pi.out :
                      Suits(pi.out[i].kind, pi.out[i].of, inputs', pi.up, repl.level, pi.level)
    <3>1. InStep' => \A i \in DOMAIN pi.out :
                        pi.out[i].kind \in {"accepted", "settled", "aborted", "junk"}
      BY <2>1, AnswerFacts DEF Without, Enders
    <3> QED
      BY <3>1 DEF Suits
  <2>7. InStep' => \A i \in DOMAIN pi'.in :
                      Suits(pi'.in[i].kind, pi'.in[i].of, inputs', pi.up, repl.level, pi.level)
    BY <2>2, <2>4, <2>5
  <2> QED
    BY <1>1, <1>3, <2>0, <2>1, <2>2, <2>3, <2>6, <2>7, SuitsAnswer
<1> QED
  BY <1>2, <1>3

LEMMA UserAnswers ==
    ASSUME ReplInv, User
    PROVE  AnswerIsTheNext'
<1>1. /\ ReplTypeOK /\ repl.level \in Levels /\ run \in 1..MaxRuns
      /\ pc \notin {"user", "reply", "snapshot", "failed"} => ended = None
  BY AnswerFacts, PiIs DEF ReplInv, ReplTypeOK
<1>2. CASE TypePrompt
  <2> DEFINE c == PiLine("prompt", inputs')
  <2>1. /\ pi'.out = pi.out /\ pi'.up = pi.up /\ pi'.work = pi.work
        /\ pi'.level = pi.level /\ pc = "input" /\ c \in PiCommands
        /\ \/ pi.up /\ pi'.in = Append(pi.in, c) /\ pc' = "reads"
           \/ ~pi.up /\ pi'.in = pi.in /\ pc' = "failed"
        /\ repl'.level = repl.level
    BY <1>1, <1>2, PromptFacts
  <2>2. c.kind = "prompt" /\ c.of = inputs'
    BY PiLineFacts
  <2>3. ended' = ended /\ (InStep' => InStep)
    BY <1>2 DEF TypePrompt, typingUnchanged, InStep
  <2> HIDE DEF c
  <2> QED
    BY <2>1, <2>2, <2>3, SentAnswers
<1>3. CASE TypeCommand
  <2>1. PICK kind \in {"get_commands"} \cup Levels :
           /\ pi'.out = pi.out /\ pi'.up = pi.up /\ pi'.work = pi.work
           /\ pi'.level = pi.level /\ pc = "input" /\ repl' = repl
           /\ PiLine(kind, inputs') \in PiCommands
           /\ \/ pi.up /\ pi'.in = Append(pi.in, PiLine(kind, inputs')) /\ pc' = "reads"
              \/ ~pi.up /\ pi'.in = pi.in /\ pc' = "failed"
    BY <1>1, <1>3, CommandFacts
  <2> DEFINE c == PiLine(kind, inputs')
  <2>2. c.kind = kind /\ c.of = inputs' /\ c \in PiCommands
    BY <2>1, PiLineFacts
  <2>3. \/ pi.up /\ pi'.in = Append(pi.in, c) /\ pc' = "reads"
        \/ ~pi.up /\ pi'.in = pi.in /\ pc' = "failed"
    BY <2>1
  <2>4. ended' = ended /\ (InStep' => InStep)
    BY <1>3 DEF TypeCommand, typingUnchanged, InStep
  <2> HIDE DEF c
  <2> QED
    BY <2>1, <2>2, <2>3, <2>4, SentAnswers
<1>4. CASE \E s \in Sessions : Resume(s)
  <2>1. PICK s \in Sessions : Resume(s)
    BY <1>4
  <2>2. AppendsToTheEnd
    BY DEF ReplInv
  <2>3. repl'.level = repl.level
    BY <1>1, <2>1, <2>2, ResumeFacts
  <2>4. /\ pi' = pi /\ pc' = pc /\ pc = "input" /\ ended' = ended /\ (InStep' => InStep)
    BY <2>1 DEF Resume, Types, typingUnchanged, InStep
  <2> QED
    BY <1>1, <2>3, <2>4, PiRests DEF Idle
<1>5. CASE ResumePanics \/ Exit
  <2>1. /\ pi' = pi /\ pc = "input" /\ pc' \in {"ended", "failed"} /\ ended' = ended
        /\ repl' = repl /\ (InStep' => InStep)
    BY <1>5 DEF ResumePanics, Exit, Types, typingUnchanged, Goes, InStep
  <2> QED
    BY <1>1, <2>1, PiRests DEF Idle
<1>6. CASE Rerun
  <2>1. /\ pc' = "load" /\ ended' = None
    BY <1>6 DEF Rerun, Goes
  <2>2. /\ pi'.up /\ pi'.work = None /\ pi'.in = <<>> /\ pi'.out = <<>>
        /\ Shows(repl'.level, pi'.level)
    BY <1>1, <1>6, RerunFacts
  <2> QED
    BY <2>1, <2>2, NoLines, IdleAnswers DEF Idle
<1>7. CASE CtrlC
  <2>1. /\ pi' = pi /\ pc' = pc /\ ended' = ended /\ inputs' = inputs /\ repl' = repl
        /\ (InStep' => InStep)
    BY <1>7 DEF CtrlC, InStep, Happens
  <2> QED
    BY <2>1, PiRests
<1> QED
  BY <1>2, <1>3, <1>4, <1>5, <1>6, <1>7 DEF User

\* Loading and saving leave Pi alone.
LEMMA RestAnswers ==
    ASSUME ReplInv, Loading \/ LoadFails \/ DownloadFails \/ Deleted \/ Saving \/ SaveFails
    PROVE  AnswerIsTheNext'
<1>1. /\ ReplTypeOK
      /\ pc \notin {"user", "reply", "snapshot", "failed"} => ended = None
  BY AnswerFacts DEF ReplInv
<1>2. CASE Loading \/ LoadFails \/ DownloadFails \/ Deleted
  <2>1. /\ pi' = pi /\ repl' = repl /\ ended' = ended /\ inputs' = inputs
        /\ pc \in {"load", "download"} /\ pc' \in {"load", "download", "input", "failed"}
        /\ InStep' => InStep
    BY <1>2 DEF Loading, Load, TooManyRetries, Download, LoadFails, DownloadFails, Deleted,
         Goes, loadUnchanged, InStep, Happens
  <2> QED
    BY <1>1, <2>1, PiRests DEF Idle
<1>3. CASE Saving \/ SaveFails
  <2>1. /\ pi' = pi /\ inputs' = inputs /\ (InStep' => InStep)
        /\ pc \in {"user", "reply", "snapshot"}
        /\ \/ pc' \in {"reply", "snapshot", "failed"} /\ ended' = ended
           \/ pc' = "input" /\ ended' = None
    BY <1>3 DEF Saving, SaveUser, SaveReply, SaveSnapshot, SaveFails, Goes, saveUnchanged,
         InStep, Happens
  <2>2. repl'.level = repl.level
    <3>1. CASE SaveUser
      BY <1>1, <3>1, SaveUserFacts
    <3>2. CASE SaveReply
      BY <1>1, <3>2, SaveReplyFacts
    <3>3. CASE SaveSnapshot \/ SaveFails
      BY <3>3 DEF SaveSnapshot, SaveFails
    <3> QED
      BY <1>3, <3>1, <3>2, <3>3 DEF Saving
  <2> QED
    BY <1>1, <2>1, <2>2, PiRests DEF Idle
<1> QED
  BY <1>2, <1>3

-------------------------------------------------------------------------------
(* The theorems *)

LEMMA InitRepl == ReplInit => ReplInv
<1> SUFFICES ASSUME ReplInit PROVE ReplInv
  OBVIOUS
<1>1. 1 \in Sessions /\ Old \in Sessions /\ 1 \in 1..MaxRuns /\ "low" \in Levels /\ Old = 0 /\ None = 0
  BY DEF Sessions, Old, Levels, None
<1>2. /\ repl \in ReplType /\ repl.session = 1 /\ ~repl.started
      /\ repl.last = 0 /\ repl.turns = <<>> /\ Shows(repl.level, pi.level)
      /\ pi \in PiType /\ pi.up /\ pi.work = None
      /\ pi.in = <<>> /\ pi.out = <<>>
  <2>1. PICK level \in PiLevels : repl = NewRepl(1, level) /\ pi = NewPi("low", level)
    BY DEF ReplInit
  <2> QED
    BY <1>1, <2>1, NewFacts
<1> DEFINE u == Chat(Old, "user", None, NoTurn)
           a == Chat(Old, "assistant", 1, NoTurn)
<1>3. /\ u \in ChatType /\ u.session = 0 /\ u.parent = 0 /\ u.role = "user"
      /\ a \in ChatType /\ a.session = 0 /\ a.parent = 1 /\ a.role = "assistant"
      /\ a.turn = NoTurn
  BY <1>1 DEF Chat, ChatType, NoTurn
<1>4. chats = <<u, a>>
  BY DEF ReplInit
<1> HIDE DEF u, a
<1>5. /\ chats \in Seq(ChatType) /\ Len(chats) = 2 /\ DOMAIN chats = {1, 2}
      /\ chats[1] = u /\ chats[2] = a
  BY <1>3, <1>4
<1>6. PICK turns \in {<<>>, <<NoTurn>>} :
         snapshots = [s \in Sessions |-> IF s = Old THEN turns ELSE <<>>]
  BY DEF ReplInit
<1>7. /\ turns \in Seq(Nat) /\ <<>> \in Seq(Nat)
      /\ \A i \in DOMAIN turns : turns[i] = NoTurn
      /\ DOMAIN <<>> = {}
  <2>1. /\ <<>> \in Seq(Nat) /\ DOMAIN <<>> = {} /\ NoTurn \in Nat
        /\ <<NoTurn>> \in Seq(Nat) /\ DOMAIN <<NoTurn>> = {1} /\ <<NoTurn>>[1] = NoTurn
    BY DEF NoTurn
  <2>2. CASE turns = <<>>
    BY <2>1, <2>2
  <2>3. CASE turns = <<NoTurn>>
    BY <2>1, <2>3
  <2> QED
    BY <1>6, <2>2, <2>3
<1>8. /\ snapshots \in [Sessions -> Seq(Nat)]
      /\ snapshots[0] = turns /\ \A s \in Sessions : s # 0 => snapshots[s] = <<>>
  BY <1>1, <1>6, <1>7
<1>9. ReplTypeOK
  <2>1. /\ pc = "load" /\ run = 1 /\ retries = 0 /\ cache \in {"missing", "partial", "whole"}
        /\ interrupted = FALSE /\ ended = 0 /\ inputs = 0
    BY <1>1 DEF ReplInit
  <2>2. repl.last <= Len(chats)
    BY <1>2, <1>5
  <2>3. retries \in 0..(MAX_LOAD_MODEL_RETRIES + 1)
    BY <2>1 DEF MAX_LOAD_MODEL_RETRIES
  <2>4. /\ pc \in Places /\ (pc = "download" => retries <= MAX_LOAD_MODEL_RETRIES)
        /\ interrupted \in BOOLEAN
    BY <2>1 DEF Places
  <2>5. run \in 1..MaxRuns /\ ended \in 0..MaxInputs /\ inputs \in 0..MaxInputs
    BY <1>1, <2>1
  <2> QED
    BY <1>2, <1>5, <1>8, <2>1, <2>2, <2>3, <2>4, <2>5 DEF ReplTypeOK
<1>10. /\ ChatsOf(0) = {1, 2} /\ \A s \in Sessions : s # 0 => ChatsOf(s) = {}
  BY <1>3, <1>5 DEF ChatsOf
<1>11. LastOf({1, 2}) = 2 /\ LastOf({1}) = 1
  BY LastIs
<1>12. OnePath
  <2>1. \A i \in {1, 2} : {j \in 1..(i - 1) : chats[j].session = chats[i].session}
                            = IF i = 1 THEN {} ELSE {1}
    BY <1>3, <1>5
  <2> QED
    BY <1>1, <1>3, <1>5, <1>11, <2>1 DEF OnePath
<1>13. SnapshotIsOfItsSession
  <2>1. \A s \in Sessions : \A i \in DOMAIN snapshots[s] : s = 0 /\ snapshots[s][i] = NoTurn
    BY <1>7, <1>8
  <2>2. pc = "load"
    BY DEF ReplInit
  <2> QED
    BY <1>3, <1>5, <2>1, <2>2 DEF SnapshotIsOfItsSession
<1>14. AppendsToTheEnd
  <2>1. pc = "load" /\ run = 1 /\ 1 \in Nat
    BY DEF ReplInit
  <2>2. \A s \in Sessions : ChatsOf(s) # {} => s = 0
    BY <1>10
  <2>3. \A s \in Sessions : s > run => s # 0
    BY <2>1
  <2>4. DOMAIN repl.turns = {}
    BY <1>2, <1>7
  <2>5. \A s \in Sessions : ChatsOf(s) # {} => LastOf(ChatsOf(s)) \in ChatsOf(s)
    BY <1>10, <1>11, <2>2
  <2>6. ChatsOf(repl.session) = {} /\ repl.turns = snapshots[repl.session] /\ repl.session <= run
    BY <1>1, <1>2, <1>8, <1>10, <2>1
  <2>7. \A s \in Sessions : s > run => ChatsOf(s) = {} /\ snapshots[s] = <<>>
    BY <1>8, <1>10, <2>3
  <2> QED
    BY <1>2, <2>1, <2>4, <2>5, <2>6, <2>7 DEF AppendsToTheEnd
<1>15. AnswerIsTheNext
  BY <1>2, NoLines DEF ReplInit, AnswerIsTheNext, NothingAwaited, LevelShown, OneWait
<1> QED
  BY <1>9, <1>12, <1>13, <1>14, <1>15 DEF ReplInv

LEMMA ReplStays ==
    ASSUME ReplInv, UNCHANGED replVars
    PROVE  ReplInv'
<1>1. /\ pc' = pc /\ run' = run /\ retries' = retries /\ cache' = cache
      /\ interrupted' = interrupted /\ repl' = repl /\ ended' = ended /\ pi' = pi
      /\ chats' = chats /\ snapshots' = snapshots /\ inputs' = inputs /\ happened' = happened
  BY DEF replVars
<1>2. ReplTypeOK'
  BY <1>1 DEF ReplInv, ReplTypeOK
<1>3. OnePath' /\ SnapshotIsOfItsSession' /\ AppendsToTheEnd'
  BY <1>1, DatabaseStays
<1>4. AnswerIsTheNext'
  BY <1>1, PiRests DEF InStep
<1> QED
  BY <1>2, <1>3, <1>4 DEF ReplInv

\* What the REPL appends to is the end of its session, whatever was resumed,
\* interrupted or started again, and nothing of an earlier exchange is under way
\* when the user may type: so the chats of each session are one path, a
\* snapshot has its own session's turns, and Pi's answers are to what was asked
\* (repl.rs, save_agent_session and the loop that reads Pi's lines).
THEOREM ReplInvHolds == ReplSpec => []ReplInv
<1>1. ReplInv /\ [ReplNext]_replVars => ReplInv'
  <2> SUFFICES ASSUME ReplInv, [ReplNext]_replVars PROVE ReplInv'
    OBVIOUS
  <2>1. CASE UNCHANGED replVars
    BY <2>1, ReplStays
  <2>2. CASE ReplNext
    <3>1. ReplTypeOK' /\ OnePath' /\ SnapshotIsOfItsSession' /\ AppendsToTheEnd'
      BY <2>2, ReplTypeKeeps, DatabaseKeeps
    <3>2. AnswerIsTheNext'
      <4>1. CASE LoopSteps \/ StateFails
        BY <4>1, LoopAnswers
      <4>2. CASE User
        BY <4>2, UserAnswers
      <4>3. CASE PiWorks \/ PiErrs \/ PiRetries \/ PiGarbles \/ PiCrashes
        BY <4>3, PiAnswers DEF PiWorks
      <4>4. CASE Loading \/ LoadFails \/ DownloadFails \/ Deleted \/ Saving \/ SaveFails
        BY <4>4, RestAnswers
      <4> QED
        BY <2>2, <4>1, <4>2, <4>3, <4>4 DEF ReplNext, Misfortune
    <3> QED
      BY <3>1, <3>2 DEF ReplInv
  <2> QED
    BY <2>1, <2>2
<1> QED
  BY <1>1, InitRepl, PTL DEF ReplSpec

\* As long as Pi has not tried a failed turn again by itself, the turn that is
\* saved is that of the last thing the user typed, and at its input the REPL shows
\* the level Pi has, if Tiles knows that one (repl.rs, the waits for agent_end and
\* for get_state, and process_command).
THEOREM AnswersHold == ReplSpec => []AnswersWhatWasAsked
<1>1. ReplInv => AnswersWhatWasAsked
  BY DEF ReplInv, AnswerIsTheNext, LevelShown, AnswersWhatWasAsked
<1> QED
  BY <1>1, ReplInvHolds, PTL
=============================================================================
