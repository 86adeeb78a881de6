------------------------------- MODULE SignIn -------------------------------
(***************************************************************************)
(* Signing in to an ATmosphere account: the login and logout handlers of   *)
(* daemon/atproto.rs, the task that waits for the browser on the callback  *)
(* port (core/account/atproto.rs, PendingLogin; daemon/mod.rs,             *)
(* start_internal_server) and the table of accounts.                       *)
(*                                                                         *)
(* A sign in's task, authorize url and OAuth state are named after its     *)
(* request.  The browser and the account's server are external.            *)
(***************************************************************************)
EXTENDS ServiceCalls

CONSTANT Dids           \* the accounts of the user, as numbers

ASSUME DidsAssumption == Dids \subseteq Nat \ {0}

VARIABLES slot,         \* AppState.login: whose task it holds, or 0
          signLock,     \* its mutex: the holder, then those who wait
          tasks,        \* the task of each login
          port,         \* who listens on LOGIN_PORT, or 0
          browser,      \* the urls whose callback is on its way
          accounts      \* atproto_auth_data: whether is_logged_in

signVars == <<slot, signLock, tasks, port, browser, accounts>>

\* prev: whom its handler replaces.  got: whose callback it received.
NoTask == [step |-> "none", cancel |-> FALSE, prev |-> 0, got |-> 0]

SignInit ==
    /\ slot = 0
    /\ signLock = <<>>
    /\ tasks = [c \in Calls |-> NoTask]
    /\ port = 0
    /\ browser = {}
    /\ accounts = [d \in Dids |-> "none"]

SignAsk(c) ==
    /\ \/ \E d \in Dids : Arrives(c, "login", "resolve", d)
       \/ Arrives(c, "logout", "find", 0)
    /\ UNCHANGED signVars

HoldsSign(c) == signLock # <<>> /\ Head(signLock) = c

TaskEnded(c) == tasks[c].step \in {"none", "done"}

-----------------------------------------------------------------------------
(* The login handler.                                                      *)

\* begin_login: the handle's did and the authorize url.
Resolve(c) ==
    /\ At(c, "login", "resolve")
    /\ To(c, "lock")
    /\ signLock' = Append(signLock, c)
    /\ UNCHANGED <<slot, tasks, port, browser, accounts>>

ResolveFails(c) ==
    /\ At(c, "login", "resolve")
    /\ Fails(c, "failed")
    /\ UNCHANGED signVars

\* The one still waiting is taken, told to stop and then awaited.
TakeOver(c) ==
    /\ At(c, "login", "lock")
    /\ HoldsSign(c)
    /\ To(c, "await")
    /\ tasks' = [t \in Calls |->
         IF t = c THEN [tasks[t] EXCEPT !.prev = slot]
         ELSE IF t = slot THEN [tasks[t] EXCEPT !.cancel = TRUE] ELSE tasks[t]]
    /\ slot' = 0
    /\ UNCHANGED <<signLock, port, browser, accounts>>

Begin(c) ==
    /\ At(c, "login", "await")
    /\ tasks[c].prev # 0 => TaskEnded(tasks[c].prev)
    /\ To(c, "stream")
    /\ tasks' = [tasks EXCEPT ![c].step = "born"]
    /\ slot' = c
    /\ signLock' = Tail(signLock)
    /\ UNCHANGED <<port, browser, accounts>>

\* The client leaves: before the stream the handler is dropped, after that the
\* stream and its drop guard are.
LoginLeaves(c) ==
    /\ calls[c].op = "login"
    /\ calls[c].step \in {"resolve", "lock", "await", "stream"}
    /\ Fails(c, "left")
    /\ signLock' = Without(signLock, c)
    /\ tasks' = [tasks EXCEPT ![c].cancel = calls[c].step = "stream"]
    /\ UNCHANGED <<slot, port, browser, accounts>>

-----------------------------------------------------------------------------
(* The task.  A cancelled one gets no further, but for an outcome that is  *)
(* ready in the same poll.                                                 *)

\* The task is over: the last event ends a stream that is still read.
Finish(c, task, outcome) ==
    /\ tasks' = [tasks EXCEPT ![c] = [task EXCEPT !.step = "done", !.prev = 0]]
    /\ port' = IF port = c THEN 0 ELSE port
    /\ IF calls[c].step = "stream" THEN To(c, outcome) ELSE UNCHANGED <<calls, left>>

\* "authorize" is sent, and the port bound unless it is taken.
Listen(c) ==
    /\ tasks[c].step = "born" /\ ~tasks[c].cancel
    /\ IF port = 0
         THEN /\ tasks' = [tasks EXCEPT ![c].step = "listening"]
              /\ port' = c
              /\ UNCHANGED <<calls, left>>
         ELSE Finish(c, tasks[c], "failed")
    /\ UNCHANGED <<slot, signLock, browser, accounts>>

\* LOGIN_TIMEOUT.
LoginTimeout(c) ==
    /\ tasks[c].step = "listening"
    /\ Finish(c, tasks[c], "failed")
    /\ UNCHANGED <<slot, signLock, browser, accounts>>

\* The user comes to the end of the pages behind a url.
Authorize(c) ==
    /\ tasks[c].step # "none"
    /\ calls[c].step # "ok"
    /\ browser' = browser \cup {c}
    /\ UNCHANGED <<calls, left, slot, signLock, tasks, port, accounts>>

\* The callback goes to whoever listens, and stops the server; for an
\* authorization that was refused it carries no code.
Callback(u) ==
    /\ u \in browser
    /\ browser' = browser \ {u}
    /\ IF port = 0 THEN UNCHANGED <<calls, left, tasks, port>>
       ELSE \/ /\ tasks' = [tasks EXCEPT ![port].step = "exchange", ![port].got = u]
               /\ port' = 0
               /\ UNCHANGED <<calls, left>>
            \/ Finish(port, tasks[port], "failed")
    /\ UNCHANGED <<slot, signLock, accounts>>

\* client.callback: only a state of its own makes a session.
ExchangeAny(c) ==
    /\ tasks[c].step = "exchange" /\ ~tasks[c].cancel
    /\ tasks' = [tasks EXCEPT ![c].step = "save"] /\ UNCHANGED <<calls, left, port>>
    /\ UNCHANGED <<slot, signLock, browser, accounts>>

Exchange(c) ==
    /\ tasks[c].step = "exchange" /\ ~tasks[c].cancel
    /\ IF tasks[c].got = c
         THEN tasks' = [tasks EXCEPT ![c].step = "save"] /\ UNCHANGED <<calls, left, port>>
         ELSE Finish(c, tasks[c], "failed")
    /\ UNCHANGED <<slot, signLock, browser, accounts>>

\* upsert_auth_data: this account, and no other, is logged in now.
SaveAccount(c) ==
    /\ tasks[c].step = "save"
    /\ Finish(c, tasks[c], "ok")
    /\ accounts' = [accounts EXCEPT ![calls[c].of] = "in"]
    /\ UNCHANGED <<slot, signLock, browser>>

\* The exchange, the session or the database.
SignFails(c) ==
    /\ left > 0
    /\ tasks[c].step \in {"exchange", "save"}
    /\ tasks' = [tasks EXCEPT ![c].step = "done", ![c].got = 0]
    /\ calls' = [calls EXCEPT ![c].step = IF @ = "stream" THEN "failed" ELSE @]
    /\ left' = left - 1
    /\ UNCHANGED <<slot, signLock, port, browser, accounts>>

\* The stream ends without a last event.
Cancelled(c) ==
    /\ ~TaskEnded(c) /\ tasks[c].cancel
    /\ Finish(c, [tasks[c] EXCEPT !.got = 0], "failed")
    /\ UNCHANGED <<slot, signLock, browser, accounts>>

-----------------------------------------------------------------------------
(* Logging out: the first account found, read and then written back.       *)

LogoutFind(c) ==
    /\ At(c, "logout", "find")
    /\ IF \A d \in Dids : accounts[d] # "in" THEN To(c, "failed")
       ELSE /\ left' = left
            /\ \E d \in Dids :
                 /\ accounts[d] = "in"
                 /\ calls' = [calls EXCEPT ![c].step = "write", ![c].of = d]
    /\ UNCHANGED signVars

LogoutWrite(c) ==
    /\ At(c, "logout", "write")
    /\ To(c, "ok")
    /\ accounts' = [accounts EXCEPT ![calls[c].of] = "out"]
    /\ UNCHANGED <<slot, signLock, tasks, port, browser>>

SignStep(c) == Resolve(c) \/ TakeOver(c) \/ Begin(c) \/ LogoutFind(c) \/ LogoutWrite(c)
SignTask(c) == Listen(c) \/ LoginTimeout(c) \/ Exchange(c) \/ SaveAccount(c) \/ Cancelled(c)
SignFault(c) == ResolveFails(c) \/ LoginLeaves(c) \/ SignFails(c)
UserStep(c) == Authorize(c) \/ Callback(c)

-----------------------------------------------------------------------------
SignTypeOK ==
    /\ slot \in 0..Requests
    /\ signLock \in Seq(Calls)
    /\ tasks \in [Calls -> [step : {"none", "born", "listening", "exchange", "save", "done"},
                            cancel : BOOLEAN, prev : 0..Requests, got : 0..Requests]]
    /\ port \in 0..Requests
    /\ browser \subseteq Calls
    /\ accounts \in [Dids -> {"none", "in", "out"}]

\* One sign in stands: any other task was told to stop, the port is held by the
\* task that listens, and whoever replaces a sign in waits for it.
OneSignInStands ==
    /\ \A c \in Calls : ~TaskEnded(c) => tasks[c].cancel \/ slot = c
    /\ \A c \in Calls : tasks[c].step = "listening" <=> port = c

\* An account is logged in by its own authorization, whatever callbacks of other
\* sign ins arrive at the port meanwhile (core/account/atproto.rs:192).
OwnAuthorization ==
    \A d \in Dids : accounts[d] = "in" =>
      \E c \in Calls : /\ calls[c].op = "login" /\ calls[c].of = d
                       /\ tasks[c].step = "done" /\ tasks[c].got = c

\* For the proofs: who awaits the sign in that it replaces holds the lock, a task
\* is begun by a login only, and what is saved was its own authorization.
SignInv ==
    /\ SignTypeOK
    /\ OneSignInStands
    /\ OwnAuthorization
    /\ \A c \in Calls : At(c, "login", "await") => HoldsSign(c) /\ slot = 0
    /\ \A c \in Calls : tasks[c].step # "none" =>
          calls[c].op = "login" /\ calls[c].step \notin {"resolve", "lock", "await"}
    /\ \A c \in Calls : calls[c].op = "login" => calls[c].of \in Dids
    /\ \A c \in Calls : tasks[c].step = "save" => tasks[c].got = c

SignAtRest == \A c \in Calls : TaskEnded(c)
=============================================================================
