------------------------------- MODULE Linking -------------------------------
(***************************************************************************)
(* Linking devices (core/account/local.rs, core/network/mod.rs,            *)
(* daemon/authz.rs).                                                       *)
(*                                                                         *)
(* A device authorises another by a UCAN delegation: a token signed by its *)
(* issuer for an audience, named by its hash.  "tiles link create" makes a *)
(* delegation and shows its text, the link code; the user carries it to    *)
(* the other device and runs "tiles link join" there, which stores it,     *)
(* delegates in the reverse direction and sends both to the issuer:        *)
(*                                                                         *)
(*    joining device                          issuer of the code           *)
(*        | -- LinkRequest(code, reverse delegation) --> |                 *)
(*        | <-- LinkAccepted / LinkRejected ------------ |                 *)
(*                                                                         *)
(* The answer goes to everyone on the issuer's topic who waits for one.    *)
(* The tokens table holds at most one linked delegation for each issuer    *)
(* and audience: a new one takes the place of the old.  A device honours   *)
(* what it delegated as long as its own table holds it.                    *)
(***************************************************************************)
EXTENDS Integers, Sequences, FiniteSets

CONSTANTS
    Device,        \* devices, each known by the DID of its one user
    Join,          \* the "tiles link join" commands that users run
    Codes,         \* bound: the codes, by issuer and audience, that users make
    MaxTokens,     \* bound: how many delegations are ever made
    OneJoinEach,   \* whether a device runs one join at a time
    MayRestart,    \* the devices whose daemon may stop and start again
    None

ASSUME LinkingAssumption ==
    /\ Codes \subseteq Device \X Device
    /\ MaxTokens \in Nat
    /\ OneJoinEach \in BOOLEAN
    /\ MayRestart \subseteq Device
    /\ None \notin Join \union Device

VARIABLES
    minted,     \* the delegations ever made, named by their place
    shown,      \* those that were shown to a user as link codes
    held,       \* held[d][<<i, a>>]: the linked row of d's tokens table for issuer i and audience a, or 0
    up,         \* up[d]: the network of d is started
    join,       \* join[j]: the command and the daemon's initiate_device_linking
    request,    \* request[d]: the joins whose LinkRequest waits at d's listener
    checked,    \* checked[d]: the join whose request d's listener works on, or None
    valid,      \* valid[d]: what verify_invocation said of it
    answer,     \* answer[j]: what the gossip loop of j received, or "none"
    revoking,   \* revoking[d]: the peers whose revocation is half done
    agreed,     \* history: <<d, p>> where the user of d made a code for p or joined one of p
    withdrawn,  \* history: withdrawn[d]: delegations of d that d replaced or deleted,
                \* and whose code its own user has not pasted on d again since
    accepted    \* history: the joins whose reverse delegation the issuer stored

tables  == <<minted, held, withdrawn>>
history == <<agreed, withdrawn, accepted>>
vars == <<minted, shown, held, up, join, request, checked, valid, answer, revoking,
          agreed, withdrawn, accepted>>

-------------------------------------------------------------------------------
(* Values *)

Delegation == [iss : Device, aud : Device]
Cid == Nat

\* pc: "creating" has found no reverse delegation and signs one, "ready" is
\* about to join the issuer's topic, "waiting" awaits the answer.
JoinState == [pc : {"idle", "added", "creating", "ready", "waiting", "ok", "failed"},
              by : Device \union {None}, code : Cid, rev : Cid]

TypeOK ==
    /\ minted \in Seq(Delegation)
    /\ shown \subseteq Cid
    /\ held \in [Device -> [Device \X Device -> Cid]]
    /\ up \in [Device -> BOOLEAN]
    /\ join \in [Join -> JoinState]
    /\ request \in [Device -> SUBSET Join]
    /\ checked \in [Device -> Join \union {None}]
    /\ valid \in [Device -> BOOLEAN]
    /\ answer \in [Join -> {"none", "accepted", "rejected", "sync"}]
    /\ revoking \in [Device -> SUBSET Device]
    /\ agreed \subseteq Device \X Device
    /\ withdrawn \in [Device -> SUBSET Cid]
    /\ accepted \subseteq Join

Key(n)    == <<minted[n].iss, minted[n].aud>>
Issuer(j) == minted[join[j].code].iss
UnderWay(j) == join[j].pc \notin {"idle", "ok", "failed"}

\* fetch_linked_devices: the peers that delegated to d, in d's own table.
Listed(d) == {p \in Device : held[d][<<p, d>>] # 0}

\* A device honours a delegation it made while its own table holds it.
Honours(d, n) == held[d][Key(n)] = n

-------------------------------------------------------------------------------
(* The tokens table *)

\* save_token: insert, or on conflict of issuer and audience, replace.
Saved(d, key, n) == [held EXCEPT ![d][key] = n]

\* What d withdraws when the row of a delegation of its own becomes n.
Withdraw(d, key, n) ==
    IF key[1] = d /\ held[d][key] \notin {0, n}
    THEN [withdrawn EXCEPT ![d] = @ \union {held[d][key]}] ELSE withdrawn

\* generate_delegation_token: d signs a delegation for p and stores it.
Mint(d, p) ==
    /\ Len(minted) < MaxTokens
    /\ minted' = Append(minted, [iss |-> d, aud |-> p])
    /\ held' = Saved(d, <<d, p>>, Len(minted) + 1)
    /\ withdrawn' = Withdraw(d, <<d, p>>, Len(minted) + 1)

\* add_token: d stores a delegation it was given.
Add(d, n) ==
    /\ held' = Saved(d, Key(n), n)
    /\ withdrawn' = Withdraw(d, Key(n), n)

-------------------------------------------------------------------------------
(* The user of a device *)

\* "tiles link create": POST authz/create-token with Capability::All.  Nothing
\* keeps the user from naming the device's own DID.
Create(d, p) ==
    /\ <<d, p>> \in Codes
    /\ Mint(d, p)
    /\ shown' = shown \union {Len(minted) + 1}
    /\ agreed' = agreed \union {<<d, p>>}
    /\ UNCHANGED <<up, join, request, checked, valid, answer, revoking, accepted>>

\* "tiles link join", first request: POST authz/add-token.  The user may paste
\* any code: one made for a third device, or one of this very device.  The
\* latter, stored again, is honoured again.
JoinAdd(j, d, n) ==
    /\ join[j].pc = "idle"
    /\ n \in shown
    /\ OneJoinEach => \A k \in Join : UnderWay(k) => join[k].by # d
    /\ held' = Saved(d, Key(n), n)
    /\ withdrawn' = [Withdraw(d, Key(n), n) EXCEPT ![d] = @ \ {n}]
    /\ join' = [join EXCEPT ![j] = [pc |-> "added", by |-> d, code |-> n, rev |-> 0]]
    /\ agreed' = agreed \union {<<d, minted[n].iss>>}
    /\ UNCHANGED <<minted, shown, up, request, checked, valid, answer, revoking, accepted>>

-------------------------------------------------------------------------------
(* initiate_device_linking *)

\* Advances a join whose tables do not change.
Step(j, pc, rev) ==
    /\ join' = [join EXCEPT ![j].pc = pc, ![j].rev = rev]
    /\ UNCHANGED <<minted, shown, held, up, request, checked, valid, answer, revoking, history>>

\* The found delegation is stored again (a mutant of FindReverse).
FindAndStore(j) ==
    LET d == join[j].by
        key == <<minted[join[j].code].aud, Issuer(j)>>
    IN  \/ join[j].pc = "added" /\ up[d] /\ Step(j, "creating", held[d][key])
        \/ /\ join[j].pc = "creating" /\ join[j].rev # 0
           /\ join' = [join EXCEPT ![j].pc = "ready"]
           /\ held' = Saved(d, key, join[j].rev)
           /\ withdrawn' = Withdraw(d, key, join[j].rev)
           /\ UNCHANGED <<minted, shown, up, request, checked, valid, answer, revoking,
                          agreed, accepted>>

\* Second request, POST net/link-device: look for a delegation from the
\* audience of the code to its issuer.
FindReverse(j) ==
    LET d == join[j].by
        reverse == held[d][<<minted[join[j].code].aud, Issuer(j)>>]
    IN  /\ join[j].pc = "added"
        /\ up[d]
        /\ Step(j, IF reverse = 0 THEN "creating" ELSE "ready", reverse)

\* create_token: the reverse delegation, signed after an await.
CreateReverse(j) ==
    /\ join[j].pc = "creating" /\ join[j].rev = 0
    /\ Mint(join[j].by, Issuer(j))
    /\ join' = [join EXCEPT ![j].pc = "ready", ![j].rev = Len(minted) + 1]
    /\ UNCHANGED <<shown, up, request, checked, valid, answer, revoking, agreed, accepted>>

\* The network was never started, create_token or subscribe_and_join fails, or
\* sixty seconds pass: the request is answered with an error.
JoinFails(j) ==
    /\ join[j].pc \in {"added", "creating", "ready"}
    /\ Step(j, "failed", join[j].rev)

\* subscribe_and_join the issuer's topic, spawn the loop, broadcast LinkRequest.
\* A broadcast does not come back to the device that made it.
SendRequest(j) ==
    /\ join[j].pc = "ready"
    /\ up[join[j].by] /\ up[Issuer(j)]
    /\ join' = [join EXCEPT ![j].pc = "waiting"]
    /\ request' = [request EXCEPT ![Issuer(j)] =
                      IF Issuer(j) = join[j].by THEN @ ELSE @ \union {j}]
    /\ UNCHANGED <<minted, shown, held, up, checked, valid, answer, revoking, history>>

\* The loop hands the answer to the caller and leaves the topic.
Answered(j) ==
    /\ join[j].pc = "waiting"
    /\ answer[j] \in {"accepted", "rejected"}
    /\ Step(j, IF answer[j] = "accepted" THEN "ok" ELSE "failed", join[j].rev)

\* The caller waits in the loop's place (a mutant of Timeout).
TimeoutInLoop(j) ==
    /\ join[j].pc = "waiting"
    /\ answer[j] = "none"
    /\ Step(j, "failed", join[j].rev)

\* tokio::time::timeout: no answer within sixty seconds.
Timeout(j) ==
    /\ join[j].pc = "waiting"
    /\ answer[j] \notin {"accepted", "rejected"}
    /\ Step(j, "failed", join[j].rev)

-------------------------------------------------------------------------------
(* The listener of a device: handle_device_link_events *)

\* Who receives what d says on its topic: every join of another device that
\* waits on it.
Waiting(d) == {j \in Join : /\ join[j].pc = "waiting" /\ Issuer(j) = d
                            /\ join[j].by # d /\ answer[j] = "none"}

\* A broadcast on the topic of d; some of those who wait may miss it.
Broadcast(d, msg, receivers) ==
    answer' = [j \in Join |-> IF j \in receivers \intersect Waiting(d) THEN msg ELSE answer[j]]

\* Any delegation the table holds will do (a mutant of Verifies).
VerifiesAnyone(d, j) == Honours(d, join[j].code)

\* process_invocation_verification: the proof is in the table, and its
\* audience is who signed the invocation.
Verifies(d, j) == Honours(d, join[j].code) /\ minted[join[j].code].aud = join[j].by

\* LinkRequest: verify_invocation reads the tokens, then awaits the check.
Check(d, j) ==
    /\ up[d] /\ checked[d] = None
    /\ j \in request[d]
    /\ request' = [request EXCEPT ![d] = @ \ {j}]
    /\ checked' = [checked EXCEPT ![d] = j]
    /\ valid' = [valid EXCEPT ![d] = Verifies(d, j)]
    /\ UNCHANGED <<minted, shown, held, up, join, answer, revoking, history>>

Done(d) ==
    /\ checked' = [checked EXCEPT ![d] = None]
    /\ valid' = [valid EXCEPT ![d] = FALSE]

\* add_token of the reverse delegation, and LinkAccepted.
Accept(d, receivers) ==
    /\ checked[d] # None /\ valid[d]
    /\ Add(d, join[checked[d]].rev)
    /\ accepted' = accepted \union {checked[d]}
    /\ Broadcast(d, "accepted", receivers)
    /\ Done(d)
    /\ UNCHANGED <<minted, shown, up, join, request, revoking, agreed>>

\* The rejection is sent as an acceptance (a mutant of Reject).
RejectAsAccepted(d, receivers) ==
    /\ checked[d] # None
    /\ Broadcast(d, "accepted", receivers)
    /\ Done(d)
    /\ UNCHANGED <<minted, shown, held, up, join, request, revoking, history>>

\* handle_device_link_rejection_by_listener: the invocation does not verify, or
\* the keys or the database cannot be read or written.
Reject(d, receivers) ==
    /\ checked[d] # None
    /\ Broadcast(d, "rejected", receivers)
    /\ Done(d)
    /\ UNCHANGED <<minted, shown, held, up, join, request, revoking, history>>

\* A request is lost, or cannot be decoded.
LoseRequest(d, j) ==
    /\ j \in request[d]
    /\ request' = [request EXCEPT ![d] = @ \ {j}]
    /\ UNCHANGED <<minted, shown, held, up, join, checked, valid, answer, revoking, history>>

\* A message of a sync is broadcast on the topic: a loop that was started for
\* linking has no sync helpers and exits.
SyncMessage(d, receivers) ==
    /\ up[d] /\ receivers \intersect Waiting(d) # {}
    /\ Broadcast(d, "sync", receivers)
    /\ UNCHANGED <<minted, shown, held, up, join, request, checked, valid, revoking, history>>

-------------------------------------------------------------------------------
(* Revocation, start and restart *)

Delete(d, key) ==
    /\ held' = [held EXCEPT ![d][key] = 0]
    /\ withdrawn' = Withdraw(d, key, 0)

\* revoke_token, first DELETE: what d delegated to p.  Without it the request fails.
RevokeGiven(d, p) ==
    /\ held[d][<<d, p>>] # 0
    /\ Delete(d, <<d, p>>)
    /\ revoking' = [revoking EXCEPT ![d] = @ \union {p}]
    /\ UNCHANGED <<minted, shown, up, join, request, checked, valid, answer, agreed, accepted>>

\* revoke_token, second DELETE: what p delegated to d, if it is there.
RevokeReceived(d, p) ==
    /\ p \in revoking[d]
    /\ Delete(d, <<p, d>>)
    /\ revoking' = [revoking EXCEPT ![d] = @ \ {p}]
    /\ UNCHANGED <<minted, shown, up, join, request, checked, valid, answer, agreed, accepted>>

\* POST net/start-network: subscribes the device's topic and starts its listener.
Start(d) ==
    /\ ~up[d]
    /\ up' = [up EXCEPT ![d] = TRUE]
    /\ UNCHANGED <<minted, shown, held, join, request, checked, valid, answer, revoking, history>>

\* The daemon stops and starts again: the tables stay, everything else is lost.
Restart(d) ==
    /\ d \in MayRestart
    /\ up' = [up EXCEPT ![d] = FALSE]
    /\ request' = [request EXCEPT ![d] = {}]
    /\ Done(d)
    /\ revoking' = [revoking EXCEPT ![d] = {}]
    /\ join' = [j \in Join |->
                   IF join[j].by = d /\ join[j].pc \in {"creating", "ready", "waiting"}
                   THEN [join[j] EXCEPT !.pc = "failed"] ELSE join[j]]
    /\ UNCHANGED <<minted, shown, held, answer, history>>

-------------------------------------------------------------------------------
(* Specifications *)

Init ==
    /\ minted = <<>>
    /\ shown = {}
    /\ held = [d \in Device |-> [key \in Device \X Device |-> 0]]
    /\ up = [d \in Device |-> FALSE]
    /\ join = [j \in Join |-> [pc |-> "idle", by |-> None, code |-> 0, rev |-> 0]]
    /\ request = [d \in Device |-> {}]
    /\ checked = [d \in Device |-> None]
    /\ valid = [d \in Device |-> FALSE]
    /\ answer = [j \in Join |-> "none"]
    /\ revoking = [d \in Device |-> {}]
    /\ agreed = {}
    /\ withdrawn = [d \in Device |-> {}]
    /\ accepted = {}

User(d) ==
    \/ \E p \in Device : Create(d, p) \/ RevokeGiven(d, p)
    \/ \E j \in Join, n \in 1..Len(minted) : JoinAdd(j, d, n)

Carry(j) ==
    \/ FindReverse(j) \/ CreateReverse(j) \/ JoinFails(j) \/ SendRequest(j)
    \/ Answered(j) \/ Timeout(j)

Listen(d) ==
    \/ \E j \in Join : Check(d, j) \/ LoseRequest(d, j)
    \/ \E receivers \in SUBSET Join :
          \/ Accept(d, receivers)
          \/ Reject(d, receivers)
          \/ SyncMessage(d, receivers)

Next ==
    \/ \E j \in Join : Carry(j)
    \/ \E d \in Device :
          \/ User(d) \/ Listen(d) \/ Start(d) \/ Restart(d)
          \/ \E p \in Device : RevokeReceived(d, p)

Spec == Init /\ [][Next]_vars

\* The daemon goes on with a link request, and time passes for it; nothing is
\* assumed of the peer or of the gossip loop.
Bounded(j) ==
    \/ join[j].pc \in {"creating", "ready"} /\ JoinFails(j)
    \/ CreateReverse(j) \/ SendRequest(j) \/ Answered(j) \/ Timeout(j)
FairSpec == Spec /\ \A j \in Join : WF_vars(Bounded(j))


-------------------------------------------------------------------------------
(* Properties *)

\* A delegation that its issuer has replaced or revoked is not honoured again,
\* whatever copies of it other devices hold and send back: the tables are
\* written from save_token in four places and deleted from in revoke_token.
\* Only the issuer's own user can bring it back, by pasting the old code on the
\* issuer itself: add_token does not look at who issued what it stores.
StaysWithdrawn ==
    \A d, p \in Device : held[d][<<d, p>>] \notin withdrawn[d]

\* Two devices get a delegation to or from each other in the table of either
\* only where its user made a code for the other or joined a code of it: what
\* list-linked-devices shows and verify_invocation honours was asked for.
OnlyByAgreement ==
    \A d, p \in Device :
        held[d][<<d, p>>] # 0 \/ p \in Listed(d) => <<d, p>> \in agreed

\* When link-device answers that linking was successful, the issuer has
\* accepted a request of this device.
SuccessWasAccepted ==
    \A j \in Join : join[j].pc = "ok" =>
        \E k \in accepted : join[k].by = join[j].by /\ Issuer(k) = Issuer(j)

\* Every link-device request that is being worked on is answered, although
\* the gossip loop may have left without telling its caller.
EveryJoinReturns ==
    \A j \in Join : join[j].pc \in {"creating", "ready", "waiting"} ~> ~UnderWay(j)

-------------------------------------------------------------------------------
(* The inductive invariant of the proofs (LinkingProof) *)

Cids == 1..Len(minted)

\* Codes were made with the consent of their issuer's user.
MintedRight ==
    /\ shown \subseteq Cids
    /\ \A n \in shown : Key(n) \in agreed

\* A row holds a delegation between the two devices that it names.
RowsRight ==
    /\ \A d \in Device, key \in Device \X Device :
          held[d][key] # 0 => held[d][key] \in Cids /\ Key(held[d][key]) = key
    /\ \A d \in Device : withdrawn[d] \subseteq Cids

\* What a join knows: a code of a device its user agreed to link with, and a
\* reverse delegation to that device, of the joining device or the code's audience.
JoinRight(j) ==
    /\ join[j].by \in Device
    /\ join[j].code \in shown
    /\ <<join[j].by, Issuer(j)>> \in agreed
    /\ join[j].rev # 0 =>
          /\ join[j].rev \in Cids
          /\ minted[join[j].rev].aud = Issuer(j)
          /\ minted[join[j].rev].iss \in {join[j].by, minted[join[j].code].aud}
    /\ join[j].pc \in {"added", "creating"} => join[j].rev = 0
    /\ join[j].pc \in {"ready", "waiting", "ok"} => join[j].rev # 0

\* A request that was sent is about a code of its receiver, another device.
SentTo(d, j) ==
    /\ join[j].by # d
    /\ join[j].pc \in {"waiting", "ok", "failed"}
    /\ join[j].rev # 0
    /\ Issuer(j) = d

Inv ==
    /\ TypeOK
    /\ MintedRight /\ RowsRight
    /\ \A j \in Join : join[j].pc # "idle" => JoinRight(j)
    /\ \A d \in Device, j \in Join : j \in request[d] \/ checked[d] = j => SentTo(d, j)
    /\ \A d \in Device :
          valid[d] /\ checked[d] # None =>
             minted[join[checked[d]].code].aud = join[checked[d]].by
    /\ StaysWithdrawn /\ OnlyByAgreement

\* The condition of the theorem on SuccessWasAccepted: the joins of other devices
\* with one issuer are all of one device.  An answer names no join, so it is taken for one's own.
OneJoinerPerIssuer ==
    \A j, k \in Join :
        /\ join[j].pc # "idle" /\ join[k].pc # "idle"
        /\ Issuer(j) = Issuer(k) /\ Issuer(j) \notin {join[j].by, join[k].by}
        => join[j].by = join[k].by

\* Who hears that a join was accepted is of the device whose join was.
AnswersRight ==
    \A j \in Join : answer[j] = "accepted" \/ join[j].pc = "ok" =>
        /\ join[j].pc # "idle"
        /\ \E k \in accepted : /\ join[k].pc # "idle"
                               /\ join[k].by = join[j].by /\ Issuer(k) = Issuer(j)
=============================================================================
