----------------------------- MODULE LinkingProof -----------------------------
(***************************************************************************)
(* Theorems about Linking, for any devices, joins and number of tokens.    *)
(***************************************************************************)
EXTENDS Linking, TLAPS

USE LinkingAssumption

-------------------------------------------------------------------------------
(* The tables *)

\* Appending a delegation changes no earlier one.
LEMMA AppendKeeps ==
    ASSUME TypeOK, NEW d \in Device, NEW p \in Device,
           minted' = Append(minted, [iss |-> d, aud |-> p])
    PROVE  /\ minted' \in Seq(Delegation)
           /\ Len(minted') = Len(minted) + 1
           /\ \A n \in Cids : minted'[n] = minted[n]
           /\ minted'[Len(minted) + 1] = [iss |-> d, aud |-> p]
           /\ Len(minted) \in Nat
<1>1. [iss |-> d, aud |-> p] \in Delegation
  BY DEF Delegation
<1> QED
  BY <1>1 DEF TypeOK, Cids

\* What minted is to the next state: the delegations of before are still there.
Extended ==
    /\ minted' \in Seq(Delegation)
    /\ Len(minted) <= Len(minted')
    /\ \A n \in Cids : minted'[n] = minted[n]

\* A step of d withdraws at most what the row key of its table held.
Withdraws(d, key) ==
    \A e \in Device : \A x \in withdrawn'[e] :
       x \in withdrawn[e] \/ (e = d /\ x = held[d][key] /\ x # 0)

\* Of a delegation that its issuer replaces, at most the replaced one is withdrawn.
LEMMA WithdrawBounds ==
    ASSUME TypeOK, NEW d \in Device, NEW key \in Device \X Device, NEW n \in Nat
    PROVE  /\ Withdraw(d, key, n) \in [Device -> SUBSET Cid]
           /\ \A e \in Device : \A x \in Withdraw(d, key, n)[e] :
                 x \in withdrawn[e] \/ (e = d /\ x = held[d][key] /\ x \notin {0, n})
<1>1. withdrawn \in [Device -> SUBSET Cid] /\ held[d][key] \in Cid
  BY DEF TypeOK
<1> QED
  BY <1>1 DEF Withdraw

\* Storing a delegation n in the row for issuer and audience that n names keeps
\* the rows right, and withdraws nothing that is still honoured, if n itself is
\* not among what is withdrawn or not the device's own.
LEMMA StoreKeeps ==
    ASSUME TypeOK, RowsRight, StaysWithdrawn,
           NEW d \in Device, NEW n \in Nat \ {0},
           NEW key \in Device \X Device,
           Extended,
           n \in 1..Len(minted'), <<minted'[n].iss, minted'[n].aud>> = key,
           held' = Saved(d, key, n),
           withdrawn' \in [Device -> SUBSET Cid],
           key[1] = d => n \notin withdrawn'[d],
           Withdraws(d, key)
    PROVE  /\ held' \in [Device -> [Device \X Device -> Cid]]
           /\ RowsRight'
           /\ StaysWithdrawn'
<1>1. held \in [Device -> [Device \X Device -> Cid]] /\ withdrawn \in [Device -> SUBSET Cid]
  BY DEF TypeOK
<1>2. held' \in [Device -> [Device \X Device -> Cid]]
  BY <1>1 DEF Saved, Cid
<1>3. \A e \in Device, k \in Device \X Device :
         held'[e][k] = IF e = d /\ k = key THEN n ELSE held[e][k]
  BY <1>1 DEF Saved
<1>5. \A e \in Device : \A x \in withdrawn'[e] :
         x \in withdrawn[e] \/ (e = d /\ x = held[d][key] /\ x # 0)
  BY DEF Withdraws
<1>4. Len(minted) <= Len(minted') /\ \A k \in Cids : minted'[k] = minted[k]
  BY DEF Extended
<1>6. Len(minted) \in Nat /\ Len(minted') \in Nat /\ Cids \subseteq 1..Len(minted')
  BY DEF TypeOK, Cids, Extended
<1>7. RowsRight'
  <2>1. ASSUME NEW e \in Device, NEW k \in Device \X Device, held'[e][k] # 0
        PROVE  held'[e][k] \in 1..Len(minted')
               /\ <<minted'[held'[e][k]].iss, minted'[held'[e][k]].aud>> = k
    <3>1. CASE e = d /\ k = key
      BY <3>1, <1>3
    <3>2. CASE ~(e = d /\ k = key)
      <4>1. held'[e][k] = held[e][k]
        BY <3>2, <1>3
      <4>2. held[e][k] \in Cids /\ Key(held[e][k]) = k
        BY <4>1, <2>1 DEF RowsRight
      <4> QED
        BY <4>1, <4>2, <1>4, <1>6 DEF Key
    <3> QED
      BY <3>1, <3>2
  <2>2. ASSUME NEW e \in Device
        PROVE  withdrawn'[e] \subseteq 1..Len(minted')
    <3>1. withdrawn[e] \subseteq 1..Len(minted')
      BY <1>6 DEF RowsRight
    <3>2. held[d][key] # 0 => held[d][key] \in 1..Len(minted')
      BY <1>6 DEF RowsRight
    <3> QED
      BY <3>1, <3>2, <1>5
  <2> QED
    BY <2>1, <2>2 DEF RowsRight, Cids, Key
<1>8. StaysWithdrawn'
  <2> SUFFICES ASSUME NEW e \in Device, NEW p \in Device
               PROVE  held'[e][<<e, p>>] \notin withdrawn'[e]
    BY DEF StaysWithdrawn
  <2>1. held[e][<<e, p>>] \notin withdrawn[e] /\ withdrawn[e] \subseteq Cids
    BY DEF StaysWithdrawn, RowsRight
  <2>2. held[d][key] # 0 => held[d][key] \in Cids /\ Key(held[d][key]) = key
    BY DEF RowsRight
  <2>3. CASE e = d /\ <<e, p>> = key
    <3>1. held'[e][<<e, p>>] = n
      BY <2>3, <1>3
    <3>2. n \notin withdrawn'[d]
      BY <2>3
    <3> QED
      BY <3>1, <3>2, <2>3
  <2>4. CASE ~(e = d /\ <<e, p>> = key)
    <3>1. held'[e][<<e, p>>] = held[e][<<e, p>>]
      BY <2>4, <1>3
    <3>2. CASE held[e][<<e, p>>] = 0
      BY <3>1, <3>2, <2>1, <1>5
    <3>3. CASE held[e][<<e, p>>] # 0
      <4>1. Key(held[e][<<e, p>>]) = <<e, p>>
        BY <3>3 DEF RowsRight
      <4>2. e = d => <<e, p>> # key
        BY <2>4
      <4>3. e = d /\ held[d][key] # 0 => held[e][<<e, p>>] # held[d][key]
        BY <4>1, <4>2, <2>2
      <4> QED
        BY <4>3, <3>1, <2>1, <1>5
    <3> QED
      BY <3>2, <3>3
  <2> QED
    BY <2>3, <2>4
<1> QED
  BY <1>2, <1>7, <1>8

\* Deleting a row keeps the tables right.
LEMMA DeleteKeeps ==
    ASSUME TypeOK, RowsRight, StaysWithdrawn, OnlyByAgreement,
           NEW d \in Device, NEW key \in Device \X Device,
           Delete(d, key), minted' = minted, agreed' = agreed
    PROVE  /\ held' \in [Device -> [Device \X Device -> Cid]]
           /\ withdrawn' \in [Device -> SUBSET Cid]
           /\ RowsRight' /\ StaysWithdrawn' /\ OnlyByAgreement'
<1>1. held \in [Device -> [Device \X Device -> Cid]] /\ withdrawn \in [Device -> SUBSET Cid]
  BY DEF TypeOK
<1>2. held' \in [Device -> [Device \X Device -> Cid]]
  BY <1>1 DEF Delete, Cid
<1>3. \A e \in Device, k \in Device \X Device :
         held'[e][k] = IF e = d /\ k = key THEN 0 ELSE held[e][k]
  BY <1>1 DEF Delete
<1>4. /\ withdrawn' \in [Device -> SUBSET Cid]
      /\ \A e \in Device : \A x \in withdrawn'[e] :
            x \in withdrawn[e] \/ (e = d /\ x = held[d][key] /\ x \notin {0, 0})
  <2>1. withdrawn' = Withdraw(d, key, 0) /\ 0 \in Nat
    BY DEF Delete
  <2> QED
    BY <2>1, WithdrawBounds
<1>5. \A e \in Device : \A x \in withdrawn'[e] :
         x \in withdrawn[e] \/ (e = d /\ x = held[d][key] /\ x # 0)
  BY <1>4
<1>6. RowsRight'
  <2>1. \A e \in Device : withdrawn'[e] \subseteq Cids
    <3>1. held[d][key] # 0 => held[d][key] \in Cids
      BY DEF RowsRight
    <3>2. \A e \in Device : withdrawn[e] \subseteq Cids
      BY DEF RowsRight
    <3> QED
      BY <3>1, <3>2, <1>5
  <2>2. \A e \in Device, k \in Device \X Device :
           held'[e][k] # 0 => held'[e][k] \in Cids /\ Key(held'[e][k]) = k
    BY <1>3 DEF RowsRight
  <2> QED
    BY <2>1, <2>2 DEF RowsRight, Cids, Key
<1>7. StaysWithdrawn'
  <2> SUFFICES ASSUME NEW e \in Device, NEW p \in Device
               PROVE  held'[e][<<e, p>>] \notin withdrawn'[e]
    BY DEF StaysWithdrawn
  <2>1. held[e][<<e, p>>] \notin withdrawn[e] /\ withdrawn[e] \subseteq Cids /\ 0 \notin Cids
    BY DEF StaysWithdrawn, RowsRight, Cids
  <2>2. \A k \in Device \X Device : held[e][k] # 0 => Key(held[e][k]) = k
    BY DEF RowsRight
  <2>3. CASE e = d /\ <<e, p>> = key
    <3>1. held'[e][<<e, p>>] = 0
      BY <2>3, <1>3
    <3>2. 0 \notin withdrawn[e]
      BY <2>1
    <3>3. 0 \notin withdrawn'[e]
      BY <3>2, <1>5
    <3> QED
      BY <3>1, <3>3
  <2>4. CASE ~(e = d /\ <<e, p>> = key)
    <3>1. held'[e][<<e, p>>] = held[e][<<e, p>>]
      BY <2>4, <1>3
    <3>2. held[e][<<e, p>>] # 0 => (e = d => held[e][<<e, p>>] # held[d][key])
      BY <2>2, <2>4
    <3> QED
      BY <3>1, <3>2, <2>1, <1>5
  <2> QED
    BY <2>3, <2>4
<1>8. OnlyByAgreement'
  BY <1>3 DEF OnlyByAgreement, Listed
<1> QED
  BY <1>2, <1>4, <1>6, <1>7, <1>8

\* Storing a delegation in the row of two devices keeps the table agreed, where
\* the user of the device agreed to the other.
LEMMA AgreementKeeps ==
    ASSUME TypeOK, OnlyByAgreement,
           NEW d \in Device, NEW n \in Nat, NEW key \in Device \X Device,
           held' = Saved(d, key, n),
           agreed \subseteq agreed',
           \A p \in Device : key \in {<<d, p>>, <<p, d>>} => <<d, p>> \in agreed'
    PROVE  OnlyByAgreement'
<1>1. held \in [Device -> [Device \X Device -> Cid]]
  BY DEF TypeOK
<1>2. \A e \in Device, k \in Device \X Device :
         held'[e][k] = IF e = d /\ k = key THEN n ELSE held[e][k]
  BY <1>1 DEF Saved
<1> SUFFICES ASSUME NEW e \in Device, NEW p \in Device,
                    held'[e][<<e, p>>] # 0 \/ held'[e][<<p, e>>] # 0
             PROVE  <<e, p>> \in agreed'
  BY DEF OnlyByAgreement, Listed
<1>3. CASE e = d /\ key \in {<<e, p>>, <<p, e>>}
  BY <1>3
<1>4. CASE ~(e = d /\ key \in {<<e, p>>, <<p, e>>})
  <2>1. held'[e][<<e, p>>] = held[e][<<e, p>>] /\ held'[e][<<p, e>>] = held[e][<<p, e>>]
    BY <1>2, <1>4
  <2> QED
    BY <2>1 DEF OnlyByAgreement, Listed
<1> QED
  BY <1>3, <1>4

\* Making a delegation, with the agreement of the user of its issuer.
LEMMA MintKeeps ==
    ASSUME Inv, NEW d \in Device, NEW p \in Device,
           Mint(d, p),
           agreed \subseteq agreed', <<d, p>> \in agreed',
           shown \subseteq shown', shown' \subseteq shown \union {Len(minted) + 1}
    PROVE  /\ Extended
           /\ Len(minted') = Len(minted) + 1
           /\ minted'[Len(minted) + 1] = [iss |-> d, aud |-> p]
           /\ held' \in [Device -> [Device \X Device -> Cid]]
           /\ withdrawn' \in [Device -> SUBSET Cid]
           /\ MintedRight' /\ RowsRight' /\ StaysWithdrawn' /\ OnlyByAgreement'
<1>1. TypeOK /\ MintedRight /\ RowsRight /\ StaysWithdrawn /\ OnlyByAgreement
  BY DEF Inv
<1>2. minted' = Append(minted, [iss |-> d, aud |-> p])
  BY DEF Mint
<1>3. /\ minted' \in Seq(Delegation)
      /\ Len(minted') = Len(minted) + 1
      /\ \A n \in Cids : minted'[n] = minted[n]
      /\ minted'[Len(minted) + 1] = [iss |-> d, aud |-> p]
      /\ Len(minted) \in Nat
  BY <1>1, <1>2, AppendKeeps
<1>4. Extended
  BY <1>3 DEF Extended
<1>5. held' = Saved(d, <<d, p>>, Len(minted) + 1) /\ withdrawn' = Withdraw(d, <<d, p>>, Len(minted) + 1)
  BY DEF Mint
<1>6. /\ held' \in [Device -> [Device \X Device -> Cid]]
      /\ withdrawn' \in [Device -> SUBSET Cid]
      /\ RowsRight' /\ StaysWithdrawn'
  <2>1. Len(minted) + 1 \in Nat \ {0} /\ Len(minted) + 1 \in 1..Len(minted')
    BY <1>3
  <2>2. <<minted'[Len(minted) + 1].iss, minted'[Len(minted) + 1].aud>> = <<d, p>>
    BY <1>3
  <2>4. <<d, p>> \in Device \X Device
    OBVIOUS
  <2> DEFINE n == Len(minted) + 1  key == <<d, p>>
  <2>6. /\ n \in Nat \ {0} /\ n \in Nat /\ n \in 1..Len(minted') /\ key \in Device \X Device
        /\ <<minted'[n].iss, minted'[n].aud>> = key
        /\ held' = Saved(d, key, n) /\ withdrawn' = Withdraw(d, key, n)
        /\ n \notin Cids
    BY <1>3, <1>5, <2>1, <2>2, <2>4 DEF Cids
  <2> HIDE DEF n, key
  <2>7. /\ withdrawn' \in [Device -> SUBSET Cid]
        /\ \A e \in Device : \A x \in withdrawn'[e] :
              x \in withdrawn[e] \/ (e = d /\ x = held[d][key] /\ x \notin {0, n})
    BY <1>1, <2>6, WithdrawBounds
  <2>8. n \notin withdrawn'[d]
    BY <1>1, <2>6, <2>7 DEF RowsRight
  <2>9. Withdraws(d, key)
    BY <2>7 DEF Withdraws
  <2> QED
    BY <1>1, <1>4, <2>6, <2>7, <2>8, <2>9, StoreKeeps
<1>7. OnlyByAgreement'
  <2>1. \A q \in Device : <<d, p>> \in {<<d, q>>, <<q, d>>} => <<d, q>> \in agreed'
    OBVIOUS
  <2>2. <<d, p>> \in Device \X Device /\ Len(minted) + 1 \in Nat
    BY <1>3
  <2> QED
    BY <1>1, <1>5, <2>1, <2>2, AgreementKeeps
<1>8. MintedRight'
  <2>1. Cids' = Cids \union {Len(minted) + 1}
    BY <1>3 DEF Cids
  <2>3. shown' \subseteq Cids'
    BY <2>1, <1>1 DEF MintedRight
  <2>4. ASSUME NEW n \in shown'
        PROVE  <<minted'[n].iss, minted'[n].aud>> \in agreed'
    <3>1. CASE n \in shown
      <4>1. n \in Cids /\ Key(n) \in agreed
        BY <3>1, <1>1 DEF MintedRight
      <4> QED
        BY <4>1, <1>3 DEF Key
    <3>2. CASE n = Len(minted) + 1
      BY <3>2, <1>3
    <3> QED
      BY <3>1, <3>2
  <2> QED
    BY <2>3, <2>4 DEF MintedRight, Key
<1> QED
  BY <1>3, <1>4, <1>6, <1>7, <1>8

\* A join that does not move, and what was sent for it, stay right.
LEMMA JoinsKeep ==
    ASSUME Inv, Extended, shown \subseteq shown', agreed \subseteq agreed',
           NEW j \in Join, join[j].pc # "idle", join'[j].code = join[j].code
    PROVE  /\ join[j].code \in Cids
           /\ minted'[join'[j].code] = minted[join[j].code]
           /\ Issuer(j)' = Issuer(j)
           /\ join'[j] = join[j] => JoinRight(j)'
           /\ \A d \in Device : SentTo(d, j) /\ join'[j] = join[j] => SentTo(d, j)'
<1>1. JoinRight(j) /\ MintedRight /\ TypeOK
  BY DEF Inv
<1>2. join[j].code \in Cids
  BY <1>1 DEF JoinRight, MintedRight
<1>3. minted'[join'[j].code] = minted[join[j].code]
  BY <1>2 DEF Extended
<1>4. Issuer(j)' = Issuer(j)
  BY <1>3 DEF Issuer
<1>5. Cids \subseteq Cids'
  BY <1>1 DEF Extended, Cids, TypeOK
<1>6. ASSUME join'[j] = join[j] PROVE JoinRight(j)'
  <2>1. join[j].rev # 0 => join[j].rev \in Cids' /\ minted'[join[j].rev] = minted[join[j].rev]
    BY <1>1, <1>5 DEF JoinRight, Extended
  <2> QED
    BY <1>1, <1>3, <1>4, <1>6, <2>1 DEF JoinRight
<1>7. \A d \in Device : SentTo(d, j) /\ join'[j] = join[j] => SentTo(d, j)'
  BY <1>4 DEF SentTo
<1> QED
  BY <1>2, <1>3, <1>4, <1>6, <1>7

\* A step that leaves the tables alone keeps what Inv says of them.
LEMMA TablesKeep ==
    ASSUME Inv, UNCHANGED <<minted, shown, held, agreed, withdrawn>>
    PROVE  /\ Extended
           /\ shown \subseteq shown' /\ agreed \subseteq agreed'
           /\ MintedRight' /\ RowsRight' /\ StaysWithdrawn' /\ OnlyByAgreement'
<1>1. Extended
  BY DEF Extended, Inv, TypeOK
<1>2. MintedRight' /\ RowsRight' /\ StaysWithdrawn' /\ OnlyByAgreement'
  BY DEF Inv, MintedRight, RowsRight, StaysWithdrawn, OnlyByAgreement, Listed, Cids, Key
<1> QED
  BY <1>1, <1>2

-------------------------------------------------------------------------------
(* Steps of a join *)

\* A step of initiate_device_linking that changes no table keeps Inv, when the
\* join still knows what it must.
LEMMA StepKeeps ==
    ASSUME Inv, NEW j \in Join, join[j].pc # "idle",
           NEW pc \in {"creating", "ready", "waiting", "ok", "failed"}, NEW rev \in Cid,
           Step(j, pc, rev),
           rev # 0 => /\ rev \in Cids
                      /\ minted[rev].aud = Issuer(j)
                      /\ minted[rev].iss \in {join[j].by, minted[join[j].code].aud},
           pc = "creating" => rev = 0,
           pc \in {"ready", "waiting", "ok"} => rev # 0,
           \A d \in Device : SentTo(d, j) => pc \in {"ok", "failed"} /\ rev = join[j].rev
    PROVE  Inv'
<1>1. /\ join' = [join EXCEPT ![j].pc = pc, ![j].rev = rev]
      /\ UNCHANGED <<minted, shown, held, up, request, checked, valid, answer, revoking,
                     agreed, withdrawn, accepted>>
  BY DEF Step, history
<1>2. join \in [Join -> JoinState] /\ join[j] \in JoinState
  BY DEF Inv, TypeOK
<1>3. join'[j] = [join[j] EXCEPT !.pc = pc, !.rev = rev]
  BY <1>1, <1>2
<1>4. /\ join'[j].pc = pc /\ join'[j].rev = rev
      /\ join'[j].by = join[j].by /\ join'[j].code = join[j].code
      /\ join'[j] \in JoinState
  BY <1>2, <1>3 DEF JoinState
<1>5. \A k \in Join \ {j} : join'[k] = join[k]
  BY <1>1, <1>2
<1>6. join' \in [Join -> JoinState]
  BY <1>1, <1>2, <1>4, <1>5
<1>7. TypeOK'
  BY <1>1, <1>6 DEF Inv, TypeOK
<1>8. /\ Extended /\ shown \subseteq shown' /\ agreed \subseteq agreed'
      /\ MintedRight' /\ RowsRight' /\ StaysWithdrawn' /\ OnlyByAgreement'
  BY <1>1, TablesKeep
<1>9. Issuer(j)' = Issuer(j)
  BY <1>4, <1>1 DEF Issuer
<1>0. JoinRight(j)'
  <2>1. /\ join[j].by \in Device
        /\ join[j].code \in shown
        /\ <<join[j].by, Issuer(j)>> \in agreed
    BY DEF Inv, JoinRight
  <2>2. Cids' = Cids
    BY <1>1 DEF Cids
  <2>3. /\ join'[j].by \in Device
        /\ join'[j].code \in shown'
        /\ <<join'[j].by, Issuer(j)'>> \in agreed'
    <3>1. shown' = shown /\ agreed' = agreed
      BY <1>1
    <3> QED
      BY <2>1, <3>1, <1>4, <1>9
  <2>4. join'[j].rev # 0 =>
          /\ join'[j].rev \in Cids'
          /\ minted'[join'[j].rev].aud = Issuer(j)'
          /\ minted'[join'[j].rev].iss \in {join'[j].by, minted'[join'[j].code].aud}
    BY <2>2, <1>1, <1>4, <1>9
  <2>5. /\ join'[j].pc \in {"added", "creating"} => join'[j].rev = 0
        /\ join'[j].pc \in {"ready", "waiting", "ok"} => join'[j].rev # 0
    BY <1>4
  <2> QED
    BY <2>3, <2>4, <2>5 DEF JoinRight
<1>10. ASSUME NEW k \in Join, join'[k].pc # "idle" PROVE JoinRight(k)'
  <2>1. CASE k = j
    BY <2>1, <1>0
  <2>2. CASE k # j
    BY <2>2, <1>5, <1>8, <1>10, JoinsKeep
  <2> QED
    BY <2>1, <2>2
<1>11. ASSUME NEW d \in Device, NEW k \in Join, k \in request'[d] \/ checked'[d] = k
       PROVE  SentTo(d, k)'
  <2>1. SentTo(d, k)
    BY <1>1, <1>11 DEF Inv
  <2>2. CASE k = j
    BY <2>1, <2>2, <1>4, <1>9 DEF SentTo
  <2>3. CASE k # j
    <3>1. join[k].pc # "idle"
      BY <2>1 DEF SentTo
    <3> QED
      BY <2>1, <2>3, <3>1, <1>5, <1>8, JoinsKeep
  <2> QED
    BY <2>2, <2>3
<1>12. ASSUME NEW d \in Device, valid'[d], checked'[d] # None
       PROVE  minted'[join'[checked'[d]].code].aud = join'[checked'[d]].by
  <2>1. checked[d] \in Join /\ minted[join[checked[d]].code].aud = join[checked[d]].by
    BY <1>1, <1>12 DEF Inv, TypeOK
  <2> QED
    BY <2>1, <1>1, <1>4, <1>5
<1> QED
  BY <1>7, <1>8, <1>10, <1>11, <1>12 DEF Inv

LEMMA JoinStepsKeep ==
    ASSUME Inv, NEW j \in Join,
           FindReverse(j) \/ JoinFails(j) \/ Answered(j) \/ Timeout(j)
    PROVE  Inv'
<1>1. join[j].pc # "idle"
  BY DEF FindReverse, JoinFails, Answered, Timeout
<1>2. JoinRight(j) /\ TypeOK /\ RowsRight /\ MintedRight
  BY <1>1 DEF Inv
<1>3. join[j] \in JoinState /\ join[j].rev \in Cid /\ join[j].code \in Cids
  BY <1>2 DEF TypeOK, JoinState, JoinRight, MintedRight
<1>4. CASE FindReverse(j)
  <2> DEFINE key == <<minted[join[j].code].aud, Issuer(j)>>
             rev == held[join[j].by][key]
             pc  == IF rev = 0 THEN "creating" ELSE "ready"
  <2>1. Step(j, pc, rev) /\ join[j].pc = "added"
    BY <1>4 DEF FindReverse
  <2>2. minted[join[j].code] \in Delegation
    BY <1>3, <1>2 DEF TypeOK, Cids
  <2>3. key \in Device \X Device /\ join[j].by \in Device
    BY <2>2, <1>2 DEF Delegation, Issuer, JoinRight
  <2>4. rev \in Cid
    BY <2>3, <1>2 DEF TypeOK
  <2>5. rev # 0 => rev \in Cids /\ Key(rev) = key
    BY <2>3, <1>2 DEF RowsRight
  <2>6. rev # 0 => /\ rev \in Cids
                   /\ minted[rev].aud = Issuer(j)
                   /\ minted[rev].iss \in {join[j].by, minted[join[j].code].aud}
    BY <2>5 DEF Key
  <2>7. \A d \in Device : ~SentTo(d, j)
    BY <2>1 DEF SentTo
  <2>8. pc \in {"creating", "ready", "waiting", "ok", "failed"}
        /\ (pc = "creating" => rev = 0) /\ (pc \in {"ready", "waiting", "ok"} => rev # 0)
    OBVIOUS
  <2> HIDE DEF rev, pc
  <2> QED
    BY <1>1, <2>1, <2>4, <2>6, <2>7, <2>8, StepKeeps
<1>5. CASE JoinFails(j)
  <2>1. Step(j, "failed", join[j].rev) /\ join[j].pc \in {"added", "creating", "ready"}
    BY <1>5 DEF JoinFails
  <2>2. \A d \in Device : ~SentTo(d, j)
    BY <2>1 DEF SentTo
  <2> QED
    BY <1>1, <1>2, <1>3, <2>1, <2>2, StepKeeps DEF JoinRight
<1>6. CASE Answered(j) \/ Timeout(j)
  <2>1. PICK pc \in {"ok", "failed"} : Step(j, pc, join[j].rev)
    BY <1>6 DEF Answered, Timeout
  <2>2. join[j].pc = "waiting"
    BY <1>6 DEF Answered, Timeout
  <2> QED
    BY <1>1, <1>2, <1>3, <2>1, <2>2, StepKeeps DEF JoinRight
<1> QED
  BY <1>4, <1>5, <1>6

\* Steps that change neither the tables nor the joins, nor what the listeners
\* work on beyond what is said here.
LEMMA IdleKeeps ==
    ASSUME Inv, UNCHANGED <<minted, shown, held, agreed, withdrawn, join>>,
           TypeOK',
           \A d \in Device, j \in Join :
              j \in request'[d] \/ checked'[d] = j => j \in request[d] \/ checked[d] = j,
           \A d \in Device : valid'[d] /\ checked'[d] # None =>
              minted[join[checked'[d]].code].aud = join[checked'[d]].by
    PROVE  Inv'
<1>1. /\ Extended /\ shown \subseteq shown' /\ agreed \subseteq agreed'
      /\ MintedRight' /\ RowsRight' /\ StaysWithdrawn' /\ OnlyByAgreement'
  BY TablesKeep
<1>2. ASSUME NEW j \in Join, join'[j].pc # "idle" PROVE JoinRight(j)'
  BY <1>1, <1>2, JoinsKeep DEF Inv
<1>3. ASSUME NEW d \in Device, NEW j \in Join, j \in request'[d] \/ checked'[d] = j
      PROVE  SentTo(d, j)'
  BY <1>3 DEF Inv, SentTo, Issuer
<1> QED
  BY <1>1, <1>2, <1>3 DEF Inv

LEMMA ListenerStepsKeep ==
    ASSUME Inv, NEW d \in Device, NEW j \in Join, Check(d, j) \/ LoseRequest(d, j)
    PROVE  Inv'
<1>1. TypeOK
  BY DEF Inv
<1>2. CASE Check(d, j)
  <2>1. /\ request' = [request EXCEPT ![d] = @ \ {j}]
        /\ checked' = [checked EXCEPT ![d] = j]
        /\ valid' = [valid EXCEPT ![d] = Verifies(d, j)]
        /\ j \in request[d]
        /\ UNCHANGED <<minted, shown, held, up, join, answer, revoking, agreed, withdrawn, accepted>>
    BY <1>2 DEF Check, history
  <2>2. Verifies(d, j) \in BOOLEAN
    BY DEF Verifies, Honours
  <2>3. TypeOK'
    BY <2>1, <2>2, <1>1 DEF TypeOK
  <2>4. \A e \in Device : /\ request'[e] \subseteq request[e]
                          /\ checked'[e] = IF e = d THEN j ELSE checked[e]
                          /\ valid'[e] = IF e = d THEN Verifies(d, j) ELSE valid[e]
    BY <2>1, <1>1 DEF TypeOK
  <2>5. Verifies(d, j) => minted[join[j].code].aud = join[j].by
    BY DEF Verifies
  <2>6. ASSUME NEW e \in Device, valid'[e], checked'[e] # None
        PROVE  minted[join[checked'[e]].code].aud = join[checked'[e]].by
    BY <2>4, <2>5, <2>6 DEF Inv
  <2> QED
    BY <2>1, <2>3, <2>4, <2>6, IdleKeeps
<1>3. CASE LoseRequest(d, j)
  <2>1. /\ request' = [request EXCEPT ![d] = @ \ {j}]
        /\ UNCHANGED <<minted, shown, held, up, join, checked, valid, answer, revoking,
                       agreed, withdrawn, accepted>>
    BY <1>3 DEF LoseRequest, history
  <2>2. TypeOK' /\ \A e \in Device : request'[e] \subseteq request[e]
    BY <2>1, <1>1 DEF TypeOK
  <2> QED
    BY <2>1, <2>2, IdleKeeps DEF Inv
<1> QED
  BY <1>2, <1>3

LEMMA AnswerStepsKeep ==
    ASSUME Inv, NEW d \in Device, NEW receivers \in SUBSET Join,
           Reject(d, receivers) \/ SyncMessage(d, receivers) \/ Start(d)
    PROVE  Inv'
<1>1. TypeOK
  BY DEF Inv
<1>2. CASE Reject(d, receivers)
  <2>1. /\ checked' = [checked EXCEPT ![d] = None]
        /\ valid' = [valid EXCEPT ![d] = FALSE]
        /\ answer' = [k \in Join |-> IF k \in receivers \intersect Waiting(d)
                                      THEN "rejected" ELSE answer[k]]
        /\ UNCHANGED <<minted, shown, held, up, join, request, revoking, agreed, withdrawn, accepted>>
    BY <1>2 DEF Reject, Done, Broadcast, history
  <2>2. TypeOK'
    BY <2>1, <1>1 DEF TypeOK
  <2>3. \A e \in Device : /\ checked'[e] = IF e = d THEN None ELSE checked[e]
                          /\ valid'[e] = IF e = d THEN FALSE ELSE valid[e]
    BY <2>1, <1>1 DEF TypeOK
  <2>4. None \notin Join
    BY LinkingAssumption
  <2> QED
    BY <2>1, <2>2, <2>3, <2>4, IdleKeeps DEF Inv
<1>3. CASE SyncMessage(d, receivers)
  <2>1. /\ answer' = [k \in Join |-> IF k \in receivers \intersect Waiting(d)
                                      THEN "sync" ELSE answer[k]]
        /\ UNCHANGED <<minted, shown, held, up, join, request, checked, valid, revoking,
                       agreed, withdrawn, accepted>>
    BY <1>3 DEF SyncMessage, Broadcast, history
  <2>2. TypeOK'
    BY <2>1, <1>1 DEF TypeOK
  <2> QED
    BY <2>1, <2>2, IdleKeeps DEF Inv
<1>4. CASE Start(d)
  <2>1. /\ up' = [up EXCEPT ![d] = TRUE]
        /\ UNCHANGED <<minted, shown, held, join, request, checked, valid, answer, revoking,
                       agreed, withdrawn, accepted>>
    BY <1>4 DEF Start, history
  <2>2. TypeOK'
    BY <2>1, <1>1 DEF TypeOK
  <2> QED
    BY <2>1, <2>2, IdleKeeps DEF Inv
<1> QED
  BY <1>2, <1>3, <1>4

-------------------------------------------------------------------------------
(* Steps that send, store, and delete *)

\* Steps that change the tables but no join keep Inv, when the tables are kept
\* right and no listener gets more to work on.
LEMMA TableStepKeeps ==
    ASSUME Inv, TypeOK', Extended, join' = join,
           shown \subseteq shown', agreed \subseteq agreed',
           MintedRight', RowsRight', StaysWithdrawn', OnlyByAgreement',
           UNCHANGED request,
           \A d \in Device : checked'[d] = None \/ (checked'[d] = checked[d] /\ valid'[d] = valid[d])
    PROVE  Inv'
<1>1. ASSUME NEW j \in Join, join'[j].pc # "idle" PROVE JoinRight(j)'
  BY <1>1, JoinsKeep DEF Inv
<1>2. ASSUME NEW d \in Device, NEW j \in Join, j \in request'[d] \/ checked'[d] = j
      PROVE  SentTo(d, j)'
  <2>1. SentTo(d, j)
    BY <1>2, LinkingAssumption DEF Inv
  <2> QED
    BY <2>1, JoinsKeep DEF SentTo
<1>3. ASSUME NEW d \in Device, valid'[d], checked'[d] # None
      PROVE  minted'[join'[checked'[d]].code].aud = join'[checked'[d]].by
  <2>1. checked'[d] = checked[d] /\ checked[d] \in Join /\ valid[d]
    BY <1>3 DEF Inv, TypeOK
  <2>2. SentTo(d, checked[d]) /\ minted[join[checked[d]].code].aud = join[checked[d]].by
    BY <2>1, <1>3 DEF Inv
  <2>3. minted'[join'[checked[d]].code] = minted[join[checked[d]].code]
    BY <2>1, <2>2, JoinsKeep DEF SentTo
  <2> QED
    BY <2>1, <2>2, <2>3
<1> QED
  BY <1>1, <1>2, <1>3 DEF Inv

LEMMA CreateKeeps ==
    ASSUME Inv, NEW d \in Device, NEW p \in Device, Create(d, p)
    PROVE  Inv'
<1>1. /\ Mint(d, p)
      /\ shown' = shown \union {Len(minted) + 1}
      /\ agreed' = agreed \union {<<d, p>>}
      /\ UNCHANGED <<up, join, request, checked, valid, answer, revoking, accepted>>
  BY DEF Create
<1>2. /\ Extended /\ Len(minted') = Len(minted) + 1
      /\ held' \in [Device -> [Device \X Device -> Cid]]
      /\ withdrawn' \in [Device -> SUBSET Cid]
      /\ MintedRight' /\ RowsRight' /\ StaysWithdrawn' /\ OnlyByAgreement'
  <2>1. agreed \subseteq agreed' /\ <<d, p>> \in agreed' /\ shown \subseteq shown'
        /\ shown' \subseteq shown \union {Len(minted) + 1}
    BY <1>1
  <2> QED
    BY <1>1, <2>1, MintKeeps
<1>3. TypeOK'
  <2>1. Len(minted) + 1 \in Cid
    BY DEF Inv, TypeOK, Cid
  <2>2. shown' \subseteq Cid /\ agreed' \subseteq Device \X Device
    BY <1>1, <2>1 DEF Inv, TypeOK
  <2>3. UNCHANGED <<up, join, request, checked, valid, answer, revoking, accepted>>
    BY <1>1
  <2> QED
    BY <1>2, <2>2, <2>3 DEF Inv, TypeOK, Extended
<1> QED
  BY <1>1, <1>2, <1>3, TableStepKeeps

LEMMA RevokeKeeps ==
    ASSUME Inv, NEW d \in Device, NEW p \in Device, RevokeGiven(d, p) \/ RevokeReceived(d, p)
    PROVE  Inv'
<1>1. PICK key \in {<<d, p>>, <<p, d>>} : Delete(d, key)
  BY DEF RevokeGiven, RevokeReceived
<1>2. /\ revoking' \in [Device -> SUBSET Device]
      /\ UNCHANGED <<minted, shown, up, join, request, checked, valid, answer, agreed, accepted>>
  <2>1. revoking \in [Device -> SUBSET Device]
    BY DEF Inv, TypeOK
  <2>2. CASE RevokeGiven(d, p)
    BY <2>1, <2>2 DEF RevokeGiven
  <2>3. CASE RevokeReceived(d, p)
    BY <2>1, <2>3 DEF RevokeReceived
  <2> QED
    BY <2>2, <2>3
<1>3. /\ held' \in [Device -> [Device \X Device -> Cid]]
      /\ withdrawn' \in [Device -> SUBSET Cid]
      /\ RowsRight' /\ StaysWithdrawn' /\ OnlyByAgreement'
  <2>1. key \in Device \X Device
    OBVIOUS
  <2> QED
    BY <1>1, <1>2, <2>1, DeleteKeeps DEF Inv
<1>4. MintedRight' /\ Extended
  BY <1>2 DEF Inv, TypeOK, MintedRight, Cids, Key, Extended
<1>5. TypeOK'
  BY <1>2, <1>3 DEF Inv, TypeOK
<1> QED
  BY <1>2, <1>3, <1>4, <1>5, TableStepKeeps

\* Storing a delegation that is not among what the device has withdrawn.
LEMMA StoredKeeps ==
    ASSUME Inv, NEW d \in Device, NEW n \in Cids, UNCHANGED <<minted, shown>>,
           held' = Saved(d, Key(n), n),
           withdrawn' \in [Device -> SUBSET Cid],
           minted[n].iss = d => n \notin withdrawn'[d],
           Withdraws(d, Key(n)),
           agreed \subseteq agreed',
           minted[n].aud = d => <<d, minted[n].iss>> \in agreed',
           minted[n].iss = d => <<d, minted[n].aud>> \in agreed'
    PROVE  /\ held' \in [Device -> [Device \X Device -> Cid]]
           /\ Extended /\ MintedRight' /\ RowsRight' /\ StaysWithdrawn' /\ OnlyByAgreement'
<1>1. TypeOK /\ RowsRight /\ StaysWithdrawn /\ OnlyByAgreement /\ MintedRight
  BY DEF Inv
<1>2. minted[n] \in Delegation /\ n \in Nat \ {0} /\ Len(minted) \in Nat
  BY <1>1 DEF TypeOK, Cids
<1>3. Key(n) \in Device \X Device /\ Key(n) = <<minted[n].iss, minted[n].aud>>
  BY <1>2 DEF Key, Delegation
<1>4. Extended
  BY <1>1, <1>2 DEF Extended, TypeOK
<1>6. /\ held' \in [Device -> [Device \X Device -> Cid]]
      /\ RowsRight' /\ StaysWithdrawn'
  <2>1. n \in 1..Len(minted') /\ Len(minted) <= Len(minted')
    BY <1>2 DEF Cids
  <2> DEFINE key == Key(n)
  <2>4. /\ key \in Device \X Device /\ <<minted'[n].iss, minted'[n].aud>> = key
        /\ key[1] = d => n \notin withdrawn'[d]
        /\ held' = Saved(d, key, n)
        /\ Withdraws(d, key)
    BY <1>3
  <2> HIDE DEF key
  <2> QED
    BY <1>1, <1>2, <1>4, <2>1, <2>4, StoreKeeps
<1>7. OnlyByAgreement'
  <2>1. ASSUME NEW p \in Device, Key(n) \in {<<d, p>>, <<p, d>>}
        PROVE  <<d, p>> \in agreed'
    <3>1. CASE Key(n) = <<p, d>>
      BY <3>1, <1>3
    <3>2. CASE Key(n) = <<d, p>>
      BY <3>2, <1>3
    <3> QED
      BY <2>1, <3>1, <3>2
  <2> QED
    BY <1>1, <1>2, <1>3, <2>1, AgreementKeeps
<1>8. MintedRight'
  BY <1>1 DEF MintedRight, Cids, Key
<1> QED
  BY <1>4, <1>6, <1>7, <1>8

\* add_token of a delegation that is not the device's own.
LEMMA AddKeeps ==
    ASSUME Inv, NEW d \in Device, NEW n \in Cids, minted[n].iss # d,
           Add(d, n), UNCHANGED <<minted, shown>>,
           agreed \subseteq agreed', minted[n].aud = d => <<d, minted[n].iss>> \in agreed'
    PROVE  /\ held' \in [Device -> [Device \X Device -> Cid]]
           /\ withdrawn' \in [Device -> SUBSET Cid]
           /\ Extended /\ MintedRight' /\ RowsRight' /\ StaysWithdrawn' /\ OnlyByAgreement'
<1>1. TypeOK /\ n \in Nat /\ Key(n) \in Device \X Device
  <2>1. TypeOK
    BY DEF Inv
  <2>2. n \in Nat /\ minted[n] \in Delegation
    BY <2>1 DEF TypeOK, Cids
  <2> QED
    BY <2>1, <2>2 DEF Key, Delegation
<1>2. held' = Saved(d, Key(n), n) /\ withdrawn' = Withdraw(d, Key(n), n)
  BY DEF Add
<1>3. /\ withdrawn' \in [Device -> SUBSET Cid]
      /\ \A e \in Device : \A x \in withdrawn'[e] :
            x \in withdrawn[e] \/ (e = d /\ x = held[d][Key(n)] /\ x \notin {0, n})
  BY <1>1, <1>2, WithdrawBounds
<1>4. Withdraws(d, Key(n))
  BY <1>3 DEF Withdraws
<1> QED
  BY <1>2, <1>3, <1>4, StoredKeeps

LEMMA AcceptKeeps ==
    ASSUME Inv, NEW d \in Device, NEW receivers \in SUBSET Join, Accept(d, receivers)
    PROVE  Inv'
<1> DEFINE j == checked[d]
<1>1. /\ j # None /\ valid[d]
      /\ Add(d, join[j].rev)
      /\ accepted' = accepted \union {j}
      /\ answer' = [k \in Join |-> IF k \in receivers \intersect Waiting(d)
                                    THEN "accepted" ELSE answer[k]]
      /\ checked' = [checked EXCEPT ![d] = None]
      /\ valid' = [valid EXCEPT ![d] = FALSE]
      /\ UNCHANGED <<minted, shown, up, join, request, revoking, agreed>>
  BY DEF Accept, Broadcast, Done
<1>2. TypeOK /\ j \in Join
  BY <1>1 DEF Inv, TypeOK
<1>3. SentTo(d, j) /\ minted[join[j].code].aud = join[j].by
  BY <1>1, <1>2 DEF Inv
<1>4. JoinRight(j) /\ MintedRight
  BY <1>2, <1>3 DEF Inv, SentTo
<1>5. /\ join[j].rev \in Cids
      /\ minted[join[j].rev].aud = d
      /\ minted[join[j].rev].iss = join[j].by
      /\ join[j].by # d
  BY <1>3, <1>4 DEF SentTo, JoinRight
<1>6. <<d, join[j].by>> \in agreed
  <2>1. Key(join[j].code) \in agreed
    BY <1>4 DEF JoinRight, MintedRight
  <2> QED
    BY <2>1, <1>3 DEF Key, SentTo, Issuer
<1>7. /\ held' \in [Device -> [Device \X Device -> Cid]]
      /\ withdrawn' \in [Device -> SUBSET Cid]
      /\ Extended /\ MintedRight' /\ RowsRight' /\ StaysWithdrawn' /\ OnlyByAgreement'
  <2> DEFINE n == join[j].rev
  <2>1. n \in Cids /\ minted[n].iss # d /\ Add(d, n) /\ UNCHANGED <<minted, shown>>
        /\ agreed \subseteq agreed' /\ (minted[n].aud = d => <<d, minted[n].iss>> \in agreed')
    BY <1>1, <1>5, <1>6
  <2> HIDE DEF n
  <2> QED
    BY <2>1, AddKeeps
<1>8. TypeOK'
  <2>1. answer' \in [Join -> {"none", "accepted", "rejected", "sync"}]
    BY <1>1, <1>2 DEF TypeOK
  <2>2. checked' \in [Device -> Join \union {None}] /\ valid' \in [Device -> BOOLEAN]
    BY <1>1, <1>2 DEF TypeOK
  <2> HIDE DEF j
  <2> QED
    BY <1>1, <1>2, <1>7, <2>1, <2>2 DEF TypeOK
<1>9. \A e \in Device : checked'[e] = None \/ (checked'[e] = checked[e] /\ valid'[e] = valid[e])
  BY <1>1, <1>2 DEF TypeOK
<1> QED
  BY <1>1, <1>7, <1>8, <1>9, TableStepKeeps

LEMMA JoinAddKeeps ==
    ASSUME Inv, NEW j \in Join, NEW d \in Device, NEW n \in Cids, JoinAdd(j, d, n)
    PROVE  Inv'
<1>1. /\ join[j].pc = "idle" /\ n \in shown
      /\ held' = Saved(d, Key(n), n)
      /\ withdrawn' = [Withdraw(d, Key(n), n) EXCEPT ![d] = @ \ {n}]
      /\ join' = [join EXCEPT ![j] = [pc |-> "added", by |-> d, code |-> n, rev |-> 0]]
      /\ agreed' = agreed \union {<<d, minted[n].iss>>}
      /\ UNCHANGED <<minted, shown, up, request, checked, valid, answer, revoking, accepted>>
  BY DEF JoinAdd
<1>2. TypeOK
  BY DEF Inv
<1>3. minted[n] \in Delegation /\ n \in Cid
  BY <1>2 DEF TypeOK, Cids, Cid
<1>4. /\ held' \in [Device -> [Device \X Device -> Cid]]
      /\ withdrawn' \in [Device -> SUBSET Cid]
      /\ Extended /\ MintedRight' /\ RowsRight' /\ StaysWithdrawn' /\ OnlyByAgreement'
  <2>1. n \in Nat /\ Key(n) \in Device \X Device
    BY <1>3 DEF Key, Delegation, Cid
  <2>2. /\ Withdraw(d, Key(n), n) \in [Device -> SUBSET Cid]
        /\ \A e \in Device : \A x \in Withdraw(d, Key(n), n)[e] :
              x \in withdrawn[e] \/ (e = d /\ x = held[d][Key(n)] /\ x \notin {0, n})
    BY <1>2, <2>1, WithdrawBounds
  <2>3. /\ withdrawn' \in [Device -> SUBSET Cid]
        /\ n \notin withdrawn'[d]
        /\ \A e \in Device : withdrawn'[e] \subseteq Withdraw(d, Key(n), n)[e]
    BY <1>1, <2>2
  <2>4. Withdraws(d, Key(n))
    BY <2>2, <2>3 DEF Withdraws
  <2>5. /\ agreed \subseteq agreed' /\ (minted[n].aud = d => <<d, minted[n].iss>> \in agreed')
        /\ minted[n].iss = d => <<d, minted[n].aud>> \in agreed'
    BY <1>1 DEF Inv, MintedRight, Key
  <2>6. held' = Saved(d, Key(n), n) /\ UNCHANGED <<minted, shown>>
    BY <1>1
  <2> QED
    BY <2>3, <2>4, <2>5, <2>6, StoredKeeps
<1>5. /\ join'[j] = [pc |-> "added", by |-> d, code |-> n, rev |-> 0]
      /\ \A k \in Join \ {j} : join'[k] = join[k]
  BY <1>1, <1>2 DEF TypeOK
<1>6. TypeOK'
  <2>1. [pc |-> "added", by |-> d, code |-> n, rev |-> 0] \in JoinState
    BY <1>3 DEF JoinState, Cid
  <2>2. join' \in [Join -> JoinState]
    BY <1>1, <1>2, <2>1 DEF TypeOK
  <2>3. agreed' \subseteq Device \X Device
    BY <1>1, <1>2, <1>3 DEF TypeOK, Delegation
  <2>4. UNCHANGED <<minted, shown, up, request, checked, valid, answer, revoking, accepted>>
    BY <1>1
  <2> QED
    BY <1>2, <1>4, <2>2, <2>3, <2>4 DEF TypeOK
<1>7. shown \subseteq shown' /\ agreed \subseteq agreed'
  BY <1>1
<1>8. ASSUME NEW k \in Join, join'[k].pc # "idle" PROVE JoinRight(k)'
  <2>1. CASE k = j
    <3>1. Issuer(j)' = minted[n].iss
      BY <1>1, <1>5 DEF Issuer
    <3>2. JoinRight(j)'
      BY <3>1, <1>1, <1>5 DEF JoinRight
    <3> QED
      BY <2>1, <3>2
  <2>2. CASE k # j
    BY <2>2, <1>4, <1>5, <1>7, <1>8, JoinsKeep
  <2> QED
    BY <2>1, <2>2
<1>9. ASSUME NEW e \in Device, NEW k \in Join, k \in request'[e] \/ checked'[e] = k
      PROVE  SentTo(e, k)' /\ k # j
  <2>1. SentTo(e, k)
    BY <1>1, <1>9 DEF Inv
  <2>2. k # j /\ join[k].pc # "idle"
    BY <2>1, <1>1 DEF SentTo
  <2> QED
    BY <2>1, <2>2, <1>4, <1>5, <1>7, JoinsKeep
<1>10. ASSUME NEW e \in Device, valid'[e], checked'[e] # None
       PROVE  minted'[join'[checked'[e]].code].aud = join'[checked'[e]].by
  <2>1. checked'[e] = checked[e] /\ checked[e] \in Join /\ valid[e]
    BY <1>1, <1>2, <1>10 DEF TypeOK
  <2>2. minted[join[checked[e]].code].aud = join[checked[e]].by
    BY <2>1, <1>10 DEF Inv
  <2>3. checked[e] # j
    BY <2>1, <1>9
  <2> QED
    BY <2>1, <2>2, <2>3, <1>1, <1>5
<1> QED
  BY <1>4, <1>6, <1>8, <1>9, <1>10 DEF Inv

LEMMA CreateReverseKeeps ==
    ASSUME Inv, NEW j \in Join, CreateReverse(j)
    PROVE  Inv'
<1> DEFINE d == join[j].by
           n == Len(minted) + 1
<1>1. /\ join[j].pc = "creating"
      /\ Mint(d, Issuer(j))
      /\ join' = [join EXCEPT ![j].pc = "ready", ![j].rev = n]
      /\ UNCHANGED <<shown, up, request, checked, valid, answer, revoking, agreed, accepted>>
  BY DEF CreateReverse
<1>2. TypeOK /\ JoinRight(j) /\ MintedRight
  BY <1>1 DEF Inv
<1>3. /\ d \in Device /\ Issuer(j) \in Device
      /\ <<d, Issuer(j)>> \in agreed
      /\ join[j].code \in Cids
  <2>1. join[j].code \in Cids
    BY <1>2 DEF JoinRight, MintedRight
  <2>2. minted[join[j].code] \in Delegation
    BY <2>1, <1>2 DEF TypeOK, Cids
  <2> QED
    BY <2>1, <2>2, <1>2 DEF JoinRight, Issuer, Delegation
<1>4. /\ Extended /\ Len(minted') = Len(minted) + 1
      /\ minted'[n] = [iss |-> d, aud |-> Issuer(j)]
      /\ held' \in [Device -> [Device \X Device -> Cid]]
      /\ withdrawn' \in [Device -> SUBSET Cid]
      /\ MintedRight' /\ RowsRight' /\ StaysWithdrawn' /\ OnlyByAgreement'
  <2> DEFINE p == Issuer(j)
  <2>1. d \in Device /\ p \in Device /\ Mint(d, p)
        /\ agreed \subseteq agreed' /\ <<d, p>> \in agreed'
        /\ shown \subseteq shown' /\ shown' \subseteq shown \union {Len(minted) + 1}
    BY <1>1, <1>3
  <2>2. minted'[Len(minted) + 1] = [iss |-> d, aud |-> p]
        /\ Extended /\ Len(minted') = Len(minted) + 1
        /\ held' \in [Device -> [Device \X Device -> Cid]]
        /\ withdrawn' \in [Device -> SUBSET Cid]
        /\ MintedRight' /\ RowsRight' /\ StaysWithdrawn' /\ OnlyByAgreement'
    <3> HIDE DEF d, p
    <3> QED
      BY <2>1, MintKeeps
  <2> QED
    BY <2>2
<1>5. join[j] \in JoinState /\ n \in Cid /\ n # 0 /\ n \in 1..Len(minted')
  BY <1>2, <1>4 DEF TypeOK, Cid
<1>6. /\ join'[j] = [join[j] EXCEPT !.pc = "ready", !.rev = n]
      /\ \A k \in Join \ {j} : join'[k] = join[k]
  BY <1>1, <1>2 DEF TypeOK
<1>7. /\ join'[j].pc = "ready" /\ join'[j].rev = n
      /\ join'[j].by = d /\ join'[j].code = join[j].code
      /\ join'[j] \in JoinState
  BY <1>5, <1>6 DEF JoinState
<1>8. TypeOK'
  <2>1. join' \in [Join -> JoinState]
    BY <1>1, <1>2, <1>7, <1>6 DEF TypeOK
  <2>2. UNCHANGED <<shown, up, request, checked, valid, answer, revoking, agreed, accepted>>
    BY <1>1
  <2> QED
    BY <1>2, <1>4, <2>1, <2>2 DEF TypeOK, Extended
<1>9. shown' = shown /\ agreed' = agreed /\ request' = request /\ checked' = checked
      /\ valid' = valid
  BY <1>1
<1>10. /\ minted'[join'[j].code] = minted[join[j].code]
       /\ Issuer(j)' = Issuer(j)
  BY <1>1, <1>4, <1>7, <1>9, JoinsKeep
<1>11. JoinRight(j)'
  <2>1. /\ join'[j].by \in Device /\ join'[j].code \in shown'
        /\ <<join'[j].by, Issuer(j)'>> \in agreed'
    <3>1. join[j].code \in shown
      BY <1>2 DEF JoinRight
    <3> QED
      BY <3>1, <1>3, <1>7, <1>9, <1>10
  <2>2. /\ join'[j].rev \in Cids'
        /\ minted'[join'[j].rev].aud = Issuer(j)'
        /\ minted'[join'[j].rev].iss \in {join'[j].by, minted'[join'[j].code].aud}
    BY <1>4, <1>5, <1>7, <1>10 DEF Cids
  <2> QED
    BY <2>1, <2>2, <1>5, <1>7 DEF JoinRight
<1>12. ASSUME NEW k \in Join, join'[k].pc # "idle" PROVE JoinRight(k)'
  <2>1. CASE k = j
    BY <2>1, <1>11
  <2>2. CASE k # j
    BY <2>2, <1>4, <1>6, <1>9, <1>12, JoinsKeep
  <2> QED
    BY <2>1, <2>2
<1>13. ASSUME NEW e \in Device, NEW k \in Join, k \in request'[e] \/ checked'[e] = k
       PROVE  SentTo(e, k)' /\ k # j
  <2>1. SentTo(e, k)
    BY <1>9, <1>13 DEF Inv
  <2>2. k # j /\ join[k].pc # "idle"
    BY <2>1, <1>1 DEF SentTo
  <2> QED
    BY <2>1, <2>2, <1>4, <1>6, <1>9, JoinsKeep
<1>14. ASSUME NEW e \in Device, valid'[e], checked'[e] # None
       PROVE  minted'[join'[checked'[e]].code].aud = join'[checked'[e]].by
  <2>1. checked[e] \in Join /\ valid[e] /\ checked[e] # None
    BY <1>2, <1>9, <1>14 DEF TypeOK
  <2>2. minted[join[checked[e]].code].aud = join[checked[e]].by
    BY <2>1 DEF Inv
  <2>3. checked[e] # j /\ SentTo(e, checked[e])
    BY <2>1, <1>9, <1>13 DEF Inv
  <2>4. minted'[join'[checked[e]].code] = minted[join[checked[e]].code]
    BY <2>1, <2>3, <1>4, <1>6, <1>9, JoinsKeep DEF SentTo
  <2> QED
    BY <2>1, <2>2, <2>3, <2>4, <1>6, <1>9
<1> QED
  BY <1>4, <1>8, <1>12, <1>13, <1>14 DEF Inv

\* Steps that change no table, and of the joins only how far they are.
LEMMA ProgressKeeps ==
    ASSUME Inv, UNCHANGED <<minted, shown, held, agreed, withdrawn>>, TypeOK',
           \A j \in Join : /\ join'[j].code = join[j].code /\ join'[j].rev = join[j].rev
                           /\ join'[j].by = join[j].by
                           /\ \/ join'[j].pc = join[j].pc
                              \/ join[j].pc # "idle" /\ join'[j].pc = "failed"
                              \/ join[j].pc = "ready" /\ join'[j].pc = "waiting",
           \A d \in Device, j \in Join : j \in request'[d] \/ checked'[d] = j =>
              \/ j \in request[d] \/ checked[d] = j
              \/ /\ join[j].pc = "ready" /\ join'[j].pc = "waiting"
                 /\ Issuer(j) = d /\ join[j].by # d,
           \A d \in Device : checked'[d] = None \/ (checked'[d] = checked[d] /\ valid'[d] = valid[d])
    PROVE  Inv'
<1>1. MintedRight' /\ RowsRight' /\ StaysWithdrawn' /\ OnlyByAgreement'
  BY TablesKeep
<1>2. \A j \in Join : Issuer(j)' = Issuer(j)
  BY DEF Issuer
<1>3. Cids' = Cids
  BY DEF Cids
<1>4. ASSUME NEW j \in Join, join'[j].pc # "idle" PROVE JoinRight(j)'
  <2>1. join[j].pc # "idle" /\ JoinRight(j)
    BY <1>4 DEF Inv
  <2>2. join'[j].pc \in {"added", "creating", "ready", "waiting", "ok"}
           => (join'[j].pc = join[j].pc \/ (join[j].pc = "ready" /\ join'[j].pc = "waiting"))
    OBVIOUS
  <2>3. /\ join'[j].by \in Device
        /\ join'[j].code \in shown'
        /\ <<join'[j].by, Issuer(j)'>> \in agreed'
    <3>1. /\ join[j].by \in Device
          /\ join[j].code \in shown
            /\ <<join[j].by, Issuer(j)>> \in agreed
      BY <2>1 DEF JoinRight
    <3> QED
      BY <3>1, <1>2
  <2>4. join'[j].rev # 0 =>
          /\ join'[j].rev \in Cids'
          /\ minted'[join'[j].rev].aud = Issuer(j)'
          /\ minted'[join'[j].rev].iss \in {join'[j].by, minted'[join'[j].code].aud}
    <3>1. join[j].rev # 0 =>
            /\ join[j].rev \in Cids
            /\ minted[join[j].rev].aud = Issuer(j)
            /\ minted[join[j].rev].iss \in {join[j].by, minted[join[j].code].aud}
      BY <2>1 DEF JoinRight
    <3> QED
      BY <3>1, <1>2, <1>3
  <2>5. /\ join'[j].pc \in {"added", "creating"} => join'[j].rev = 0
        /\ join'[j].pc \in {"ready", "waiting", "ok"} => join'[j].rev # 0
    <3>1. /\ join[j].pc \in {"added", "creating"} => join[j].rev = 0
          /\ join[j].pc \in {"ready", "waiting", "ok"} => join[j].rev # 0
      BY <2>1 DEF JoinRight
    <3> QED
      BY <3>1, <2>2
  <2> QED
    BY <2>3, <2>4, <2>5 DEF JoinRight
<1>5. ASSUME NEW d \in Device, NEW j \in Join, j \in request'[d] \/ checked'[d] = j
      PROVE  SentTo(d, j)'
  <2>1. CASE j \in request[d] \/ checked[d] = j
    <3>1. SentTo(d, j)
      BY <2>1 DEF Inv
    <3> QED
      BY <3>1, <1>2 DEF SentTo
  <2>2. CASE /\ join[j].pc = "ready" /\ join'[j].pc = "waiting"
             /\ Issuer(j) = d /\ join[j].by # d
    <3>1. join[j].rev # 0
      BY <2>2 DEF Inv, JoinRight
    <3> QED
      BY <3>1, <2>2, <1>2 DEF SentTo
  <2> QED
    BY <1>5, <2>1, <2>2
<1>6. ASSUME NEW d \in Device, valid'[d], checked'[d] # None
      PROVE  minted'[join'[checked'[d]].code].aud = join'[checked'[d]].by
  <2>1. checked'[d] = checked[d] /\ valid[d] /\ checked[d] # None /\ checked[d] \in Join
    BY <1>6 DEF Inv, TypeOK
  <2>2. minted[join[checked[d]].code].aud = join[checked[d]].by
    BY <2>1 DEF Inv
  <2> QED
    BY <2>1, <2>2
<1> QED
  BY <1>1, <1>4, <1>5, <1>6 DEF Inv

LEMMA SendRequestKeeps ==
    ASSUME Inv, NEW j \in Join, SendRequest(j)
    PROVE  Inv'
<1>1. /\ join[j].pc = "ready"
      /\ join' = [join EXCEPT ![j].pc = "waiting"]
      /\ request' = [request EXCEPT ![Issuer(j)] =
                        IF Issuer(j) = join[j].by THEN @ ELSE @ \union {j}]
      /\ UNCHANGED <<minted, shown, held, up, checked, valid, answer, revoking,
                     agreed, withdrawn, accepted>>
  BY DEF SendRequest, history
<1>2. TypeOK /\ JoinRight(j)
  BY <1>1 DEF Inv
<1>3. join[j] \in JoinState
  BY <1>2 DEF TypeOK
<1>4. /\ join'[j] = [join[j] EXCEPT !.pc = "waiting"]
      /\ \A k \in Join \ {j} : join'[k] = join[k]
  BY <1>1, <1>2 DEF TypeOK
<1>5. /\ join'[j].pc = "waiting" /\ join'[j].rev = join[j].rev
      /\ join'[j].by = join[j].by /\ join'[j].code = join[j].code
      /\ join'[j] \in JoinState
  BY <1>3, <1>4 DEF JoinState
<1>6. /\ request' \in [Device -> SUBSET Join]
      /\ \A e \in Device, k \in Join : k \in request'[e] =>
            k \in request[e] \/ (k = j /\ Issuer(j) = e /\ join[j].by # e)
  BY <1>1, <1>2 DEF TypeOK
<1>7. TypeOK'
  <2>1. join' \in [Join -> JoinState]
    BY <1>1, <1>2, <1>5, <1>4 DEF TypeOK
  <2> QED
    BY <1>1, <1>2, <1>6, <2>1 DEF TypeOK
<1>8. \A k \in Join : /\ join'[k].code = join[k].code /\ join'[k].rev = join[k].rev
                      /\ join'[k].by = join[k].by
                      /\ \/ join'[k].pc = join[k].pc
                         \/ join[k].pc = "ready" /\ join'[k].pc = "waiting"
  BY <1>1, <1>4, <1>5
<1>9. \A e \in Device, k \in Join : k \in request'[e] \/ checked'[e] = k =>
        \/ k \in request[e] \/ checked[e] = k
        \/ /\ join[k].pc = "ready" /\ join'[k].pc = "waiting"
           /\ Issuer(k) = e /\ join[k].by # e
  BY <1>1, <1>5, <1>6
<1>10. UNCHANGED <<minted, shown, held, agreed, withdrawn, checked, valid>>
  BY <1>1
<1> QED
  BY <1>7, <1>8, <1>9, <1>10, ProgressKeeps

LEMMA RestartKeeps ==
    ASSUME Inv, NEW d \in Device, Restart(d)
    PROVE  Inv'
<1>1. /\ up' = [up EXCEPT ![d] = FALSE]
      /\ request' = [request EXCEPT ![d] = {}]
      /\ checked' = [checked EXCEPT ![d] = None]
      /\ valid' = [valid EXCEPT ![d] = FALSE]
      /\ revoking' = [revoking EXCEPT ![d] = {}]
      /\ join' = [j \in Join |->
                     IF join[j].by = d /\ join[j].pc \in {"creating", "ready", "waiting"}
                     THEN [join[j] EXCEPT !.pc = "failed"] ELSE join[j]]
      /\ UNCHANGED <<minted, shown, held, answer, agreed, withdrawn, accepted>>
  BY DEF Restart, Done, history
<1>2. TypeOK
  BY DEF Inv
<1>3. ASSUME NEW j \in Join
      PROVE  /\ join'[j] \in JoinState
             /\ join'[j].code = join[j].code /\ join'[j].rev = join[j].rev
             /\ join'[j].by = join[j].by
             /\ \/ join'[j].pc = join[j].pc
                \/ join[j].pc # "idle" /\ join'[j].pc = "failed"
  <2>1. join[j] \in JoinState
    BY <1>2 DEF TypeOK
  <2>2. CASE join[j].by = d /\ join[j].pc \in {"creating", "ready", "waiting"}
    <3>1. join'[j] = [join[j] EXCEPT !.pc = "failed"]
      BY <1>1, <2>2
    <3> QED
      BY <3>1, <2>1, <2>2 DEF JoinState
  <2>3. CASE ~(join[j].by = d /\ join[j].pc \in {"creating", "ready", "waiting"})
    <3>1. join'[j] = join[j]
      BY <1>1, <2>3
    <3> QED
      BY <3>1, <2>1
  <2> QED
    BY <2>2, <2>3
<1>4. TypeOK'
  <2>1. join' \in [Join -> JoinState]
    BY <1>1, <1>3
  <2>2. /\ up' \in [Device -> BOOLEAN] /\ request' \in [Device -> SUBSET Join]
        /\ checked' \in [Device -> Join \union {None}] /\ valid' \in [Device -> BOOLEAN]
        /\ revoking' \in [Device -> SUBSET Device]
    BY <1>1, <1>2 DEF TypeOK
  <2>3. UNCHANGED <<minted, shown, held, answer, agreed, withdrawn, accepted>>
    BY <1>1
  <2> QED
    BY <1>2, <2>1, <2>2, <2>3 DEF TypeOK
<1>5. \A e \in Device : /\ request'[e] \subseteq request[e]
                        /\ checked'[e] = None \/ (checked'[e] = checked[e] /\ valid'[e] = valid[e])
  BY <1>1, <1>2 DEF TypeOK
<1>6. \A e \in Device, j \in Join : j \in request'[e] \/ checked'[e] = j =>
         j \in request[e] \/ checked[e] = j
  BY <1>5, LinkingAssumption
<1>7. UNCHANGED <<minted, shown, held, agreed, withdrawn>>
  BY <1>1
<1> QED
  BY <1>3, <1>4, <1>5, <1>6, <1>7, ProgressKeeps

-------------------------------------------------------------------------------
(* Theorems *)

LEMMA InitInv == Init => Inv
<1> SUFFICES ASSUME Init PROVE Inv
  OBVIOUS
<1>1. minted = <<>> /\ Len(minted) = 0 /\ Cids = {}
  BY DEF Init, Cids
<1>2. TypeOK
  BY <1>1 DEF Init, TypeOK, JoinState, Cid
<1>3. MintedRight /\ RowsRight
  BY <1>1 DEF Init, MintedRight, RowsRight
<1>4. StaysWithdrawn /\ OnlyByAgreement
  BY DEF Init, StaysWithdrawn, OnlyByAgreement, Listed
<1>5. \A d \in Device, j \in Join : ~(j \in request[d] \/ checked[d] = j)
  BY LinkingAssumption DEF Init
<1>6. /\ \A j \in Join : join[j].pc = "idle"
      /\ \A d \in Device : ~valid[d]
  BY DEF Init
<1> QED
  BY <1>2, <1>3, <1>4, <1>5, <1>6 DEF Inv

LEMMA NextInv == Inv /\ [Next]_vars => Inv'
<1> SUFFICES ASSUME Inv, [Next]_vars PROVE Inv'
  OBVIOUS
<1>1. ASSUME NEW j \in Join, Carry(j) PROVE Inv'
  BY <1>1, JoinStepsKeep, CreateReverseKeeps, SendRequestKeeps DEF Carry
<1>2. ASSUME NEW d \in Device, User(d) PROVE Inv'
  <2>1. ASSUME NEW p \in Device, Create(d, p) \/ RevokeGiven(d, p) PROVE Inv'
    BY <2>1, CreateKeeps, RevokeKeeps
  <2>2. ASSUME NEW j \in Join, NEW n \in 1..Len(minted), JoinAdd(j, d, n) PROVE Inv'
    BY <2>2, JoinAddKeeps DEF Cids
  <2> QED
    BY <1>2, <2>1, <2>2 DEF User
<1>3. ASSUME NEW d \in Device, Listen(d) PROVE Inv'
  <2>1. ASSUME NEW j \in Join, Check(d, j) \/ LoseRequest(d, j) PROVE Inv'
    BY <2>1, ListenerStepsKeep
  <2>2. ASSUME NEW receivers \in SUBSET Join,
               Reject(d, receivers) \/ SyncMessage(d, receivers)
        PROVE  Inv'
    BY <2>2, AnswerStepsKeep
  <2>3. ASSUME NEW receivers \in SUBSET Join, Accept(d, receivers) PROVE Inv'
    BY <2>3, AcceptKeeps
  <2> QED
    BY <1>3, <2>1, <2>2, <2>3 DEF Listen
<1>4. ASSUME NEW d \in Device, Start(d) PROVE Inv'
  <2>1. {} \in SUBSET Join
    OBVIOUS
  <2> QED
    BY <1>4, <2>1, AnswerStepsKeep
<1>5. ASSUME NEW d \in Device, Restart(d) PROVE Inv'
  BY <1>5, RestartKeeps
<1>6. ASSUME NEW d \in Device, NEW p \in Device, RevokeReceived(d, p) PROVE Inv'
  BY <1>6, RevokeKeeps
<1>7. CASE UNCHANGED vars
  <2>1. TypeOK'
    BY <1>7 DEF vars, Inv, TypeOK
  <2> QED
    BY <1>7, <2>1, IdleKeeps DEF vars, Inv
<1> QED
  BY <1>1, <1>2, <1>3, <1>4, <1>5, <1>6, <1>7 DEF Next

\* The inductive invariant holds throughout.
THEOREM LinkingInvariant == Spec => []Inv
<1> QED
  BY InitInv, NextInv, PTL DEF Spec

\* Type correctness: in particular the tokens table of every device holds at
\* most one linked delegation for an issuer and an audience.
THEOREM LinkingTypes == Spec => []TypeOK
<1>1. Inv => TypeOK
  BY DEF Inv
<1> QED
  BY <1>1, LinkingInvariant, PTL

\* What an issuer has replaced or revoked is not honoured again, unless its own
\* user pastes the old code on it: otherwise save_token is given nothing but
\* fresh delegations and those of other devices.
THEOREM WithdrawnForGood == Spec => []StaysWithdrawn
<1>1. Inv => StaysWithdrawn
  BY DEF Inv
<1> QED
  BY <1>1, LinkingInvariant, PTL

\* Delegations between two devices get into the table of either only by an act
\* of its user, whatever requests it is sent and codes are mixed up.
THEOREM AgreedOnly == Spec => []OnlyByAgreement
<1>1. Inv => OnlyByAgreement
  BY DEF Inv
<1> QED
  BY <1>1, LinkingInvariant, PTL

-------------------------------------------------------------------------------
(* Success was accepted *)

\* A delegation, once made, keeps its name.
LEMMA MintedStays ==
    ASSUME TypeOK, [Next]_vars
    PROVE  \A n \in Cids : minted'[n] = minted[n]
<1>1. ASSUME NEW d, NEW p, minted' = Append(minted, [iss |-> d, aud |-> p])
      PROVE  \A n \in Cids : minted'[n] = minted[n]
  BY <1>1 DEF TypeOK, Cids
<1>2. CASE minted' = minted
  BY <1>2
<1>3. ASSUME NEW d, NEW p, Mint(d, p) PROVE \A n \in Cids : minted'[n] = minted[n]
  BY <1>1, <1>3 DEF Mint
<1>4. ASSUME NEW j \in Join, Carry(j) PROVE \A n \in Cids : minted'[n] = minted[n]
  BY <1>2, <1>3, <1>4 DEF Carry, CreateReverse, FindReverse, JoinFails, SendRequest, Answered,
                          Timeout, Step
<1>5. ASSUME NEW d \in Device, User(d) PROVE \A n \in Cids : minted'[n] = minted[n]
  BY <1>2, <1>3, <1>5 DEF User, Create, RevokeGiven, JoinAdd
<1>6. ASSUME NEW d \in Device, Listen(d) \/ Start(d) \/ Restart(d)
                               \/ \E p \in Device : RevokeReceived(d, p)
      PROVE  minted' = minted
  BY <1>6 DEF Listen, Check, LoseRequest, Accept, Reject, SyncMessage, Start, Restart,
              RevokeReceived
<1> QED
  BY <1>2, <1>4, <1>5, <1>6 DEF Next, vars

\* A join that has begun stays that of its device and its code; only an answer
\* makes it a success.
LEMMA JoinStays ==
    ASSUME TypeOK, NEW j \in Join, [Next]_vars
    PROVE  /\ join[j].pc # "idle" =>
                 join'[j].pc # "idle" /\ join'[j].by = join[j].by /\ join'[j].code = join[j].code
           /\ join'[j].pc = "ok" => join[j].pc = "ok" \/ answer[j] = "accepted"
<1> DEFINE Stays ==
             /\ join[j].pc # "idle" =>
                   join'[j].pc # "idle" /\ join'[j].by = join[j].by /\ join'[j].code = join[j].code
             /\ join'[j].pc = "ok" => join[j].pc = "ok" \/ answer[j] = "accepted"
<1> SUFFICES Stays
  OBVIOUS
<1>1. join \in [Join -> JoinState] /\ join[j] \in JoinState
  BY DEF TypeOK
<1>2. CASE join' = join
  BY <1>2
<1>3. ASSUME NEW k \in Join, NEW pc, NEW rev,
             join' = [join EXCEPT ![k].pc = pc, ![k].rev = rev],
             pc # "idle", pc = "ok" => answer[k] = "accepted"
      PROVE  Stays
  BY <1>1, <1>3 DEF JoinState
<1>4. ASSUME NEW k \in Join, Carry(k) PROVE Stays
  <2>1. CASE FindReverse(k)
    <3> DEFINE rev == held[join[k].by][<<minted[join[k].code].aud, Issuer(k)>>]
    <3>1. PICK pc \in {"creating", "ready"} : Step(k, pc, rev)
      BY <2>1 DEF FindReverse
    <3>2. join' = [join EXCEPT ![k].pc = pc, ![k].rev = rev] /\ pc # "idle" /\ pc # "ok"
      BY <3>1 DEF Step
    <3> HIDE DEF rev, Stays
    <3> QED
      BY <1>3, <3>2
  <2>2. CASE CreateReverse(k)
    <3> DEFINE pc == "ready"
    <3>1. join' = [join EXCEPT ![k].pc = pc, ![k].rev = Len(minted) + 1]
      BY <2>2 DEF CreateReverse
    <3>2. pc # "idle" /\ pc # "ok"
      OBVIOUS
    <3> HIDE DEF pc, Stays
    <3> QED
      BY <1>3, <3>1, <3>2
  <2>3. CASE JoinFails(k) \/ Timeout(k)
    <3> DEFINE pc == "failed"
    <3>1. join' = [join EXCEPT ![k].pc = pc, ![k].rev = join[k].rev]
      BY <2>3 DEF JoinFails, Timeout, Step
    <3>2. pc # "idle" /\ pc # "ok"
      OBVIOUS
    <3> HIDE DEF pc, Stays
    <3> QED
      BY <1>3, <3>1, <3>2
  <2>4. CASE SendRequest(k)
    <3>1. join' = [join EXCEPT ![k].pc = "waiting"]
      BY <2>4 DEF SendRequest
    <3> QED
      BY <1>1, <3>1 DEF JoinState
  <2>5. CASE Answered(k)
    <3>1. PICK pc \in {"ok", "failed"} : /\ pc = "ok" => answer[k] = "accepted"
                                         /\ Step(k, pc, join[k].rev)
      BY <2>5 DEF Answered
    <3> QED
      BY <1>3, <3>1 DEF Step
  <2> QED
    BY <1>4, <2>1, <2>2, <2>3, <2>4, <2>5 DEF Carry
<1>5. ASSUME NEW d \in Device, NEW k \in Join, NEW n, JoinAdd(k, d, n) PROVE Stays
  BY <1>1, <1>5 DEF JoinAdd
<1>6. ASSUME NEW d \in Device, Restart(d) PROVE Stays
  <2>1. join'[j] = join[j] \/ join'[j] = [join[j] EXCEPT !.pc = "failed"]
    BY <1>6 DEF Restart
  <2> QED
    BY <1>1, <2>1 DEF JoinState
<1>7. ASSUME NEW d \in Device, Listen(d) \/ Start(d) \/ \E p \in Device : RevokeReceived(d, p)
      PROVE  join' = join
  BY <1>7 DEF Listen, Check, LoseRequest, Accept, Reject, SyncMessage, Start, RevokeReceived
<1>8. ASSUME NEW d \in Device, User(d) PROVE Stays
  BY <1>2, <1>5, <1>8 DEF User, Create, RevokeGiven
<1> HIDE DEF Stays
<1> QED
  BY <1>2, <1>4, <1>6, <1>7, <1>8 DEF Next, vars

\* A join hears of an acceptance only when its issuer has accepted one.
LEMMA AcceptanceHeard ==
    ASSUME Inv, NEW j \in Join, [Next]_vars, answer'[j] = "accepted", answer[j] # "accepted"
    PROVE  /\ join[j].pc = "waiting" /\ join[j].by # Issuer(j)
           /\ \E k \in accepted' : /\ k \in Join /\ join[k].pc # "idle"
                                   /\ Issuer(k) = Issuer(j) /\ join[k].by # Issuer(k)
<1>1. answer' # answer
  OBVIOUS
<1>2. ASSUME NEW d \in Device, NEW receivers, NEW msg, Broadcast(d, msg, receivers)
      PROVE  msg = "accepted" /\ j \in Waiting(d)
  BY <1>2 DEF Broadcast
<1>3. PICK d \in Device : \E receivers \in SUBSET Join : Accept(d, receivers)
  <2>1. ASSUME NEW k \in Join, Carry(k) PROVE FALSE
    BY <1>1, <2>1 DEF Carry, FindReverse, CreateReverse, JoinFails, SendRequest, Answered,
                      Timeout, Step
  <2>2. ASSUME NEW e \in Device, User(e) \/ Start(e) \/ Restart(e)
                                 \/ \E p \in Device : RevokeReceived(e, p)
        PROVE  FALSE
    BY <1>1, <2>2 DEF User, Create, RevokeGiven, JoinAdd, Start, Restart, RevokeReceived
  <2>3. ASSUME NEW e \in Device, NEW k \in Join, Check(e, k) \/ LoseRequest(e, k) PROVE FALSE
    BY <1>1, <2>3 DEF Check, LoseRequest
  <2>4. ASSUME NEW e \in Device, NEW receivers, Reject(e, receivers) \/ SyncMessage(e, receivers)
        PROVE  FALSE
    BY <1>2, <2>4 DEF Reject, SyncMessage
  <2> QED
    BY <1>1, <2>1, <2>2, <2>3, <2>4 DEF Next, Listen, vars
<1>4. PICK receivers \in SUBSET Join : Accept(d, receivers)
  BY <1>3
<1>5. j \in Waiting(d)
  BY <1>2, <1>4 DEF Accept
<1>6. checked[d] \in Join /\ SentTo(d, checked[d]) /\ checked[d] \in accepted'
  BY <1>4 DEF Inv, TypeOK, Accept
<1> QED
  BY <1>5, <1>6 DEF Waiting, SentTo

LEMMA AnswersStep == Inv /\ AnswersRight /\ OneJoinerPerIssuer /\ [Next]_vars => AnswersRight'
<1> SUFFICES ASSUME Inv, AnswersRight, OneJoinerPerIssuer, [Next]_vars,
                    NEW j \in Join, answer'[j] = "accepted" \/ join'[j].pc = "ok"
             PROVE  /\ join'[j].pc # "idle"
                    /\ \E k \in accepted' : /\ join'[k].pc # "idle"
                                            /\ join'[k].by = join'[j].by
                                            /\ Issuer(k)' = Issuer(j)'
  BY DEF AnswersRight
<1>1. TypeOK /\ accepted \subseteq Join
  BY DEF Inv, TypeOK
<1>2. accepted \subseteq accepted'
  <2>1. ASSUME NEW k \in Join, Carry(k) PROVE accepted' = accepted
    BY <2>1 DEF Carry, FindReverse, CreateReverse, JoinFails, SendRequest, Answered,
                Timeout, Step, history
  <2>2. ASSUME NEW e \in Device, User(e) \/ Start(e) \/ Restart(e)
                                 \/ \E p \in Device : RevokeReceived(e, p)
        PROVE  accepted' = accepted
    BY <2>2 DEF User, Create, RevokeGiven, JoinAdd, Start, Restart, RevokeReceived, history
  <2>3. ASSUME NEW e \in Device, Listen(e) PROVE accepted \subseteq accepted'
    BY <2>3 DEF Listen, Check, LoseRequest, Accept, Reject, SyncMessage, history
  <2> QED
    BY <2>1, <2>2, <2>3 DEF Next, vars
<1>3. \A k \in Join : join[k].pc # "idle" =>
        join'[k].pc # "idle" /\ join'[k].by = join[k].by /\ Issuer(k)' = Issuer(k)
  <2> SUFFICES ASSUME NEW k \in Join, join[k].pc # "idle"
               PROVE  join'[k].pc # "idle" /\ join'[k].by = join[k].by /\ Issuer(k)' = Issuer(k)
    OBVIOUS
  <2>1. join'[k].pc # "idle" /\ join'[k].by = join[k].by /\ join'[k].code = join[k].code
    BY <1>1, JoinStays
  <2>2. join[k].code \in Cids
    BY DEF Inv, JoinRight, MintedRight
  <2>3. minted'[join[k].code] = minted[join[k].code]
    BY <1>1, <2>2, MintedStays
  <2> QED
    BY <2>1, <2>3 DEF Issuer
<1>4. /\ join[j].pc # "idle"
      /\ \E k \in accepted' : /\ k \in Join /\ join[k].pc # "idle"
                              /\ join[k].by = join[j].by /\ Issuer(k) = Issuer(j)
  <2>1. CASE answer[j] = "accepted" \/ join[j].pc = "ok"
    BY <1>1, <1>2, <2>1 DEF AnswersRight
  <2>2. CASE answer[j] # "accepted" /\ join[j].pc # "ok"
    <3>1. answer'[j] = "accepted"
      BY <1>1, <2>2, JoinStays
    <3>2. /\ join[j].pc = "waiting" /\ join[j].by # Issuer(j)
          /\ \E k \in accepted' : /\ k \in Join /\ join[k].pc # "idle"
                                  /\ Issuer(k) = Issuer(j) /\ join[k].by # Issuer(k)
      BY <2>2, <3>1, AcceptanceHeard
    <3> QED
      BY <3>2 DEF OneJoinerPerIssuer
  <2> QED
    BY <2>1, <2>2
<1> QED
  BY <1>3, <1>4

\* A link request that is reported successful was accepted by the issuer of the
\* code, as long as other devices' joins with one issuer are all of one device: with one
\* join at a time, with two devices, with any number of them that each join the
\* codes of another.
THEOREM AcceptedWhenSuccessful == Spec /\ []OneJoinerPerIssuer => []SuccessWasAccepted
<1>1. Init => AnswersRight
  BY DEF Init, AnswersRight
<1>2. Inv /\ AnswersRight /\ OneJoinerPerIssuer /\ [Next]_vars => AnswersRight'
  BY AnswersStep
<1>3. AnswersRight => SuccessWasAccepted
  BY DEF AnswersRight, SuccessWasAccepted
<1> QED
  BY <1>1, <1>2, <1>3, LinkingInvariant, PTL DEF Spec
=============================================================================
