------------------------- MODULE ManualDeliveryProofs --------------------------
(***************************************************************************)
(* Proofs about ManualDelivery, for any events, requests and bounds.       *)
(***************************************************************************)
EXTENDS ManualDelivery, DirectoryAccountProofs, FiniteSetTheorems

(***************************************************************************)
(* Type correctness.  One part of TypeOK is more than a type: a completed  *)
(* row is delivered and has spent its token.                               *)
(***************************************************************************)
LEMMA InitType == Init => TypeOK
<1>1. Absent \in Account /\ Foreign \in Account
  BY DEF Account, Password, Absent, Foreign, Unknown
<1> QED
  BY <1>1, BoundsAssumption DEF Init, TypeOK, Row, Step, Null

\* A handler that is not idle has an event and a token.
LEMMA JobTyped ==
  ASSUME TypeOK, NEW h \in Handler, pc[h] # "idle"
  PROVE  /\ job[h] \in Job /\ job[h].event \in Event /\ job[h].token \in Nat
         /\ row[job[h].event] \in Row
BY DEF TypeOK, Job

\* What a reveal writes when it still owns its row.
LEMMA SetStatusEffect ==
  ASSUME TypeOK, NEW h \in Handler, pc[h] # "idle",
         NEW s \in {"pending", "failed"}
  PROVE  LET e == job[h].event IN
         /\ SetStatus(h, s) \in [Event -> Row]
         /\ ~OwnedAttempt(h) => SetStatus(h, s) = row
         /\ OwnedAttempt(h) =>
              /\ SetStatus(h, s)[e].status = s
              /\ SetStatus(h, s)[e].token = row[e].token
              /\ SetStatus(h, s)[e].delivery = row[e].delivery
         /\ \A x \in Event \ {e} : SetStatus(h, s)[x] = row[x]
<1> DEFINE e == job[h].event
           r == [row[e] EXCEPT !.status = s]
<1>1. e \in Event /\ row[e] \in Row /\ row \in [Event -> Row]
  BY JobTyped DEF TypeOK
<1>2. /\ r \in Row /\ r.status = s /\ r.token = row[e].token
      /\ r.delivery = row[e].delivery
  BY <1>1 DEF Row
<1>3. SetStatus(h, s) = IF OwnedAttempt(h) THEN [row EXCEPT ![e] = r] ELSE row
  BY <1>1 DEF SetStatus
<1> QED
  BY <1>1, <1>2, <1>3

\* Row e becomes what the parameters say, and all other rows stay.
Becomes(e, status, token, delivery) ==
  /\ row' \in [Event -> Row]
  /\ row'[e].status = status
  /\ row'[e].token = token
  /\ row'[e].delivery = delivery
  /\ \A x \in Event \ {e} : row'[x] = row[x]

\* The row as it is after an approval, a claim and a confirmation.
LEMMA RowChanges ==
  ASSUME TypeOK, NEW e \in Event
  PROVE  /\ EnqueueProvisioning(e) =>
              Becomes(e, "pending", row[e].token, "pending")
         /\ \A h \in Handler : RevealClaim(h, e) =>
              Becomes(e, "processing", claims[e] + 1, "pending")
         /\ \A t : ConfirmDelivery(e, t) =>
              Becomes(e, "provisioned", Null, "delivered")
<1>1. row \in [Event -> Row] /\ row[e] \in Row /\ claims[e] \in Nat
  BY BoundsAssumption DEF TypeOK
<1>2. ASSUME NEW r \in Row, row' = [row EXCEPT ![e] = r]
      PROVE  Becomes(e, r.status, r.token, r.delivery)
  BY <1>1, <1>2 DEF Becomes
<1>3. ASSUME EnqueueProvisioning(e)
      PROVE  Becomes(e, "pending", row[e].token, "pending")
  <2> DEFINE r == [row[e] EXCEPT !.status = "pending", !.delivery = "pending"]
  <2>1. /\ r \in Row
        /\ r.status = "pending" /\ r.token = row[e].token /\ r.delivery = "pending"
    BY <1>1 DEF Row
  <2>2. row' = [row EXCEPT ![e] = r]
    BY <1>1, <1>3 DEF EnqueueProvisioning
  <2> QED
    BY <1>2, <2>1, <2>2
<1>4. ASSUME NEW h \in Handler, RevealClaim(h, e)
      PROVE  Becomes(e, "processing", claims[e] + 1, "pending")
  <2> DEFINE r == [row[e] EXCEPT !.status = "processing", !.token = claims[e] + 1]
  <2>1. row[e].delivery = "pending" /\ row' = [row EXCEPT ![e] = r]
    BY <1>1, <1>4 DEF RevealClaim
  <2>2. claims[e] + 1 \in Nat
    BY <1>1
  <2>3. /\ r \in Row
        /\ r.status = "processing" /\ r.token = claims[e] + 1
        /\ r.delivery = "pending"
    BY <1>1, <2>1, <2>2 DEF Row
  <2> QED
    BY <1>2, <2>1, <2>3
<1>5. ASSUME NEW t, ConfirmDelivery(e, t)
      PROVE  Becomes(e, "provisioned", Null, "delivered")
  <2>1. /\ Confirmed(row[e]) \in Row
        /\ Confirmed(row[e]).status = "provisioned"
        /\ Confirmed(row[e]).token = Null
        /\ Confirmed(row[e]).delivery = "delivered"
    BY <1>1 DEF Confirmed, Row, Null
  <2>2. row' = [row EXCEPT ![e] = Confirmed(row[e])]
    BY <1>1, <1>5 DEF ConfirmDelivery
  <2> QED
    BY <1>2, <2>1, <2>2
<1> QED
  BY <1>3, <1>4, <1>5

LEMMA NextType == TypeOK /\ [Next]_vars => TypeOK'
<1> SUFFICES ASSUME TypeOK, [Next]_vars PROVE TypeOK'
  OBVIOUS
<1> USE BoundsAssumption
<1>1. ASSUME NEW e \in Event, EnqueueProvisioning(e) PROVE TypeOK'
  BY <1>1, RowChanges DEF TypeOK, EnqueueProvisioning, Becomes
<1>2. ASSUME NEW e \in Event, DirectoryEnds(e) PROVE TypeOK'
  <2>1. PICK out \in Create(account[e], gate[e]) :
          /\ account' = [account EXCEPT ![e] = out.account]
          /\ pc' = [h \in Handler |->
                      IF Waiting(h, e)
                      THEN IF out.answer = "password" THEN "ready" ELSE "fail"
                      ELSE pc[h]]
    BY <1>2 DEF DirectoryEnds
  <2>2. account' \in [Event -> Account]
    BY <2>1, CreateType DEF TypeOK
  <2>3. pc' \in [Handler -> Step] /\ \A h \in Handler : pc'[h] = "idle" <=> pc[h] = "idle"
    BY <2>1 DEF TypeOK, Step, Waiting
  <2> QED
    BY <1>2, <2>2, <2>3 DEF TypeOK, DirectoryEnds, Null
<1>3. ASSUME NEW e \in Event, MemberChangesPassword(e) \/ ActivateAccount(e)
      PROVE  TypeOK'
  <2>1. TakenOver(account[e]) \in Account
    BY DEF TypeOK, TakenOver, Account, Password
  <2>2. account' \in [Event -> Account]
    BY <1>3, <2>1 DEF TypeOK, MemberChangesPassword, ActivateAccount
  <2> QED
    BY <1>3, <2>2 DEF TypeOK, MemberChangesPassword, ActivateAccount
<1>4. ASSUME NEW e \in Event, NEW t \in shown[e], ConfirmDelivery(e, t)
      PROVE  TypeOK'
  <2>1. row' \in [Event -> Row]
    BY <1>4, RowChanges DEF Becomes
  <2>2. confirmed' \in [Event -> Nat]
    BY <1>4 DEF ConfirmDelivery, TypeOK
  <2> QED
    BY <1>4, <2>1, <2>2, RowChanges DEF ConfirmDelivery, TypeOK, Becomes
<1>5. ASSUME NEW h \in Handler, NEW e \in Event, RevealClaim(h, e) PROVE TypeOK'
  <2>1. claims[e] + 1 \in Nat /\ claims'[e] \in 0 .. MaxReveals
        /\ claims' \in [Event -> 0 .. MaxReveals]
    BY <1>5 DEF RevealClaim, TypeOK
  <2>2. row' \in [Event -> Row] /\ row'[e].status = "processing"
    BY <1>5, RowChanges DEF Becomes
  <2>3. [event |-> e, token |-> claims[e] + 1] \in Job
    BY <2>1 DEF Job
  <2>4. /\ job' \in [Handler -> Job \cup {NoJob}]
        /\ \A g \in Handler : pc'[g] = "idle" <=> job'[g] = NoJob
    BY <1>5, <2>3 DEF RevealClaim, TypeOK
  <2>5. stalled' \in SUBSET Event
    BY <1>5 DEF RevealClaim, TypeOK, Available, LeaseExpired
  <2>6. pc' \in [Handler -> Step]
    BY <1>5 DEF RevealClaim, TypeOK, Step
  <2>7. \A x \in Event : row'[x].status = "provisioned" =>
          row'[x].token = Null /\ row'[x].delivery = "delivered"
    BY <1>5, <2>2, RowChanges DEF TypeOK, Becomes
  <2> QED
    BY <1>5, <2>1, <2>2, <2>4, <2>5, <2>6, <2>7 DEF RevealClaim, TypeOK
<1>6. ASSUME NEW h \in Handler,
             ReadClaim(h) \/ DirectoryStarts(h) \/ DirectoryTimesOut(h)
      PROVE  TypeOK'
  BY <1>6, JobTyped
     DEF TypeOK, ReadClaim, DirectoryStarts, DirectoryTimesOut, Go, Step
<1>7. ASSUME NEW h \in Handler, Ready(h) PROVE TypeOK'
  <2>1. pc[h] = "ready" /\ row' = SetStatus(h, "pending")
    BY <1>7 DEF Ready
  <2>2. shown' \in [Event -> SUBSET Nat]
    BY <1>7, <2>1, JobTyped DEF Ready, TypeOK
  <2>3. /\ row' \in [Event -> Row]
        /\ \A e \in Event : row'[e].status = "provisioned" => row'[e] = row[e]
    BY <2>1, SetStatusEffect, JobTyped
  <2>4. pc' \in [Handler -> Step] /\ job' \in [Handler -> Job \cup {NoJob}]
        /\ \A g \in Handler : pc'[g] = "idle" <=> job'[g] = NoJob
    BY <1>7 DEF Ready, TypeOK, Go, Rest, Step
  <2> QED
    BY <1>7, <2>2, <2>3, <2>4 DEF Ready, TypeOK
<1>8. ASSUME NEW h \in Handler, Fail(h) PROVE TypeOK'
  <2>1. pc[h] = "fail" /\ row' = SetStatus(h, "failed")
    BY <1>8 DEF Fail
  <2>2. /\ row' \in [Event -> Row]
        /\ \A e \in Event : row'[e].status = "provisioned" => row'[e] = row[e]
    BY <2>1, SetStatusEffect, JobTyped
  <2> QED
    BY <1>8, <2>2 DEF Fail, TypeOK, Rest, Step
<1>9. ASSUME NEW h \in Handler, DatabaseError(h) \/ Crash(h) PROVE TypeOK'
  BY <1>9 DEF TypeOK, DatabaseError, Crash, Fault, Go, Rest, Step
<1>10. CASE UNCHANGED vars
  BY <1>10 DEF TypeOK, vars
<1> QED
  BY <1>1, <1>2, <1>3, <1>4, <1>5, <1>6, <1>7, <1>8, <1>9, <1>10
     DEF Next, RevealStep

\* The type invariant holds in every reachable state.
THEOREM ManualTypeCorrect == Spec => []TypeOK
BY InitType, NextType, PTL DEF Spec
-------------------------------------------------------------------------------
(***************************************************************************)
(* The inductive invariant.                                                *)
(***************************************************************************)
LEMMA InitInv == Init => IInv
<1> SUFFICES ASSUME Init PROVE IInv
  OBVIOUS
<1>1. TypeOK
  BY InitType
<1>2. \A h \in Handler : pc[h] = "idle"
  BY DEF Init
<1>3. \A e \in Event : /\ row[e].status = "none" /\ row[e].token = 0
                       /\ row[e].delivery = "null" /\ claims[e] = 0
                       /\ gate[e] = 0 /\ shown[e] = {}
                       /\ account[e] \in {Absent, Foreign}
  BY DEF Init, Null
<1>4. Tokens /\ OwedUntilConfirmed /\ RevealsAreCurrent /\ CallsAreLater
  BY <1>2, <1>3
     DEF Tokens, OwedUntilConfirmed, RevealsAreCurrent, CallsAreLater, Null
<1>5. CredentialHeld /\ ConfirmedIsCurrent
  BY <1>2, <1>3 DEF CredentialHeld, ConfirmedIsCurrent, Null
<1>6. ChosenIsUsed /\ ForeignIsUntold
  BY <1>3 DEF ChosenIsUsed, ForeignIsUntold, Absent, Foreign, Unknown, Chosen
<1> QED
  BY <1>1, <1>4, <1>5, <1>6 DEF IInv

\* Without a stall no two reveals of an event are in progress.
LEMMA OneReveal ==
  ASSUME IInv, NEW g \in Handler, NEW h \in Handler, pc[g] # "idle",
         pc[h] # "idle", job[g].event = job[h].event, job[h].event \notin stalled
  PROVE  g = h
BY DEF IInv, RevealsAreCurrent, OwnedAttempt, Tokens

\* The statuses, one by one.
LEMMA Owed ==
  ASSUME IInv, NEW e \in Event
  PROVE  /\ row[e].status = "none" => row[e].delivery = "null" /\ claims[e] = 0
         /\ row[e].delivery = "delivered" <=> row[e].status = "provisioned"
         /\ row[e].status \in {"pending", "processing", "failed"} =>
              row[e].delivery = "pending" /\ row[e].token = claims[e]
BY DEF IInv, OwedUntilConfirmed, TypeOK, Row

\* A step of a reveal that writes nothing: it goes on to the directory, gives
\* up, or ends.
LEMMA QuietKeepsInv ==
  ASSUME IInv, TypeOK', NEW h \in Handler, pc[h] # "idle",
         UNCHANGED <<row, account, gate, shown, confirmed, claims, stalled>>,
         \A g \in Handler \ {h} : pc'[g] = pc[g] /\ job'[g] = job[g],
         \/ pc'[h] = "idle"
         \/ pc'[h] \in {"directory", "fail"} /\ job'[h] = job[h]
  PROVE  IInv'
<1>1. \A g \in Handler : pc'[g] # "idle" =>
        /\ pc[g] # "idle" /\ job'[g] = job[g]
        /\ pc'[g] = "ready" => pc[g] = "ready"
  OBVIOUS
<1>2. Tokens'
  BY <1>1 DEF IInv, Tokens
<1>3. RevealsAreCurrent'
  BY <1>1 DEF IInv, RevealsAreCurrent, OwnedAttempt
<1>4. CredentialHeld'
  BY <1>1 DEF IInv, CredentialHeld
<1>5. (/\ OwedUntilConfirmed /\ CallsAreLater
       /\ ChosenIsUsed /\ ForeignIsUntold /\ ConfirmedIsCurrent)'
  BY DEF IInv, OwedUntilConfirmed, CallsAreLater, ChosenIsUsed, ForeignIsUntold,
         ConfirmedIsCurrent
<1> QED
  BY <1>2, <1>3, <1>4, <1>5 DEF IInv

LEMMA EnqueueKeepsInv ==
  ASSUME IInv, TypeOK', NEW e \in Event, EnqueueProvisioning(e)
  PROVE  IInv'
<1>1. /\ row[e].status = "none" /\ Becomes(e, "pending", row[e].token, "pending")
      /\ UNCHANGED <<account, gate, pc, job, shown, confirmed, claims, stalled>>
  BY RowChanges DEF EnqueueProvisioning, IInv
<1>2. claims[e] = 0 /\ row[e].token = Null
  BY <1>1, Owed DEF IInv, Tokens, Null
<1>3. \A h \in Handler : pc[h] # "idle" => job[h].event # e /\ job[h].event \in Event
  BY <1>2, JobTyped DEF IInv, Tokens
<1>4. Tokens'
  BY <1>1 DEF IInv, Tokens, Becomes
<1>5. OwedUntilConfirmed'
  BY <1>1, <1>2 DEF IInv, OwedUntilConfirmed, Becomes, Null
<1>6. RevealsAreCurrent'
  BY <1>1, <1>3 DEF IInv, RevealsAreCurrent, OwnedAttempt, Becomes
<1>7. CredentialHeld'
  BY <1>1, <1>2 DEF IInv, CredentialHeld, Becomes
<1>8. (CallsAreLater /\ ChosenIsUsed /\ ForeignIsUntold)'
  BY <1>1 DEF IInv, CallsAreLater, ChosenIsUsed, ForeignIsUntold
<1>9. ConfirmedIsCurrent'
  BY <1>1 DEF IInv, ConfirmedIsCurrent, Becomes
<1> QED
  BY <1>4, <1>5, <1>6, <1>7, <1>8, <1>9 DEF IInv

\* A claim takes the row from a reveal that ended, or is a stall.
LEMMA ClaimKeepsInv ==
  ASSUME IInv, TypeOK', NEW h \in Handler, NEW e \in Event, RevealClaim(h, e)
  PROVE  IInv'
<1>1. /\ pc[h] = "idle"
      /\ Available(e) \/ LeaseExpired(e)
      /\ Becomes(e, "processing", claims[e] + 1, "pending")
      /\ claims' = [claims EXCEPT ![e] = claims[e] + 1]
      /\ pc' = [pc EXCEPT ![h] = "read"]
      /\ job' = [job EXCEPT ![h] = [event |-> e, token |-> claims[e] + 1]]
      /\ UNCHANGED <<account, gate, shown, confirmed>>
  BY RowChanges DEF RevealClaim, IInv
<1>2. /\ claims[e] \in Nat /\ claims'[e] = claims[e] + 1
      /\ \A x \in Event \ {e} : claims'[x] = claims[x]
      /\ pc'[h] = "read" /\ job'[h].event = e /\ job'[h].token = claims[e] + 1
      /\ \A g \in Handler \ {h} : pc'[g] = pc[g] /\ job'[g] = job[g]
  BY <1>1, BoundsAssumption DEF IInv, TypeOK
<1>3. stalled \subseteq stalled'
  BY <1>1 DEF Available, LeaseExpired
<1>4. ASSUME NEW g \in Handler, pc[g] # "idle", job[g].event = e, e \notin stalled'
      PROVE  FALSE
  BY <1>1, <1>3, <1>4
     DEF IInv, RevealsAreCurrent, OwnedAttempt, Available, LeaseExpired, Live, On
<1>5. Tokens'
  <2>1. \A x \in Event : claims[x] \in Nat /\ claims[x] <= claims'[x]
    BY <1>2, BoundsAssumption DEF IInv, TypeOK
  <2>2. \A x \in Event : /\ row'[x].token \in {Null, claims'[x]}
                         /\ gate'[x] <= claims'[x]
                         /\ shown'[x] \subseteq 1 .. claims'[x]
    BY <1>1, <1>2, <2>1 DEF IInv, TypeOK, Tokens, Becomes
  <2>3. ASSUME NEW g \in Handler \ {h}, pc'[g] # "idle"
        PROVE  /\ job'[g].token \in (1 .. claims'[job[g].event]) \ shown[job[g].event]
               /\ job[g].event = e => job[g].token <= claims[e]
    BY <1>2, <2>1, <2>3, JobTyped DEF IInv, Tokens
  <2>4. job'[h].token \in (1 .. claims'[e]) \ shown[e]
    BY <1>2 DEF IInv, Tokens
  <2>5. ASSUME NEW g \in Handler \ {h}, pc'[g] # "idle", job[g].event = e
        PROVE  job'[g].token # job'[h].token
    <3>1. job[g].token <= claims[e] /\ job[g].token \in Nat
      BY <1>2, <2>3, <2>5, JobTyped DEF IInv
    <3> QED
      BY <1>2, <3>1
  <2> QED
    BY <1>1, <1>2, <2>2, <2>3, <2>4, <2>5 DEF IInv, Tokens
<1>6. OwedUntilConfirmed'
  BY <1>1, <1>2 DEF IInv, OwedUntilConfirmed, Becomes
<1>7. RevealsAreCurrent'
  <2>1. ASSUME NEW g \in Handler \ {h}, pc'[g] # "idle", job'[g].event \notin stalled'
        PROVE  OwnedAttempt(g)'
    <3>1. /\ pc[g] # "idle" /\ job'[g] = job[g] /\ job[g].event \in Event \ {e}
          /\ job[g].event \notin stalled
      BY <1>2, <1>3, <1>4, <2>1, JobTyped DEF IInv
    <3> QED
      BY <1>1, <3>1 DEF IInv, RevealsAreCurrent, OwnedAttempt, Becomes
  <2>2. OwnedAttempt(h)'
    BY <1>1, <1>2 DEF OwnedAttempt, Becomes
  <2> QED
    BY <2>1, <2>2 DEF RevealsAreCurrent
<1>8. CallsAreLater'
  BY <1>1, <1>3 DEF IInv, CallsAreLater
<1>9. CredentialHeld'
  BY <1>1, <1>2, <1>3 DEF IInv, CredentialHeld, Becomes
<1>10. (ChosenIsUsed /\ ForeignIsUntold)'
  BY <1>1 DEF IInv, ChosenIsUsed, ForeignIsUntold
<1>11. ConfirmedIsCurrent'
  BY <1>1, <1>3 DEF IInv, ConfirmedIsCurrent, Becomes
<1> QED
  BY <1>5, <1>6, <1>7, <1>8, <1>9, <1>10, <1>11 DEF IInv

\* The call that starts is later than everything that was shown.
LEMMA StartKeepsInv ==
  ASSUME IInv, TypeOK', NEW h \in Handler, DirectoryStarts(h)
  PROVE  IInv'
<1> DEFINE e == job[h].event
<1>1. /\ pc[h] = "directory" /\ e \in Event /\ job[h].token \in Nat
      /\ gate' = [gate EXCEPT ![e] = job[h].token]
      /\ UNCHANGED <<row, account, pc, job, shown, confirmed, claims, stalled>>
  BY JobTyped DEF DirectoryStarts, IInv
<1>2. gate'[e] = job[h].token /\ \A x \in Event \ {e} : gate'[x] = gate[x]
  BY <1>1 DEF IInv, TypeOK
<1>3. e \notin stalled => /\ row[e].status = "processing"
                          /\ job[h].token = claims[e]
  BY <1>1, Owed DEF IInv, RevealsAreCurrent, OwnedAttempt
<1>4. Tokens'
  BY <1>1, <1>2 DEF IInv, Tokens
<1>5. CallsAreLater'
  <2>1. ASSUME e \notin stalled', NEW t \in shown[e] PROVE t < job[h].token
    BY <1>1, <1>3, <2>1 DEF IInv, Tokens
  <2> QED
    BY <1>1, <1>2, <2>1 DEF IInv, CallsAreLater
<1>6. CredentialHeld'
  <2>1. ASSUME NEW g \in Handler, pc[g] = "ready", job[g].event \notin stalled
        PROVE  job[g].event # e
    BY <1>1, <2>1, OneReveal
  <2>2. ASSUME NEW g \in Handler, pc[g] = "ready" PROVE job[g].event \in Event
    BY <2>2, JobTyped DEF IInv
  <2> QED
    BY <1>1, <1>2, <1>3, <2>1, <2>2 DEF IInv, CredentialHeld
<1>7. ConfirmedIsCurrent'
  BY <1>1, <1>2, <1>3, Owed DEF IInv, ConfirmedIsCurrent
<1>8. (/\ OwedUntilConfirmed /\ RevealsAreCurrent
       /\ ChosenIsUsed /\ ForeignIsUntold)'
  BY <1>1 DEF IInv, OwedUntilConfirmed, RevealsAreCurrent, OwnedAttempt,
              ChosenIsUsed, ForeignIsUntold
<1> QED
  BY <1>4, <1>5, <1>6, <1>7, <1>8 DEF IInv

\* A call ends.  Only a reveal that waits for it, and gets a password, takes
\* that password further.
LEMMA EndKeepsInv ==
  ASSUME IInv, TypeOK', NEW e \in Event, DirectoryEnds(e)
  PROVE  IInv'
<1>1. PICK out \in Create(account[e], gate[e]) :
        /\ account' = [account EXCEPT ![e] = out.account]
        /\ pc' = [h \in Handler |->
                    IF Waiting(h, e)
                    THEN IF out.answer = "password" THEN "ready" ELSE "fail"
                    ELSE pc[h]]
  BY DEF DirectoryEnds
<1>2. /\ gate[e] # Null /\ gate'[e] = Null
      /\ account'[e] = out.account
      /\ \A x \in Event \ {e} : account'[x] = account[x] /\ gate'[x] = gate[x]
      /\ UNCHANGED <<row, job, shown, confirmed, claims, stalled>>
      /\ account[e] \in Account /\ gate[e] \in Nat
  BY <1>1 DEF DirectoryEnds, IInv, TypeOK
<1>3. \A h \in Handler :
        /\ pc'[h] # "idle" => pc[h] # "idle"
        /\ pc'[h] = "ready" =>
             \/ pc[h] = "ready"
             \/ /\ job[h].event = e /\ job[h].token = gate[e]
                /\ out.answer = "password"
  BY <1>1 DEF Waiting, On
<1>4. /\ out.account.password \in {gate[e], account[e].password, Unknown}
      /\ out.answer = "password" => out.account.password = gate[e]
      /\ out.account.password = Chosen =>
           out.account.phase = "ready" /\ ~out.account.mustChange
      /\ ~out.account.owned => out.account.password = Unknown
  BY <1>2, CreatePasswords, CreateAnswersItsPassword, CreateKeepsChosen,
     CreateKeepsForeign
     DEF IInv, ChosenIsUsed, ForeignIsUntold
<1>5. Tokens'
  BY <1>2, <1>3 DEF IInv, Tokens, Null, TypeOK
<1>6. RevealsAreCurrent'
  BY <1>2, <1>3 DEF IInv, RevealsAreCurrent, OwnedAttempt
<1>7. CallsAreLater'
  <2>1. ASSUME e \notin stalled, NEW t \in shown[e], account'[e].password > 0
        PROVE  t <= account'[e].password
    <3>1. account[e].password > 0 => t <= account[e].password
      BY <1>2, <2>1 DEF IInv, CallsAreLater
    <3>2. t < gate[e] /\ t \in Nat
      BY <1>2, <2>1 DEF IInv, CallsAreLater, TypeOK
    <3>3. account'[e].password \in {gate[e], account[e].password}
      BY <1>2, <1>4, <2>1 DEF Unknown
    <3>4. CASE account'[e].password = gate[e]
      BY <1>2, <3>2, <3>4
    <3>5. CASE account'[e].password = account[e].password
      BY <2>1, <3>1, <3>5
    <3> QED
      BY <3>3, <3>4, <3>5
  <2> QED
    BY <1>2, <2>1 DEF IInv, CallsAreLater
<1>8. CredentialHeld'
  <2>1. ASSUME NEW h \in Handler, pc'[h] = "ready", job[h].event \notin stalled
        PROVE  /\ gate'[job[h].event] = Null
               /\ account'[job[h].event].password = job[h].token
    <3>1. CASE pc[h] = "ready"
      <4>1. job[h].event \in Event \ {e}
        BY <1>2, <2>1, <3>1, JobTyped DEF IInv, CredentialHeld
      <4> QED
        BY <1>2, <2>1, <3>1, <4>1 DEF IInv, CredentialHeld
    <3>2. CASE pc[h] # "ready"
      BY <1>2, <1>3, <1>4, <2>1, <3>2
    <3> QED
      BY <3>1, <3>2
  <2> QED
    BY <1>2, <2>1 DEF IInv, CredentialHeld
<1>9. (ChosenIsUsed /\ ForeignIsUntold)'
  BY <1>2, <1>4 DEF IInv, ChosenIsUsed, ForeignIsUntold
<1>10. (OwedUntilConfirmed /\ ConfirmedIsCurrent)'
  BY <1>2 DEF IInv, OwedUntilConfirmed, ConfirmedIsCurrent
<1> QED
  BY <1>5, <1>6, <1>7, <1>8, <1>9, <1>10 DEF IInv

\* A reveal that ends records its outcome in the row it still owns.
LEMMA RecordKeepsInv ==
  ASSUME IInv, TypeOK', NEW h \in Handler, Ready(h) \/ Fail(h), OwnedAttempt(h)
  PROVE  IInv'
<1> DEFINE e == job[h].event
           t == job[h].token
<1>1. /\ pc[h] \in {"ready", "fail"} /\ e \in Event /\ t \in Nat
      /\ row[e].status = "processing" /\ row[e].token = t
      /\ row[e].delivery = "pending" /\ t = claims[e]
      /\ t \in 1 .. claims[e] /\ t \notin shown[e]
  BY JobTyped, Owed DEF Ready, Fail, OwnedAttempt, IInv, Tokens
<1>2. PICK s \in {"pending", "failed"} :
        /\ Becomes(e, s, t, "pending")
        /\ s = "pending" => pc[h] = "ready"
  <2>1. \/ pc[h] = "ready" /\ row' = SetStatus(h, "pending")
        \/ row' = SetStatus(h, "failed")
    BY DEF Ready, Fail
  <2> QED
    BY <1>1, <2>1, SetStatusEffect DEF IInv, Becomes
<1>3. /\ pc'[h] = "idle"
      /\ \A g \in Handler \ {h} : pc'[g] = pc[g] /\ job'[g] = job[g]
      /\ UNCHANGED <<account, gate, confirmed, claims, stalled>>
  BY DEF Ready, Fail, Rest, IInv, TypeOK
<1>4. /\ shown'[e] \in {shown[e], shown[e] \cup {t}}
      /\ shown'[e] # shown[e] => pc[h] = "ready"
      /\ \A x \in Event \ {e} : shown'[x] = shown[x]
  BY <1>1 DEF Ready, Fail, IInv, TypeOK
<1>5. \A g \in Handler : pc'[g] # "idle" =>
        /\ g # h /\ pc[g] = pc'[g] /\ job'[g] = job[g] /\ job[g].event \in Event
        /\ job[g].event = e => job[g].token # t /\ e \in stalled
  <2>1. ASSUME NEW g \in Handler, pc'[g] # "idle"
        PROVE  /\ g # h /\ pc[g] = pc'[g] /\ job'[g] = job[g]
               /\ job[g].event \in Event
    BY <1>3, <2>1, JobTyped DEF IInv
  <2>2. ASSUME NEW g \in Handler, pc'[g] # "idle", job[g].event = e
        PROVE  job[g].token # t /\ e \in stalled
    BY <1>1, <2>1, <2>2, OneReveal DEF IInv, Tokens
  <2> QED
    BY <2>1, <2>2
<1>6. Tokens'
  <2>1. \A x \in Event : shown'[x] \subseteq 1 .. claims[x]
    BY <1>1, <1>4 DEF IInv, Tokens
  <2>2. \A x \in Event : row'[x].token = row[x].token
    BY <1>1, <1>2 DEF Becomes
  <2>3. ASSUME NEW g \in Handler, pc'[g] # "idle"
        PROVE  job[g].token \in (1 .. claims[job[g].event]) \ shown'[job[g].event]
    BY <1>4, <1>5, <2>3 DEF IInv, Tokens
  <2> QED
    BY <1>3, <1>5, <2>1, <2>2, <2>3 DEF IInv, Tokens
<1>7. OwedUntilConfirmed'
  BY <1>1, <1>2, <1>3 DEF IInv, OwedUntilConfirmed, Becomes
<1>8. RevealsAreCurrent'
  BY <1>2, <1>3, <1>5 DEF IInv, RevealsAreCurrent, OwnedAttempt, Becomes
<1>9. e \notin stalled /\ pc[h] = "ready" =>
        gate[e] = Null /\ account[e].password = t
  BY <1>1 DEF IInv, CredentialHeld
<1>10. CallsAreLater'
  <2>1. ASSUME e \notin stalled, NEW u \in shown'[e] \ shown[e]
        PROVE  gate[e] = Null /\ u <= account[e].password
    BY <1>1, <1>4, <1>9, <2>1
  <2> QED
    BY <1>3, <1>4, <2>1 DEF IInv, CallsAreLater
<1>11. CredentialHeld'
  BY <1>2, <1>3, <1>5, <1>9 DEF IInv, CredentialHeld, Becomes
<1>12. (ChosenIsUsed /\ ForeignIsUntold)'
  BY <1>3 DEF IInv, ChosenIsUsed, ForeignIsUntold
<1>13. ConfirmedIsCurrent'
  BY <1>2, <1>3 DEF IInv, ConfirmedIsCurrent, Becomes
<1> QED
  BY <1>6, <1>7, <1>8, <1>10, <1>11, <1>12, <1>13 DEF IInv

\* What is confirmed is the password the row held.
LEMMA ConfirmKeepsInv ==
  ASSUME IInv, TypeOK', NEW e \in Event, NEW t \in shown[e], ConfirmDelivery(e, t)
  PROVE  IInv'
<1>1. /\ row[e].status = "pending" /\ row[e].token = t
      /\ Becomes(e, "provisioned", Null, "delivered")
      /\ confirmed'[e] = t
      /\ \A x \in Event \ {e} : confirmed'[x] = confirmed[x]
      /\ UNCHANGED <<account, gate, pc, job, shown, claims, stalled>>
  BY RowChanges DEF ConfirmDelivery, IsCurrent, IInv, TypeOK
<1>2. t # Null
  BY DEF IInv, Tokens, Null, TypeOK
<1>3. Tokens'
  BY <1>1 DEF IInv, Tokens, Becomes
<1>4. OwedUntilConfirmed'
  BY <1>1 DEF IInv, OwedUntilConfirmed, Becomes
<1>5. \A h \in Handler : pc[h] # "idle" /\ job[h].event \notin stalled
        => job[h].event \in Event \ {e}
  BY <1>1, JobTyped DEF IInv, RevealsAreCurrent, OwnedAttempt
<1>6. RevealsAreCurrent'
  BY <1>1, <1>5 DEF IInv, RevealsAreCurrent, OwnedAttempt, Becomes
<1>7. CredentialHeld'
  BY <1>1 DEF IInv, CredentialHeld, Becomes
<1>8. (CallsAreLater /\ ChosenIsUsed /\ ForeignIsUntold)'
  BY <1>1 DEF IInv, CallsAreLater, ChosenIsUsed, ForeignIsUntold
<1>9. ConfirmedIsCurrent'
  <2>1. e \notin stalled => gate[e] = Null /\ account[e].password \in {t, Chosen}
    BY <1>1, <1>2 DEF IInv, CredentialHeld
  <2>2. \A x \in Event \ {e} : row'[x] = row[x]
    BY <1>1 DEF Becomes
  <2> QED
    BY <1>1, <1>2, <2>1, <2>2 DEF IInv, ConfirmedIsCurrent
<1> QED
  BY <1>3, <1>4, <1>6, <1>7, <1>8, <1>9 DEF IInv

\* The member replaces a password that was shown, so not one that a reveal in
\* progress is about to show.
LEMMA MemberKeepsInv ==
  ASSUME IInv, TypeOK', NEW e \in Event,
         MemberChangesPassword(e) \/ ActivateAccount(e)
  PROVE  IInv'
<1>1. PICK t \in shown[e] :
        /\ account[e].phase = "ready" /\ account[e].password = t
        /\ account' = [account EXCEPT ![e] = TakenOver(account[e])]
        /\ UNCHANGED <<row, gate, pc, job, shown, confirmed, claims, stalled>>
  BY DEF MemberChangesPassword, ActivateAccount, CanChange, CanActivate
<1>2. /\ account'[e].password = Chosen /\ account'[e].phase = "ready"
      /\ ~account'[e].mustChange /\ account'[e].owned
      /\ \A x \in Event \ {e} : account'[x] = account[x]
  <2>1. t > 0
    BY DEF IInv, Tokens, TypeOK
  <2>2. account[e].owned
    BY <1>1, <2>1 DEF IInv, ForeignIsUntold, Unknown
  <2> QED
    BY <1>1, <2>2 DEF IInv, TypeOK, Account, TakenOver
<1>3. (Tokens /\ OwedUntilConfirmed /\ RevealsAreCurrent)'
  BY <1>1 DEF IInv, Tokens, OwedUntilConfirmed, RevealsAreCurrent, OwnedAttempt
<1>4. CallsAreLater'
  <2>1. ~(Chosen > 0)
    BY DEF Chosen
  <2> QED
    BY <1>1, <1>2, <2>1 DEF IInv, CallsAreLater
<1>5. CredentialHeld'
  <2>1. ASSUME NEW h \in Handler, pc[h] = "ready", job[h].event \notin stalled
        PROVE  job[h].event \in Event \ {e}
    <3>1. job[h].event \in Event /\ job[h].token \notin shown[job[h].event]
      BY <2>1, JobTyped DEF IInv, Tokens
    <3> QED
      BY <1>1, <2>1, <3>1 DEF IInv, CredentialHeld
  <2> QED
    BY <1>1, <1>2, <2>1 DEF IInv, CredentialHeld
<1>6. (ChosenIsUsed /\ ForeignIsUntold /\ ConfirmedIsCurrent)'
  BY <1>1, <1>2 DEF IInv, ChosenIsUsed, ForeignIsUntold, ConfirmedIsCurrent
<1> QED
  BY <1>3, <1>4, <1>5, <1>6 DEF IInv

\* IInv is inductive.
LEMMA NextInv == IInv /\ [Next]_vars => IInv'
<1> SUFFICES ASSUME IInv, [Next]_vars PROVE IInv'
  OBVIOUS
<1>1. TypeOK'
  BY NextType DEF IInv
<1>2. ASSUME NEW h \in Handler,
             \/ ReadClaim(h) \/ DirectoryTimesOut(h) \/ DatabaseError(h) \/ Crash(h)
             \/ (Ready(h) \/ Fail(h)) /\ ~OwnedAttempt(h)
      PROVE  IInv'
  <2>1. /\ pc[h] # "idle"
        /\ UNCHANGED <<account, gate, shown, confirmed, claims, stalled>>
        /\ \A g \in Handler \ {h} : pc'[g] = pc[g] /\ job'[g] = job[g]
        /\ \/ pc'[h] = "idle"
           \/ pc'[h] \in {"directory", "fail"} /\ job'[h] = job[h]
    BY <1>2 DEF ReadClaim, DirectoryTimesOut, DatabaseError, Crash, Ready, Fail,
                Go, Rest, IInv, TypeOK
  <2>2. UNCHANGED row
    BY <1>2 DEF ReadClaim, DirectoryTimesOut, DatabaseError, Crash, Ready, Fail,
                SetStatus
  <2> QED
    BY <1>1, <2>1, <2>2, QuietKeepsInv
<1>3. ASSUME NEW h \in Handler, Ready(h) \/ Fail(h), OwnedAttempt(h) PROVE IInv'
  BY <1>1, <1>3, RecordKeepsInv
<1>4. ASSUME NEW h \in Handler, DirectoryStarts(h) PROVE IInv'
  BY <1>1, <1>4, StartKeepsInv
<1>5. ASSUME NEW h \in Handler, NEW e \in Event, RevealClaim(h, e) PROVE IInv'
  BY <1>1, <1>5, ClaimKeepsInv
<1>6. ASSUME NEW e \in Event, EnqueueProvisioning(e) PROVE IInv'
  BY <1>1, <1>6, EnqueueKeepsInv
<1>7. ASSUME NEW e \in Event, DirectoryEnds(e) PROVE IInv'
  BY <1>1, <1>7, EndKeepsInv
<1>8. ASSUME NEW e \in Event, NEW t \in shown[e], ConfirmDelivery(e, t)
      PROVE  IInv'
  BY <1>1, <1>8, ConfirmKeepsInv
<1>9. ASSUME NEW e \in Event, MemberChangesPassword(e) \/ ActivateAccount(e)
      PROVE  IInv'
  BY <1>1, <1>9, MemberKeepsInv
<1>10. CASE UNCHANGED vars
  BY <1>1, <1>10
     DEF IInv, vars, Tokens, OwedUntilConfirmed, RevealsAreCurrent, OwnedAttempt,
         CallsAreLater, CredentialHeld, ChosenIsUsed, ForeignIsUntold,
         ConfirmedIsCurrent
<1> QED
  BY <1>2, <1>3, <1>4, <1>5, <1>6, <1>7, <1>8, <1>9, <1>10 DEF Next, RevealStep

\* The parts of IInv hold together in every reachable state.
THEOREM ManualInvariant == Spec => []IInv
BY InitInv, NextInv, PTL DEF Spec

\* What an officer confirmed is the password in force, or one the member
\* chose, and no call is left that could change it.
THEOREM ConfirmationIsTrue == Spec => []ConfirmedIsCurrent
<1>1. IInv => ConfirmedIsCurrent
  BY DEF IInv
<1> QED
  BY <1>1, ManualInvariant, PTL
--------------------------------------------------------------------------------
(***************************************************************************)
(* Without stalls manual delivery implements CredentialDelivery: every     *)
(* step is a step of the promise or leaves what it speaks of alone.  The   *)
(* action properties hold with stalls too.                                 *)
(***************************************************************************)
\* The greatest of a set of tokens is the one the CHOOSE of LastShown names.
LEMMA Greatest ==
  ASSUME NEW S \in SUBSET Nat, NEW t \in S \cup {Unknown}, \A u \in S : u <= t
  PROVE  (CHOOSE x \in S \cup {Unknown} : \A u \in S : u <= x) = t
<1>1. ASSUME NEW x \in S \cup {Unknown}, \A u \in S : u <= x PROVE x = t
  BY <1>1 DEF Unknown
<1> QED
  BY <1>1

\* The last token shown changes only with what was shown.
LEMMA SameShown ==
  ASSUME NEW x, shown'[x] = shown[x]
  PROVE  LastShown(x)' = LastShown(x)
BY DEF LastShown
-------------------------------------------------------------------------------
(***************************************************************************)
(* How a change at one event is recognised as a step of the promise.       *)
(***************************************************************************)

\* What the promise sees of x.
Same(x) == /\ PhaseOf(row'[x].status) = PhaseOf(row[x].status)
           /\ row'[x].delivery = row[x].delivery
           /\ account'[x].password = account[x].password
           /\ shown'[x] = shown[x]

OnlyAt(e) == \A x \in Event \ {e} : Same(x)

LEMMA IsStutter ==
  ASSUME \A x \in Event : Same(x)
  PROVE  UNCHANGED Promise!vars
<1>1. \A x \in Event : LastShown(x)' = LastShown(x)
  BY SameShown DEF Same
<1>2. /\ [x \in Event |-> PhaseOf(row'[x].status)]
           = [x \in Event |-> PhaseOf(row[x].status)]
      /\ [x \in Event |-> row'[x].delivery] = [x \in Event |-> row[x].delivery]
      /\ [x \in Event |-> account'[x].password]
           = [x \in Event |-> account[x].password]
      /\ [x \in Event |-> LastShown(x)'] = [x \in Event |-> LastShown(x)]
  BY <1>1 DEF Same
<1> QED
  BY <1>2 DEF Promise!vars

LEMMA EnqueuePromised ==
  ASSUME IInv, NEW e \in Event, EnqueueProvisioning(e)
  PROVE  Promise!Next
<1>1. /\ row[e].status = "none" /\ row[e].delivery = "null"
      /\ Becomes(e, "pending", row[e].token, "pending")
      /\ UNCHANGED <<account, shown>>
  BY RowChanges, Owed DEF EnqueueProvisioning, IInv
<1>2. PhaseOf(row[e].status) = "new" /\ PhaseOf(row'[e].status) = "open"
  BY <1>1 DEF PhaseOf, Becomes
<1>3. /\ [x \in Event |-> PhaseOf(row'[x].status)]
           = [[x \in Event |-> PhaseOf(row[x].status)] EXCEPT ![e] = "open"]
      /\ [x \in Event |-> row'[x].delivery]
           = [[x \in Event |-> row[x].delivery] EXCEPT ![e] = "pending"]
      /\ [x \in Event |-> account'[x].password]
           = [x \in Event |-> account[x].password]
      /\ [x \in Event |-> LastShown(x)'] = [x \in Event |-> LastShown(x)]
  <2>1. \A x \in Event : LastShown(x)' = LastShown(x)
    BY <1>1, SameShown
  <2> QED
    BY <1>1, <1>2, <2>1 DEF Becomes
<1>4. Promise!Queue(e)
  BY <1>1, <1>2, <1>3 DEF Promise!Queue
<1> QED
  BY <1>4 DEF Promise!Next

LEMMA EndPromised ==
  ASSUME IInv, stalled = {}, NEW e \in Event, DirectoryEnds(e)
  PROVE  [Promise!Next]_(Promise!vars)
<1>1. PICK out \in Create(account[e], gate[e]) :
        account' = [account EXCEPT ![e] = out.account]
  BY DEF DirectoryEnds
<1>2. /\ gate[e] # Null /\ gate[e] \in Nat /\ account[e] \in Account
      /\ account'[e] = out.account
      /\ \A x \in Event \ {e} : account'[x] = account[x]
      /\ UNCHANGED <<row, shown>>
  BY <1>1 DEF DirectoryEnds, IInv, TypeOK
<1>3. (out.account.password = Chosen) <=> (account[e].password = Chosen)
  BY <1>2, CreateKeepsChosen DEF IInv, ChosenIsUsed
<1>4. CASE account[e].password = Chosen
  <2>1. \A x \in Event : Same(x)
    BY <1>2, <1>3, <1>4 DEF Same
  <2> QED
    BY <2>1, IsStutter
<1>5. CASE account[e].password # Chosen
  <2>1. row[e].status # "none" /\ row[e].delivery # "delivered"
    BY <1>2, Owed DEF IInv, Tokens, ConfirmedIsCurrent, Null
  <2>2. PhaseOf(row[e].status) = "open"
    BY <2>1, Owed DEF PhaseOf
  <2>3. /\ [x \in Event |-> account'[x].password]
             = [[x \in Event |-> account[x].password]
                  EXCEPT ![e] = account'[e].password]
        /\ [x \in Event |-> LastShown(x)'] = [x \in Event |-> LastShown(x)]
    <3>1. \A x \in Event : LastShown(x)' = LastShown(x)
      BY <1>2, SameShown
    <3> QED
      BY <1>2, <3>1
  <2>4. Promise!Issue(e)
    BY <1>2, <1>3, <1>5, <2>1, <2>2, <2>3
       DEF Promise!Issue, Promise!Chosen, Chosen
  <2> QED
    BY <2>4 DEF Promise!Next
<1> QED
  BY <1>4, <1>5

\* Credentials that reach a browser are told; a lost response tells nobody.
LEMMA RecordPromised ==
  ASSUME IInv, stalled = {}, NEW h \in Handler, Ready(h) \/ Fail(h),
         OwnedAttempt(h)
  PROVE  [Promise!Next]_(Promise!vars)
<1>0. PICK e \in Event, t \in Nat : e = job[h].event /\ t = job[h].token
  BY JobTyped DEF Ready, Fail, IInv
<1>1. /\ pc[h] \in {"ready", "fail"} /\ e \in Event /\ t \in Nat
      /\ row[e].status = "processing" /\ row[e].delivery = "pending"
      /\ t = claims[e] /\ shown[e] \subseteq 1 .. claims[e]
      /\ UNCHANGED account
  BY <1>0, JobTyped, Owed DEF Ready, Fail, OwnedAttempt, IInv, Tokens
<1>2. /\ row'[e].status \in {"pending", "failed"} /\ row'[e].delivery = "pending"
      /\ \A x \in Event \ {e} : row'[x] = row[x]
  <2>1. row' = SetStatus(h, "pending") \/ row' = SetStatus(h, "failed")
    BY DEF Ready, Fail
  <2> QED
    BY <1>0, <1>1, <2>1, SetStatusEffect DEF IInv
<1>3. /\ PhaseOf(row[e].status) = "open" /\ PhaseOf(row'[e].status) = "open"
      /\ \A x \in Event : PhaseOf(row'[x].status) = PhaseOf(row[x].status)
      /\ \A x \in Event : row'[x].delivery = row[x].delivery
  BY <1>1, <1>2 DEF PhaseOf
<1>4. CASE shown' = shown
  <2>1. \A x \in Event : Same(x)
    BY <1>1, <1>3, <1>4 DEF Same
  <2> QED
    BY <2>1, IsStutter
<1>5. CASE pc[h] = "ready" /\ shown' = [shown EXCEPT ![e] = shown[e] \cup {t}]
  <2>1. account[e].password = t
    BY <1>0, <1>5 DEF IInv, CredentialHeld
  <2>2. /\ shown'[e] = shown[e] \cup {t}
        /\ \A x \in Event \ {e} : shown'[x] = shown[x]
    BY <1>1, <1>5 DEF IInv, TypeOK
  <2>3. LastShown(e)' = t
    <3>1. /\ shown'[e] \in SUBSET Nat /\ t \in shown'[e] \cup {Unknown}
          /\ \A u \in shown'[e] : u <= t
      BY <1>1, <2>2
    <3>2. (CHOOSE u \in shown'[e] \cup {Unknown} : \A v \in shown'[e] : v <= u) = t
      BY <3>1, Greatest
    <3> QED
      BY <3>1, <3>2 DEF LastShown
  <2>4. /\ [x \in Event |-> LastShown(x)']
             = [[x \in Event |-> LastShown(x)] EXCEPT ![e] = account[e].password]
        /\ [x \in Event |-> PhaseOf(row'[x].status)]
             = [x \in Event |-> PhaseOf(row[x].status)]
        /\ [x \in Event |-> row'[x].delivery] = [x \in Event |-> row[x].delivery]
        /\ [x \in Event |-> account'[x].password]
             = [x \in Event |-> account[x].password]
    <3>1. \A x \in Event \ {e} : LastShown(x)' = LastShown(x)
      BY <2>2, SameShown
    <3> QED
      BY <1>1, <1>3, <2>1, <2>3, <3>1
  <2>5. Promise!Tell(e)
    BY <1>1, <1>3, <2>4 DEF Promise!Tell
  <2> QED
    BY <2>5 DEF Promise!Next
<1>6. \/ shown' = shown
      \/ pc[h] = "ready" /\ shown' = [shown EXCEPT ![e] = shown[e] \cup {t}]
  BY <1>0 DEF Ready, Fail
<1> QED
  BY <1>4, <1>5, <1>6

LEMMA ConfirmPromised ==
  ASSUME IInv, stalled = {}, NEW e \in Event, NEW t \in shown[e],
         ConfirmDelivery(e, t)
  PROVE  Promise!Next
<1>1. /\ row[e].status = "pending" /\ row[e].delivery = "pending"
      /\ row[e].token = t
      /\ Becomes(e, "provisioned", Null, "delivered")
      /\ UNCHANGED <<account, shown>>
  BY RowChanges DEF ConfirmDelivery, IsCurrent, IInv
<1>2. t # Null /\ t = claims[e] /\ account[e].password \in {t, Chosen}
  BY <1>1, Owed DEF IInv, Tokens, Null, CredentialHeld
<1>3. LastShown(e) = t
  <2>1. shown[e] \in SUBSET Nat /\ \A u \in shown[e] : u <= t
    BY <1>2 DEF IInv, TypeOK, Tokens
  <2> QED
    BY <2>1, Greatest DEF LastShown
<1>4. PhaseOf(row[e].status) = "open" /\ PhaseOf(row'[e].status) = "done"
  BY <1>1 DEF PhaseOf, Becomes
<1>5. /\ [x \in Event |-> PhaseOf(row'[x].status)]
           = [[x \in Event |-> PhaseOf(row[x].status)] EXCEPT ![e] = "done"]
      /\ [x \in Event |-> row'[x].delivery]
           = [[x \in Event |-> row[x].delivery] EXCEPT ![e] = "delivered"]
      /\ [x \in Event |-> account'[x].password]
           = [x \in Event |-> account[x].password]
      /\ [x \in Event |-> LastShown(x)'] = [x \in Event |-> LastShown(x)]
  <2>1. \A x \in Event : LastShown(x)' = LastShown(x)
    BY <1>1, SameShown
  <2> QED
    BY <1>1, <1>4, <2>1 DEF Becomes
<1>6. Promise!Confirm(e)
  BY <1>1, <1>2, <1>3, <1>4, <1>5
     DEF Promise!Confirm, Promise!Unknown, Promise!Chosen, Null, Chosen
<1> QED
  BY <1>6 DEF Promise!Next

LEMMA MemberPromised ==
  ASSUME IInv, stalled = {}, NEW e \in Event,
         MemberChangesPassword(e) \/ ActivateAccount(e)
  PROVE  Promise!Next
<1>1. PICK t \in shown[e] :
        /\ account[e].password = t
        /\ account' = [account EXCEPT ![e] = TakenOver(account[e])]
        /\ UNCHANGED <<row, shown>>
  BY DEF MemberChangesPassword, ActivateAccount, CanChange, CanActivate
<1>2. /\ account'[e].password = Chosen
      /\ \A x \in Event \ {e} : account'[x] = account[x]
  BY <1>1 DEF IInv, TypeOK, Account, TakenOver
<1>3. t # Unknown /\ LastShown(e) = t
  <2>1. shown[e] \in SUBSET Nat /\ t > 0
    BY DEF IInv, TypeOK, Tokens
  <2>2. \A u \in shown[e] : u <= t
    BY <1>1, <2>1 DEF IInv, CallsAreLater
  <2> QED
    BY <2>1, <2>2, Greatest DEF LastShown, Unknown
<1>4. /\ [x \in Event |-> account'[x].password]
           = [[x \in Event |-> account[x].password] EXCEPT ![e] = Chosen]
      /\ [x \in Event |-> LastShown(x)'] = [x \in Event |-> LastShown(x)]
  <2>1. \A x \in Event : LastShown(x)' = LastShown(x)
    BY <1>1, SameShown
  <2>2. \A x \in Event : account'[x].password =
          IF x = e THEN Chosen ELSE account[x].password
    BY <1>2
  <2>3. [x \in Event |-> account'[x].password]
          = [[x \in Event |-> account[x].password] EXCEPT ![e] = Chosen]
    BY <2>2
  <2> QED
    BY <2>1, <2>3
<1>5. Promise!MemberChooses(e)
  BY <1>1, <1>3, <1>4
     DEF Promise!MemberChooses, Promise!Chosen, Promise!Unknown, Chosen, Unknown
<1> QED
  BY <1>5 DEF Promise!Next

\* The other steps of reveals concern nobody but the portal.
LEMMA OthersPromised ==
  ASSUME IInv,
         \/ \E h \in Handler, e \in Event : RevealClaim(h, e)
         \/ \E h \in Handler :
              \/ ReadClaim(h) \/ DirectoryStarts(h) \/ DirectoryTimesOut(h)
              \/ DatabaseError(h) \/ Crash(h)
              \/ (Ready(h) \/ Fail(h)) /\ ~OwnedAttempt(h)
         \/ UNCHANGED vars
  PROVE  UNCHANGED Promise!vars
<1>1. ASSUME NEW h \in Handler, NEW e \in Event, RevealClaim(h, e)
      PROVE  \A x \in Event : Same(x)
  <2>1. /\ row[e].status \in {"pending", "failed", "processing"}
        /\ row[e].delivery = "pending"
        /\ Becomes(e, "processing", claims[e] + 1, "pending")
        /\ UNCHANGED <<account, shown>>
    BY <1>1, RowChanges DEF RevealClaim, Available, LeaseExpired, IInv
  <2> QED
    BY <2>1 DEF Becomes, Same, PhaseOf
<1>2. ASSUME UNCHANGED <<row, account, shown>> PROVE \A x \in Event : Same(x)
  BY <1>2 DEF Same
<1> QED
  BY <1>1, <1>2, IsStutter
     DEF ReadClaim, DirectoryStarts, DirectoryTimesOut, DatabaseError, Crash,
         Ready, Fail, SetStatus, vars

LEMMA InitPromised == Init => Promise!Init
<1> SUFFICES ASSUME Init PROVE Promise!Init
  OBVIOUS
<1>1. \A e \in Event : /\ row[e].status = "none" /\ row[e].delivery = "null"
                       /\ account[e].password = Unknown /\ shown[e] = {}
  BY DEF Init, Absent, Foreign
<1>2. \A e \in Event : LastShown(e) = Unknown
  BY <1>1, Greatest DEF LastShown, Unknown
<1> QED
  BY <1>1, <1>2 DEF Promise!Init, PhaseOf, Promise!Unknown, Unknown

LEMMA NextPromised ==
  ASSUME IInv, stalled = {}, [Next]_vars
  PROVE  [Promise!Next]_(Promise!vars)
<1>1. ASSUME NEW e \in Event, NEW t \in shown[e], ConfirmDelivery(e, t)
      PROVE  Promise!Next
  BY <1>1, ConfirmPromised
<1>2. ASSUME NEW h \in Handler, Ready(h) \/ Fail(h), OwnedAttempt(h)
      PROVE  [Promise!Next]_(Promise!vars)
  BY <1>2, RecordPromised
<1> QED
  BY <1>1, <1>2, EnqueuePromised, EndPromised, MemberPromised, OthersPromised
     DEF Next, RevealStep

\* As long as no reveal has outlived its claim, every step of manual delivery
\* is a step of the delivery promise or leaves what it speaks of alone.
THEOREM ManualRefinement == Spec => KeepsThePromise
<1>1. Init => Promise!Init
  BY InitPromised
<1>2. IInv /\ [Next]_vars
        => [stalled = {} => [Promise!Next]_(Promise!vars)]_vars
  BY NextPromised
<1> QED
  BY <1>1, <1>2, ManualInvariant, PTL DEF Spec, KeepsThePromise
-------------------------------------------------------------------------------
(***************************************************************************)
(* The action properties, with stalls or without.                          *)
(***************************************************************************)

\* No reveal writes an account in use or not of this signup.
THEOREM RevealsKeepUsedAccounts == Spec => UsedAccountsAreKept
<1>1. ASSUME IInv, [Next]_vars, NEW e \in Event, account[e].phase = "ready",
             ~account[e].owned \/ account[e].password = Chosen
      PROVE  account'[e] = account[e]
  <2>1. ASSUME NEW x \in Event, DirectoryEnds(x) PROVE account'[e] = account[e]
    <3>1. PICK out \in Create(account[x], gate[x]) :
            account' = [account EXCEPT ![x] = out.account]
      BY <2>1 DEF DirectoryEnds
    <3>2. x = e => out.account = account[e]
      BY <1>1, CreateKeepsUsed DEF IInv, TypeOK, ChosenIsUsed
    <3> QED
      BY <3>1, <3>2 DEF IInv, TypeOK
  <2>2. ASSUME NEW x \in Event, MemberChangesPassword(x) \/ ActivateAccount(x)
        PROVE  account'[e] = account[e]
    <3>1. PICK t \in shown[x] :
            /\ account[x].password = t
            /\ account' = [account EXCEPT ![x] = TakenOver(account[x])]
      BY <2>2 DEF MemberChangesPassword, ActivateAccount, CanChange, CanActivate
    <3>2. t \in Nat /\ t > 0
      BY <1>1 DEF IInv, Tokens, TypeOK
    <3>3. x # e
      BY <1>1, <3>1, <3>2 DEF IInv, ForeignIsUntold, Unknown, Chosen
    <3> QED
      BY <3>1, <3>3 DEF IInv, TypeOK
  <2> QED
    BY <1>1, <2>1, <2>2
       DEF Next, vars, EnqueueProvisioning, ConfirmDelivery, RevealStep, ReadClaim,
           DirectoryStarts, DirectoryTimesOut, Ready, Fail, DatabaseError, Crash,
           RevealClaim
<1>2. IInv /\ [Next]_vars =>
        [\A e \in Event : LET a == account[e] IN
           a.phase = "ready" /\ (~a.owned \/ a.password = Chosen)
             => account'[e] = a]_vars
  BY <1>1
<1> QED
  BY <1>2, ManualInvariant, PTL DEF Spec, UsedAccountsAreKept

\* A reveal whose token is no longer in the row owns nothing, so its last
\* steps write nothing.
LEMMA ReplacedStep ==
  ASSUME IInv, [Next]_vars, NEW h \in Handler, pc[h] # "idle", pc'[h] # pc[h],
         row[job[h].event].token # job[h].token
  PROVE  row' = row /\ shown' = shown
<1>1. ~OwnedAttempt(h) /\ pc \in [Handler -> Step]
  BY DEF OwnedAttempt, IInv, TypeOK
<1>2. ASSUME NEW g \in Handler, RevealStep(g) \/ DatabaseError(g) \/ Crash(g)
      PROVE  row' = row /\ shown' = shown
  <2>1. g = h
    BY <1>1, <1>2
       DEF RevealStep, ReadClaim, DirectoryStarts, DirectoryTimesOut, Ready, Fail,
           DatabaseError, Crash, Go, Rest
  <2> QED
    BY <1>1, <1>2, <2>1
       DEF RevealStep, ReadClaim, DirectoryStarts, DirectoryTimesOut, Ready, Fail,
           DatabaseError, Crash, SetStatus
<1>3. ASSUME NEW g \in Handler, NEW e \in Event, RevealClaim(g, e) PROVE FALSE
  BY <1>1, <1>3 DEF RevealClaim
<1>4. ASSUME NEW e \in Event, DirectoryEnds(e) PROVE row' = row /\ shown' = shown
  BY <1>4 DEF DirectoryEnds
<1>5. ASSUME UNCHANGED pc PROVE FALSE
  BY <1>5
<1> QED
  BY <1>2, <1>3, <1>4, <1>5
     DEF Next, vars, EnqueueProvisioning, ConfirmDelivery, MemberChangesPassword,
         ActivateAccount

\* A replaced reveal changes neither the row nor what officers see.
THEOREM ReplacedRevealsCannotWrite == Spec => ReplacedRevealsAreHarmless
<1>1. IInv /\ [Next]_vars =>
        [\A h \in Handler :
           LET e == job[h].event IN
           pc[h] # "idle" /\ pc'[h] # pc[h] /\ row[e].token # job[h].token
             => row'[e] = row[e] /\ shown'[e] = shown[e]]_vars
  <2> SUFFICES ASSUME IInv, [Next]_vars, NEW h \in Handler, pc[h] # "idle",
                      pc'[h] # pc[h], row[job[h].event].token # job[h].token
               PROVE  /\ row'[job[h].event] = row[job[h].event]
                      /\ shown'[job[h].event] = shown[job[h].event]
    OBVIOUS
  <2> QED
    BY ReplacedStep
<1> QED
  BY <1>1, ManualInvariant, PTL DEF Spec, ReplacedRevealsAreHarmless
===============================================================================
