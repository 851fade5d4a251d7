------------------------- MODULE EmailDeliveryProofs --------------------------
(***************************************************************************)
(* Proofs about EmailDelivery, for any events, workers and bounds.         *)
(***************************************************************************)
EXTENDS EmailDelivery, DirectoryAccountProofs
-------------------------------------------------------------------------------
(***************************************************************************)
(* Type correctness.                                                       *)
(***************************************************************************)
LEMMA InitType == Init => TypeOK
<1>1. Absent \in Account /\ Foreign \in Account
  BY DEF Account, Password, Absent, Foreign, Unknown
<1> QED
  BY <1>1, BoundsAssumption DEF Init, TypeOK, Row, Status, Step, Null

LEMMA MarkFailedType ==
  ASSUME TypeOK, NEW w \in Worker, pc[w] # "idle", NEW n \in Nat
  PROVE  MarkFailed(w, n) \in [Event -> Row]
<1> DEFINE e == job[w].event
           st == IF n >= MaxAttempts THEN "dead_lettered" ELSE "failed"
           r  == [row[e] EXCEPT !.status = st, !.attempts = n]
<1>1. e \in Event /\ row[e] \in Row
  BY DEF TypeOK, Job
<1>2. r \in Row
  BY <1>1 DEF Row, Status
<1>3. MarkFailed(w, n) \in {row, [row EXCEPT ![e] = r]}
  BY <1>1 DEF MarkFailed, TypeOK
<1> QED
  BY <1>1, <1>2, <1>3 DEF TypeOK

LEMMA MarkCredentialDeliveryType ==
  ASSUME TypeOK, NEW w \in Worker, pc[w] # "idle",
         NEW s \in {"pending", "delivered"}
  PROVE  MarkCredentialDelivery(w, s) \in [Event -> Row]
<1> DEFINE e == job[w].event
           r == [row[e] EXCEPT !.delivery = s]
<1>1. e \in Event /\ row[e] \in Row
  BY DEF TypeOK, Job
<1>2. r \in Row
  BY <1>1 DEF Row
<1>3. MarkCredentialDelivery(w, s) \in {row, [row EXCEPT ![e] = r]}
  BY <1>1 DEF MarkCredentialDelivery, TypeOK
<1> QED
  BY <1>1, <1>2, <1>3 DEF TypeOK

LEMMA NextType == TypeOK /\ [Next]_vars => TypeOK'
<1> SUFFICES ASSUME TypeOK, [Next]_vars PROVE TypeOK'
  OBVIOUS
<1> USE BoundsAssumption
<1>1. ASSUME NEW e \in Event, EnqueueProvisioning(e) PROVE TypeOK'
  BY <1>1 DEF TypeOK, EnqueueProvisioning, Row, Status
<1>2. ASSUME NEW e \in Event, RetryProvisioning(e) PROVE TypeOK'
  <2>1. Reopened(row[e]) \in Row
    BY DEF TypeOK, Reopened, Row, Status, Null
  <2>2. row' \in [Event -> Row] /\ retries' \in 0 .. MaxRetries
    BY <1>2, <2>1 DEF TypeOK, RetryProvisioning
  <2> QED
    BY <1>2, <2>2 DEF TypeOK, RetryProvisioning
<1>3. ASSUME NEW e \in Event, DirectoryEnds(e) PROVE TypeOK'
  <2>1. PICK out \in Create(account[e], gate[e]) :
          /\ account' = [account EXCEPT ![e] = out.account]
          /\ \/ \E w \in Worker : Waiting(w, e) /\ TakeAnswer(w, out.answer)
             \/ UNCHANGED <<row, pc, faults>>
    BY <1>3 DEF DirectoryEnds
  <2>2. out.account \in Account /\ out.answer \in Answer
    BY CreateType DEF TypeOK
  <2>3. account' \in [Event -> Account]
    BY <2>1, <2>2 DEF TypeOK
  <2>4. /\ row' \in [Event -> Row] /\ pc' \in [Worker -> Step]
        /\ faults' \in 0 .. MaxFaults
        /\ \A w \in Worker : pc'[w] # "idle" => pc[w] # "idle"
    <3>1. CASE UNCHANGED <<row, pc, faults>>
      BY <3>1 DEF TypeOK
    <3>2. ASSUME NEW w \in Worker, Waiting(w, e), TakeAnswer(w, out.answer)
          PROVE  <2>4!1 /\ <2>4!2 /\ <2>4!3
      <4>1. pc[w] = "directory" /\ MarkCredentialDelivery(w, "pending") \in [Event -> Row]
        BY <3>2, MarkCredentialDeliveryType DEF Waiting
      <4> QED
        BY <3>2, <4>1 DEF TypeOK, TakeAnswer, Go, Step, WithoutPassword, Fault
    <3> QED
      BY <2>1, <3>1, <3>2
  <2> QED
    BY <1>3, <2>3, <2>4 DEF TypeOK, DirectoryEnds, Null
<1>4. ASSUME NEW e \in Event,
             MemberChangesPassword(e) \/ ActivateAccount(e)
      PROVE  TypeOK'
  <2>1. TakenOver(account[e]) \in Account
    BY DEF TypeOK, TakenOver, Account, Password
  <2>2. account' = [account EXCEPT ![e] = TakenOver(account[e])]
    BY <1>4 DEF MemberChangesPassword, ActivateAccount
  <2>3. account' \in [Event -> Account]
    BY <2>1, <2>2 DEF TypeOK
  <2> QED
    BY <1>4, <2>3 DEF TypeOK, MemberChangesPassword, ActivateAccount
<1>5. ASSUME NEW w \in Worker, Reap(w) \/ Fail(w) \/ Finish(w) PROVE TypeOK'
  <2>1. row' \in [Event -> Row]
    <3>1. pc[w] # "idle" /\ job[w] \in Job
      BY <1>5 DEF Reap, Fail, Finish, TypeOK
    <3>2. job[w].attempts \in Nat /\ job[w].attempts + 1 \in Nat
      BY <3>1 DEF Job
    <3>3. CASE Reap(w) \/ Fail(w)
      BY <3>1, <3>2, <3>3, MarkFailedType DEF Reap, Fail
    <3>4. CASE Finish(w)
      BY <3>1, <3>4 DEF Finish, TypeOK, Row, Job, Status
    <3> QED
      BY <1>5, <3>3, <3>4
  <2> QED
    BY <1>5, <2>1 DEF TypeOK, Reap, Fail, Finish, Rest, Step
<1>6. ASSUME NEW w \in Worker, DatabaseError(w) PROVE TypeOK'
  BY <1>6 DEF TypeOK, DatabaseError, Fault, Go, Rest, Step
<1>7. ASSUME NEW w \in Worker, Crash(w) PROVE TypeOK'
  <2>1. inbox' \in [Event -> Nat]
    BY <1>7 DEF TypeOK, Crash, Job
  <2> QED
    BY <1>7, <2>1 DEF TypeOK, Crash, Fault, Rest, Step
<1>8. ASSUME NEW w \in Worker, OpenDirectoryCall(w) PROVE TypeOK'
  BY <1>8 DEF TypeOK, OpenDirectoryCall, Go, Rest, Step, Job
<1>9. ASSUME NEW w \in Worker, DirectoryStarts(w) \/ DirectoryTimesOut(w)
      PROVE  TypeOK'
  BY <1>9 DEF TypeOK, DirectoryStarts, DirectoryTimesOut, Go, Step, Job
<1>10. ASSUME NEW w \in Worker, OpenMail(w) PROVE TypeOK'
  BY <1>10 DEF TypeOK, OpenMail, Go, Rest, Step
<1>11. ASSUME NEW w \in Worker, SendCredentialEmail(w) PROVE TypeOK'
  <2>1. row' \in [Event -> Row]
    BY <1>11, MarkCredentialDeliveryType DEF SendCredentialEmail, TypeOK
  <2>2. inbox' \in [Event -> Nat]
    BY <1>11 DEF SendCredentialEmail, TypeOK, Job
  <2> QED
    BY <1>11, <2>1, <2>2 DEF SendCredentialEmail, TypeOK, Go, Step
<1>12. ASSUME NEW w \in Worker, NEW e \in Event, ClaimNext(w, e) PROVE TypeOK'
  <2>1. Claimed(e) \in Row /\ Claimed(e).attempts \in Nat
    <3>1. row[e] \in Row /\ claims[e] + 1 \in Nat
      BY DEF TypeOK
    <3> DEFINE n == IF row[e].status = "processing" THEN row[e].attempts + 1
                    ELSE row[e].attempts
    <3>2. n \in Nat
      BY <3>1 DEF Row
    <3>3. Claimed(e) = [row[e] EXCEPT !.status   = "processing",
                                      !.token    = claims[e] + 1,
                                      !.attempts = n]
      BY <3>1 DEF Claimed, Row
    <3> QED
      BY <3>1, <3>2, <3>3 DEF Row, Status
  <2>2. FirstStep(Claimed(e)) \in Step
    BY DEF FirstStep, Step
  <2>3. job' \in [Worker -> Job \cup {NoJob}] /\ job'[w] \in Job
    BY <1>12, <2>1 DEF ClaimNext, TypeOK, Job, Row
  <2>4. faults' \in 0 .. MaxFaults
    BY <1>12 DEF ClaimNext, TypeOK, Due, LeaseExpired, Fault
  <2>5. row' \in [Event -> Row] /\ claims' \in [Event -> Nat]
    BY <1>12, <2>1 DEF ClaimNext, TypeOK
  <2> QED
    BY <1>12, <2>2, <2>3, <2>4, <2>5 DEF ClaimNext, TypeOK, Go
<1>13. CASE UNCHANGED vars
  BY <1>13 DEF TypeOK, vars
<1> QED
  BY <1>1, <1>2, <1>3, <1>4, <1>5, <1>6, <1>7, <1>8, <1>9, <1>10, <1>11,
     <1>12, <1>13 DEF Next, DrainStep

\* The type invariant holds in every reachable state.
THEOREM TypeCorrect == Spec => []TypeOK
BY InitType, NextType, PTL DEF Spec

-------------------------------------------------------------------------------
(***************************************************************************)
(* The inductive invariant.                                                *)
(***************************************************************************)
LEMMA InitInv == Init => IInv
<1> SUFFICES ASSUME Init PROVE IInv
  OBVIOUS
<1>1. TypeOK
  BY InitType
<1>2. \A w \in Worker : pc[w] = "idle"
  BY DEF Init
<1>3. \A e \in Event : /\ row[e].status = "none" /\ row[e].token = 0
                       /\ row[e].delivery = "null" /\ row[e].attempts = 0
                       /\ inbox[e] = 0 /\ claims[e] = 0 /\ calls[e] = 0
                       /\ gate[e] = Null
                       /\ account[e].password = Unknown
                       /\ account[e].password # Chosen
  BY DEF Init, Null, Absent, Foreign, Unknown, Chosen
<1>4. Tokens /\ LockKeepsClaim /\ OwnerView /\ CallsAreCounted
  BY <1>2, <1>3 DEF Tokens, LockKeepsClaim, Holding, OwnerView, CallsAreCounted
<1>5. CredentialInFlight /\ ChosenIsUsed /\ ForeignIsUntold
  BY <1>2, <1>3 DEF CredentialInFlight, Quiet, ChosenIsUsed, ForeignIsUntold
<1>6. OwedIsNotCompleted /\ CallsAreBounded /\ MailedIsCurrent
  BY <1>3, BoundsAssumption
     DEF OwedIsNotCompleted, CallsAreBounded, MailedIsCurrent
<1> QED
  BY <1>1, <1>4, <1>5, <1>6 DEF IInv

\* A row has at most one owner.
LEMMA OneOwner ==
  ASSUME TypeOK, Tokens, NEW v \in Worker, NEW w \in Worker,
         pc[v] # "idle", pc[w] # "idle", Owns(v), Owns(w),
         job[v].event = job[w].event
  PROVE  v = w
BY DEF Tokens, Owns

\* Approval and a retry touch rows nobody owns.
LEMMA OfficersKeepInv ==
  ASSUME IInv, TypeOK', NEW e \in Event,
         EnqueueProvisioning(e) \/ RetryProvisioning(e)
  PROVE  IInv'
<1>1. /\ row[e].status \in {"none", "failed", "dead_lettered"}
      /\ row'[e].status = "pending"
      /\ row'[e].delivery = row[e].delivery
      /\ row'[e].token \in {row[e].token, Null}
      /\ \A x \in Event \ {e} : row'[x] = row[x] /\ calls'[x] = calls[x]
      /\ \/ row'[e].attempts = row[e].attempts /\ calls'[e] = calls[e]
         \/ calls'[e] = 0
      /\ UNCHANGED <<activated, account, gate, inbox, pc, job, claims>>
  <2>1. row[e] \in Row /\ row \in [Event -> Row] /\ calls \in [Event -> Nat]
    BY DEF IInv, TypeOK
  <2>2. CASE EnqueueProvisioning(e)
    BY <2>1, <2>2 DEF EnqueueProvisioning, Row
  <2>3. CASE RetryProvisioning(e)
    <3>1. /\ Reopened(row[e]).status = "pending"
          /\ Reopened(row[e]).delivery = row[e].delivery
          /\ Reopened(row[e]).token = Null
      BY <2>1 DEF Reopened, Row
    <3>2. row'[e] = Reopened(row[e]) /\ calls'[e] = 0
      BY <2>1, <2>3 DEF RetryProvisioning
    <3> QED
      BY <2>1, <2>3, <3>1, <3>2 DEF RetryProvisioning
  <2> QED
    BY <2>2, <2>3
<1>2. \A w \in Worker : pc[w] # "idle" =>
        /\ job[w].event \in Event
        /\ Owns(w)' <=> Owns(w)
        /\ Owns(w) => job[w].event # e
  BY <1>1 DEF Owns, IInv, TypeOK, Job
<1>3. Tokens'
  BY <1>1 DEF IInv, TypeOK, Tokens, Null
<1>4. LockKeepsClaim'
  BY <1>1, <1>2 DEF IInv, LockKeepsClaim, Holding
<1>5. OwnerView'
  BY <1>1, <1>2 DEF IInv, OwnerView
<1>6. CallsAreCounted'
  <2>1. row'[e].attempts \in Nat
    BY DEF TypeOK, Row
  <2>2. \A x \in Event :
          /\ row'[x].status = "processing" => calls'[x] <= row'[x].attempts + 1
          /\ row'[x].status \notin {"processing", "provisioned"}
               => calls'[x] <= row'[x].attempts
    BY <1>1, <2>1 DEF IInv, CallsAreCounted
  <2>3. \A w \in Worker : pc[w] \in {"reap", "begin"} /\ Owns(w)'
          => calls'[job[w].event] <= job[w].attempts
    BY <1>1, <1>2 DEF IInv, CallsAreCounted
  <2> QED
    BY <1>1, <2>2, <2>3 DEF CallsAreCounted
<1>7. CredentialInFlight'
  BY <1>1, <1>2 DEF IInv, CredentialInFlight, Quiet
<1>8. (ChosenIsUsed /\ ForeignIsUntold
        /\ OwedIsNotCompleted /\ MailedIsCurrent)'
  BY <1>1
     DEF IInv, ChosenIsUsed, ForeignIsUntold, OwedIsNotCompleted, MailedIsCurrent
<1>9. CallsAreBounded'
  BY <1>1, BoundsAssumption DEF IInv, CallsAreBounded
<1> QED
  BY <1>3, <1>4, <1>5, <1>6, <1>7, <1>8, <1>9 DEF IInv

\* The member's actions change the account of e alone, and only once the
\* password mailed last is in force.
LEMMA MemberKeepsInv ==
  ASSUME IInv, TypeOK', NEW e \in Event,
         MemberChangesPassword(e) \/ ActivateAccount(e)
  PROVE  IInv'
<1>1. /\ account[e].password = inbox[e]
      /\ inbox[e] # Null
      /\ account'[e].password = Chosen /\ ~account'[e].mustChange
      /\ account'[e].phase = "ready"
      /\ account'[e].owned = account[e].owned
      /\ \A x \in Event \ {e} : account'[x] = account[x]
      /\ UNCHANGED <<row, gate, inbox, pc, job, claims, calls>>
  <2>1. account[e] \in Account /\ account \in [Event -> Account]
    BY DEF IInv, TypeOK
  <2>2. /\ TakenOver(account[e]).password = Chosen
        /\ TakenOver(account[e]).phase = account[e].phase
        /\ ~TakenOver(account[e]).mustChange
        /\ TakenOver(account[e]).owned = account[e].owned
    BY <2>1 DEF TakenOver, Account
  <2>3. /\ account' = [account EXCEPT ![e] = TakenOver(account[e])]
        /\ CanChange(account[e], inbox[e]) /\ inbox[e] # Null
        /\ UNCHANGED <<row, gate, inbox, pc, job, claims, calls>>
    <3>1. CASE MemberChangesPassword(e)
      BY <3>1 DEF MemberChangesPassword
    <3>2. CASE ActivateAccount(e)
      <4>1. inbox[e] # Null
        BY <3>2 DEF ActivateAccount, IInv, MailedIsCurrent
      <4> QED
        BY <3>2, <4>1 DEF ActivateAccount, CanActivate
    <3> QED
      BY <3>1, <3>2
  <2> QED
    BY <2>1, <2>2, <2>3 DEF CanChange
<1>2. \A w \in Worker : Owns(w)' <=> Owns(w)
  BY <1>1 DEF Owns
<1>3. (Tokens /\ LockKeepsClaim /\ OwnerView /\ CallsAreCounted)'
  BY <1>1, <1>2
     DEF IInv, Tokens, LockKeepsClaim, Holding, OwnerView, CallsAreCounted
<1>4. ForeignIsUntold'
  <2>1. account[e].owned
    BY <1>1 DEF IInv, ForeignIsUntold, Null, Unknown
  <2> QED
    BY <1>1, <2>1 DEF IInv, ForeignIsUntold
<1>6. (ChosenIsUsed
        /\ OwedIsNotCompleted /\ CallsAreBounded /\ MailedIsCurrent)'
  BY <1>1
     DEF IInv, ChosenIsUsed, OwedIsNotCompleted, CallsAreBounded, MailedIsCurrent
<1>5. CredentialInFlight'
  <2>1. ASSUME NEW w \in Worker, pc[w] \in {"mail", "smtp"}, Owns(w)
        PROVE  job[w].event # e
    \* the mail for e is still to be sent: its password is newer than the
    \* one in the member's inbox
    <3>1. CASE job[w].event = e
      <4>1. account[e].password = job[w].token /\ inbox[e] < job[w].token
        BY <2>1, <3>1 DEF IInv, CredentialInFlight
      <4>2. inbox[e] \in Nat
        BY DEF IInv, TypeOK
      <4> QED
        BY <1>1, <4>1, <4>2
    <3> QED
      BY <3>1
  <2>2. \A w \in Worker : pc[w] # "idle" => job[w].event \in Event
    BY DEF IInv, TypeOK, Job
  <2> QED
    BY <1>1, <1>2, <2>1, <2>2 DEF IInv, CredentialInFlight, Quiet
<1> QED
  BY <1>3, <1>4, <1>5, <1>6 DEF IInv

\* Only the owner of a row moves it when it completes the row or gives up.
LEMMA SettlingKeepsInv ==
  ASSUME IInv, TypeOK', NEW w \in Worker, Reap(w) \/ Fail(w) \/ Finish(w)
  PROVE  IInv'
<1> DEFINE e == job[w].event
<1>1. /\ pc[w] \in {"reap", "fail", "finish"}
      /\ job[w] \in Job /\ e \in Event /\ row[e] \in Row
  BY DEF IInv, TypeOK, Reap, Fail, Finish, Job
<1>2. /\ pc'[w] = "idle"
      /\ \A v \in Worker \ {w} : pc'[v] = pc[v] /\ job'[v] = job[v]
      /\ UNCHANGED <<account, gate, inbox, claims, calls>>
  BY DEF IInv, TypeOK, Reap, Fail, Finish, Rest
<1>3. \A x \in Event : x # e \/ ~Owns(w) => row'[x] = row[x]
  BY <1>1 DEF IInv, TypeOK, Reap, Fail, Finish, MarkFailed
<1>4. ASSUME Owns(w)
      PROVE  /\ row'[e].token = row[e].token
             /\ row'[e].delivery = row[e].delivery
             /\ \/ /\ row'[e].status = "provisioned"
                   /\ row[e].delivery # "pending"
                   /\ pc[w] = "finish"
                \/ /\ row'[e].status \in {"failed", "dead_lettered"}
                   /\ calls[e] <= row'[e].attempts
  <2>1. /\ job[w].attempts = row[e].attempts
        /\ pc[w] = "finish" => row[e].delivery # "pending"
        /\ pc[w] = "reap" => calls[e] <= job[w].attempts
        /\ row[e].status = "processing"
        /\ calls[e] <= row[e].attempts + 1
    BY <1>1, <1>4 DEF IInv, OwnerView, CallsAreCounted, Owns
  <2>2. CASE Finish(w)
    <3>1. row' = [row EXCEPT ![e].status = "provisioned"]
      BY <1>4, <2>2 DEF Finish
    <3>2. /\ row'[e].token = row[e].token
          /\ row'[e].delivery = row[e].delivery
          /\ row'[e].status = "provisioned"
      BY <1>1, <3>1 DEF IInv, TypeOK, Row
    <3>3. pc[w] = "finish"
      BY <2>2 DEF Finish
    <3> QED
      BY <2>1, <3>2, <3>3
  <2>3. ASSUME NEW n \in Nat, row' = MarkFailed(w, n), calls[e] <= n
        PROVE  /\ row'[e].token = row[e].token
               /\ row'[e].delivery = row[e].delivery
               /\ row'[e].status \in {"failed", "dead_lettered"}
               /\ calls[e] <= row'[e].attempts
    BY <1>1, <1>4, <2>3 DEF MarkFailed, IInv, TypeOK, Row
  <2>4. CASE Reap(w)
    <3>1. /\ job[w].attempts \in Nat /\ calls[e] <= job[w].attempts
          /\ row' = MarkFailed(w, job[w].attempts)
      BY <1>1, <2>1, <2>4 DEF Reap, Job
    <3> QED
      BY <2>3, <3>1
  <2>5. CASE Fail(w)
    <3>1. /\ job[w].attempts + 1 \in Nat /\ calls[e] <= job[w].attempts + 1
          /\ row' = MarkFailed(w, job[w].attempts + 1)
      BY <1>1, <2>1, <2>5 DEF Fail, Job
    <3> QED
      BY <2>3, <3>1
  <2> QED
    BY <2>2, <2>4, <2>5
<1>5. \A v \in Worker \ {w} : pc[v] # "idle" =>
        /\ job[v].event \in Event
        /\ Owns(v)' <=> Owns(v)
        /\ Owns(v) => row'[job[v].event] = row[job[v].event]
  <2>1. SUFFICES ASSUME NEW v \in Worker \ {w}, pc[v] # "idle"
                 PROVE  /\ job[v].event \in Event
                        /\ Owns(v)' <=> Owns(v)
                        /\ Owns(v) => row'[job[v].event] = row[job[v].event]
    OBVIOUS
  <2>2. job[v].event \in Event
    BY <2>1 DEF IInv, TypeOK, Job
  <2>3. CASE job[v].event # e \/ ~Owns(w)
    BY <1>2, <1>3, <2>2, <2>3 DEF Owns
  <2>4. CASE job[v].event = e /\ Owns(w)
    <3>1. ~Owns(v)
      BY <1>1, <2>1, <2>4, OneOwner DEF IInv
    <3>2. ~Owns(v)'
      BY <1>2, <1>4, <2>4 DEF Owns
    <3> QED
      BY <2>2, <3>1, <3>2
  <2> QED
    BY <2>3, <2>4
<1>6. \A x \in Event : row'[x].token = row[x].token
                       /\ row'[x].delivery = row[x].delivery
  BY <1>3, <1>4
<1>7. Tokens'
  BY <1>2, <1>6 DEF IInv, Tokens
<1>8. (LockKeepsClaim /\ OwnerView /\ CredentialInFlight)'
  <2>1. LockKeepsClaim'
    BY <1>2, <1>5 DEF IInv, LockKeepsClaim, Holding
  <2>2. OwnerView'
    BY <1>2, <1>5 DEF IInv, OwnerView
  <2>3. \A x \in Event : Quiet(x)' => gate[x] = Null
    <3>1. SUFFICES ASSUME NEW x \in Event, Quiet(x)' PROVE gate[x] = Null
      OBVIOUS
    <3>2. CASE x = e /\ Owns(w) /\ pc[w] = "finish"
      BY <3>2 DEF IInv, CredentialInFlight
    <3>3. CASE ~(x = e /\ Owns(w) /\ pc[w] = "finish")
      <4>1. Quiet(x)
        BY <1>3, <1>4, <3>1, <3>3 DEF Quiet
      <4> QED
        BY <4>1 DEF IInv, CredentialInFlight
    <3> QED
      BY <3>2, <3>3
  <2>4. CredentialInFlight'
    BY <1>2, <1>5, <2>3 DEF IInv, CredentialInFlight
  <2> QED
    BY <2>1, <2>2, <2>4
<1>9. CallsAreCounted'
  <2>1. \A x \in Event :
          /\ row'[x].status = "processing" => calls'[x] <= row'[x].attempts + 1
          /\ row'[x].status \notin {"processing", "provisioned"}
               => calls'[x] <= row'[x].attempts
    BY <1>2, <1>3, <1>4 DEF IInv, CallsAreCounted
  <2>2. \A v \in Worker : pc'[v] \in {"reap", "begin"} /\ Owns(v)'
          => calls'[job'[v].event] <= job'[v].attempts
    BY <1>2, <1>5 DEF IInv, CallsAreCounted
  <2> QED
    BY <2>1, <2>2 DEF CallsAreCounted
<1>10. (ChosenIsUsed /\ ForeignIsUntold /\ CallsAreBounded /\ MailedIsCurrent)'
  BY <1>2, <1>6
     DEF IInv, ChosenIsUsed, ForeignIsUntold, CallsAreBounded, MailedIsCurrent
<1>11. OwedIsNotCompleted'
  BY <1>3, <1>4 DEF IInv, OwedIsNotCompleted
<1> QED
  BY <1>7, <1>8, <1>9, <1>10, <1>11 DEF IInv

\* Steps that write nothing down: faults, timeouts, the lock taken for a
\* mail, and a mail whose receipt is lost.
Unrecorded(w) ==
  \/ DatabaseError(w) \/ Crash(w) \/ DirectoryTimesOut(w) \/ OpenMail(w)
  \/ SendCredentialEmail(w) /\ UNCHANGED row

LEMMA UnrecordedKeepsInv ==
  ASSUME IInv, TypeOK', NEW w \in Worker, Unrecorded(w)
  PROVE  IInv'
<1> DEFINE e == job[w].event
<1>1. /\ pc[w] # "idle" /\ job[w] \in Job /\ e \in Event
      /\ job[w].token \in Nat
  BY DEF Unrecorded, IInv, TypeOK, DatabaseError, Crash, DirectoryTimesOut,
         OpenMail, SendCredentialEmail, Job
<1>2. /\ UNCHANGED <<row, account, gate, claims, calls>>
      /\ \A v \in Worker \ {w} : pc'[v] = pc[v] /\ job'[v] = job[v]
      /\ \/ pc'[w] = "idle"
         \/ pc'[w] = "fail" /\ job'[w] = job[w]
         \/ /\ pc[w] = "mail" /\ pc'[w] = "smtp" /\ job'[w] = job[w]
            /\ Owns(w) /\ inbox' = inbox
      /\ \/ inbox' = inbox
         \/ /\ pc[w] = "smtp"
            /\ inbox' = [inbox EXCEPT ![e] = job[w].token]
  <2>1. CASE DatabaseError(w)
    BY <2>1 DEF IInv, TypeOK, DatabaseError, Go, Rest
  <2>2. CASE Crash(w)
    BY <2>2 DEF IInv, TypeOK, Crash, Rest
  <2>3. CASE DirectoryTimesOut(w)
    BY <2>3 DEF IInv, TypeOK, DirectoryTimesOut, Go
  <2>4. CASE OpenMail(w)
    BY <2>4 DEF IInv, TypeOK, OpenMail, MayOperate, Go, Rest
  <2>5. CASE SendCredentialEmail(w) /\ UNCHANGED row
    <3>1. ASSUME row' = MarkCredentialDelivery(w, "delivered") PROVE FALSE
      <4>1. Owns(w) /\ pc[w] = "smtp"
        BY <1>1, <2>5
           DEF IInv, LockKeepsClaim, Holding, SendCredentialEmail
      <4>2. row[e].delivery = "pending"
        BY <1>1, <4>1 DEF IInv, OwnerView
      <4>3. row'[e].delivery = "delivered"
        BY <1>1, <3>1, <4>1 DEF MarkCredentialDelivery, IInv, TypeOK, Row
      <4> QED
        BY <2>5, <4>2, <4>3
    <3> QED
      BY <2>5, <3>1 DEF IInv, TypeOK, SendCredentialEmail, Go
  <2> QED
    BY <2>1, <2>2, <2>3, <2>4, <2>5 DEF Unrecorded
<1>3. \A v \in Worker : pc'[v] # "idle" =>
        /\ job'[v] = job[v] /\ pc[v] # "idle"
        /\ job[v].event \in Event
        /\ Owns(v)' <=> Owns(v)
  BY <1>1, <1>2 DEF Owns, IInv, TypeOK, Job
<1>4. \A x \in Event :
        \/ inbox'[x] = inbox[x]
        \/ /\ x = e /\ pc[w] = "smtp" /\ Owns(w) /\ pc'[w] # "smtp"
           /\ inbox'[x] = job[w].token
           /\ row[x].delivery = "pending"
  <2>1. pc[w] = "smtp" => Owns(w) /\ row[e].delivery = "pending"
    BY <1>1 DEF IInv, LockKeepsClaim, Holding, OwnerView
  <2> QED
    BY <1>1, <1>2, <2>1 DEF IInv, TypeOK
<1>5. Tokens'
  <2>1. \A x \in Event : inbox'[x] <= claims[x]
    BY <1>1, <1>4 DEF IInv, TypeOK, Tokens
  <2> QED
    BY <1>2, <1>3, <2>1 DEF IInv, Tokens
<1>6. LockKeepsClaim'
  BY <1>2, <1>3 DEF IInv, LockKeepsClaim, Holding
<1>7. OwnerView'
  BY <1>2, <1>3 DEF IInv, OwnerView
<1>8. CallsAreCounted'
  BY <1>2, <1>3 DEF IInv, CallsAreCounted
<1>9. CredentialInFlight'
  <2>1. \A x \in Event : Quiet(x)' => gate'[x] = Null
    BY <1>2 DEF IInv, CredentialInFlight, Quiet
  <2>2. ASSUME NEW v \in Worker, Owns(v)',
               pc'[v] \in {"begin", "directory", "mail", "smtp"}
        PROVE  inbox'[job[v].event] = inbox[job[v].event]
    <3>1. job[v].event \in Event /\ Owns(v) /\ pc[v] # "idle"
      BY <1>3, <2>2
    <3>2. CASE inbox' = inbox
      BY <3>2
    <3>3. CASE inbox' # inbox
      <4>1. pc[w] = "smtp" /\ Owns(w) /\ pc'[w] \in {"idle", "fail"}
        BY <1>1, <1>2, <3>3 DEF IInv, LockKeepsClaim, Holding
      <4>2. v # w
        BY <2>2, <4>1
      <4>3. job[v].event # e
        BY <1>1, <3>1, <4>1, <4>2, OneOwner DEF IInv
      <4> QED
        BY <1>4, <3>1, <4>3
    <3> QED
      BY <3>2, <3>3
  <2> QED
    BY <1>2, <1>3, <2>1, <2>2 DEF IInv, CredentialInFlight
<1>10. (ChosenIsUsed /\ ForeignIsUntold /\ OwedIsNotCompleted /\ CallsAreBounded)'
  BY <1>2
     DEF IInv, ChosenIsUsed, ForeignIsUntold, OwedIsNotCompleted, CallsAreBounded
<1>11. MailedIsCurrent'
  BY <1>2, <1>4 DEF IInv, MailedIsCurrent
<1> QED
  BY <1>5, <1>6, <1>7, <1>8, <1>9, <1>10, <1>11 DEF IInv

\* A worker asks for its directory call, and the gate admits it.
LEMMA CallingKeepsInv ==
  ASSUME IInv, TypeOK', NEW w \in Worker,
         OpenDirectoryCall(w) \/ DirectoryStarts(w)
  PROVE  IInv'
<1> DEFINE e == job[w].event
<1>1. /\ pc[w] \in {"begin", "directory"}
      /\ job[w] \in Job /\ e \in Event /\ calls[e] \in Nat
  BY DEF OpenDirectoryCall, DirectoryStarts, IInv, TypeOK, Job
<1>2. /\ UNCHANGED <<row, account, inbox, claims>>
      /\ \A v \in Worker \ {w} : pc'[v] = pc[v] /\ job'[v] = job[v]
      /\ \/ pc'[w] = "idle"
         \/ Owns(w) /\ pc'[w] = "directory" /\ job'[w] = job[w]
      /\ \/ calls' = calls
         \/ pc[w] = "begin" /\ Owns(w) /\ calls' = [calls EXCEPT ![e] = @ + 1]
      /\ \/ gate' = gate
         \/ Owns(w) /\ gate' = [gate EXCEPT ![e] = job[w].token]
  <2>1. CASE OpenDirectoryCall(w)
    BY <2>1 DEF OpenDirectoryCall, MayOperate, Go, Rest, IInv, TypeOK
  <2>2. CASE DirectoryStarts(w)
    BY <2>2 DEF DirectoryStarts, IInv, LockKeepsClaim, Holding
  <2> QED
    BY <2>1, <2>2
<1>3. \A v \in Worker : pc'[v] # "idle" =>
        /\ job'[v] = job[v] /\ pc[v] # "idle"
        /\ job[v].event \in Event
        /\ Owns(v)' <=> Owns(v)
  BY <1>1, <1>2 DEF Owns, IInv, TypeOK, Job
<1>4. Owns(w) =>
        /\ row[e].status = "processing" /\ row[e].delivery # "delivered"
        /\ job[w].attempts = row[e].attempts
        /\ job[w].delivery = row[e].delivery
        /\ inbox[e] < job[w].token
        /\ pc[w] = "begin" => /\ row[e].attempts < MaxAttempts
                              /\ calls[e] <= row[e].attempts
  BY <1>1 DEF IInv, OwnerView, CredentialInFlight, CallsAreCounted, Owns
<1>5. \A v \in Worker \ {w} : pc[v] # "idle" /\ Owns(v) /\ Owns(w)
        => job[v].event # e
  BY <1>1, OneOwner DEF IInv
<1>6. \A x \in Event :
        \/ calls'[x] = calls[x]
        \/ /\ x = e /\ Owns(w) /\ calls'[x] = calls[x] + 1
           /\ row[x].status = "processing"
           /\ calls'[x] <= row[x].attempts + 1
           /\ calls'[x] <= MaxAttempts
  <2>1. row[e].attempts \in Nat
    BY <1>1 DEF IInv, TypeOK, Row
  <2> QED
    BY <1>1, <1>2, <1>4, <2>1, BoundsAssumption DEF IInv, TypeOK
<1>7. (Tokens /\ LockKeepsClaim)'
  BY <1>2, <1>3 DEF IInv, Tokens, LockKeepsClaim, Holding
<1>8. OwnerView'
  BY <1>2, <1>3, <1>4 DEF IInv, OwnerView
<1>9. CallsAreCounted'
  <2>1. \A x \in Event :
          /\ row'[x].status = "processing" => calls'[x] <= row'[x].attempts + 1
          /\ row'[x].status \notin {"processing", "provisioned"}
               => calls'[x] <= row'[x].attempts
    BY <1>2, <1>6 DEF IInv, CallsAreCounted
  <2>2. ASSUME NEW v \in Worker, pc'[v] \in {"reap", "begin"}, Owns(v)'
        PROVE  calls'[job'[v].event] <= job'[v].attempts
    <3>1. /\ v # w /\ pc'[v] = pc[v] /\ job'[v] = job[v] /\ Owns(v)
          /\ job[v].event \in Event
      BY <1>2, <1>3, <2>2
    <3>2. calls'[job[v].event] = calls[job[v].event]
      BY <1>5, <1>6, <2>2, <3>1
    <3> QED
      BY <2>2, <3>1, <3>2 DEF IInv, CallsAreCounted
  <2> QED
    BY <2>1, <2>2 DEF CallsAreCounted
<1>10. CredentialInFlight'
  <2>1. \A x \in Event : Quiet(x)' => gate'[x] = Null
    BY <1>1, <1>2, <1>4 DEF IInv, TypeOK, CredentialInFlight, Quiet
  <2>2. ASSUME NEW v \in Worker, pc'[v] \in {"mail", "smtp", "finish"}, Owns(v)'
        PROVE  gate'[job'[v].event] = Null
    <3>1. /\ v # w /\ pc'[v] = pc[v] /\ job'[v] = job[v] /\ Owns(v)
          /\ job[v].event \in Event
      BY <1>2, <1>3, <2>2
    <3>2. gate'[job[v].event] = gate[job[v].event]
      BY <1>1, <1>2, <1>5, <2>2, <3>1 DEF IInv, TypeOK
    <3> QED
      BY <2>2, <3>1, <3>2 DEF IInv, CredentialInFlight
  <2>3. \A v \in Worker : pc'[v] # "idle" /\ Owns(v)' =>
          LET x == job'[v].event IN
          /\ pc'[v] \in {"begin", "directory", "mail", "smtp"}
               => inbox'[x] < job'[v].token
          /\ pc'[v] \in {"mail", "smtp"}
               => account'[x].password = job'[v].token
    BY <1>2, <1>3, <1>4 DEF IInv, CredentialInFlight
  <2> QED
    BY <2>1, <2>2, <2>3 DEF CredentialInFlight
<1>11. (ChosenIsUsed /\ ForeignIsUntold
        /\ OwedIsNotCompleted /\ MailedIsCurrent)'
  BY <1>2
     DEF IInv, ChosenIsUsed, ForeignIsUntold, OwedIsNotCompleted, MailedIsCurrent
<1>12. CallsAreBounded'
  BY <1>6 DEF IInv, CallsAreBounded
<1> QED
  BY <1>7, <1>8, <1>9, <1>10, <1>11, <1>12 DEF IInv

\* The receipt is recorded by the owner, for the password in force.
LEMMA ReceiptKeepsInv ==
  ASSUME IInv, TypeOK', NEW w \in Worker, SendCredentialEmail(w),
         ~UNCHANGED row
  PROVE  IInv'
<1> DEFINE e == job[w].event
<1>1. /\ pc[w] = "smtp" /\ job[w] \in Job /\ e \in Event /\ Owns(w)
      /\ row[e] \in Row
  BY DEF SendCredentialEmail, IInv, TypeOK, Job, LockKeepsClaim, Holding
<1>2. /\ row[e].status = "processing"
      /\ gate[e] = Null /\ account[e].password = job[w].token
      /\ job[w].token \in 1 .. claims[e]
  BY <1>1 DEF IInv, CredentialInFlight, Tokens, Owns
<1>3. /\ pc' = [pc EXCEPT ![w] = "finish"]
      /\ inbox' = [inbox EXCEPT ![e] = job[w].token]
      /\ row' = MarkCredentialDelivery(w, "delivered")
      /\ UNCHANGED <<account, gate, job, claims, calls>>
  BY DEF SendCredentialEmail, Go
<1>4. /\ pc'[w] = "finish"
      /\ \A v \in Worker \ {w} : pc'[v] = pc[v]
      /\ inbox'[e] = job[w].token
      /\ \A x \in Event \ {e} : inbox'[x] = inbox[x] /\ row'[x] = row[x]
      /\ row'[e].status = row[e].status /\ row'[e].token = row[e].token
      /\ row'[e].attempts = row[e].attempts
      /\ row'[e].delivery = "delivered"
  BY <1>1, <1>3 DEF MarkCredentialDelivery, IInv, TypeOK, Row
<1>5. \A v \in Worker : pc'[v] # "idle" =>
        /\ pc[v] # "idle"
        /\ job[v].event \in Event
        /\ Owns(v)' <=> Owns(v)
        /\ v # w /\ Owns(v) => job[v].event # e
  <2>1. SUFFICES ASSUME NEW v \in Worker, pc'[v] # "idle"
                 PROVE  /\ pc[v] # "idle"
                        /\ job[v].event \in Event
                        /\ Owns(v)' <=> Owns(v)
                        /\ v # w /\ Owns(v) => job[v].event # e
    OBVIOUS
  <2>2. pc[v] # "idle" /\ job[v].event \in Event
    BY <1>1, <1>4, <2>1 DEF IInv, TypeOK, Job
  <2>3. Owns(v)' <=> Owns(v)
    BY <1>3, <1>4, <2>2 DEF Owns
  <2>4. v # w /\ Owns(v) => job[v].event # e
    BY <1>1, <2>2, OneOwner DEF IInv
  <2> QED
    BY <2>2, <2>3, <2>4
<1>6. (Tokens /\ LockKeepsClaim)'
  <2>1. \A x \in Event : row'[x].token = row[x].token /\ inbox'[x] <= claims[x]
    BY <1>2, <1>4 DEF IInv, Tokens
  <2> QED
    BY <1>3, <1>4, <1>5, <2>1 DEF IInv, Tokens, LockKeepsClaim, Holding
<1>7. OwnerView'
  <2>1. \A v \in Worker : pc'[v] # "idle" /\ Owns(v)' =>
          row'[job[v].event] = row[job[v].event] \/ v = w
    BY <1>4, <1>5
  <2>2. job[w].attempts = row[e].attempts
    BY <1>1 DEF IInv, OwnerView
  <2> QED
    BY <1>3, <1>4, <1>5, <2>1, <2>2 DEF IInv, OwnerView
<1>8. CallsAreCounted'
  BY <1>2, <1>3, <1>4, <1>5 DEF IInv, CallsAreCounted
<1>9. CredentialInFlight'
  BY <1>2, <1>3, <1>4, <1>5 DEF IInv, CredentialInFlight, Quiet
<1>10. (ChosenIsUsed /\ ForeignIsUntold /\ CallsAreBounded)'
  BY <1>3 DEF IInv, ChosenIsUsed, ForeignIsUntold, CallsAreBounded
<1>11. (OwedIsNotCompleted /\ MailedIsCurrent)'
  BY <1>2, <1>3, <1>4 DEF IInv, OwedIsNotCompleted, MailedIsCurrent, Null
<1> QED
  BY <1>6, <1>7, <1>8, <1>9, <1>10, <1>11 DEF IInv

\* A claim gives the row a token nobody else has.
LEMMA ClaimKeepsInv ==
  ASSUME IInv, TypeOK', NEW w \in Worker, NEW e \in Event, ClaimNext(w, e)
  PROVE  IInv'
<1> DEFINE r == Claimed(e)
<1>1. /\ row[e] \in Row /\ claims[e] \in Nat
      /\ pc[w] = "idle" /\ ~Locked(e)
      /\ row[e].status \in {"pending", "failed", "processing"}
  BY DEF ClaimNext, IInv, TypeOK, Due, LeaseExpired
<1>2. /\ r.status = "processing" /\ r.token = claims[e] + 1
      /\ r.delivery = row[e].delivery
      /\ r.attempts = IF row[e].status = "processing"
                      THEN row[e].attempts + 1 ELSE row[e].attempts
  BY <1>1 DEF Claimed, Row
<1>3. /\ row'[e] = r /\ claims'[e] = claims[e] + 1
      /\ \A x \in Event \ {e} : row'[x] = row[x] /\ claims'[x] = claims[x]
      /\ \A v \in Worker \ {w} : pc'[v] = pc[v] /\ job'[v] = job[v]
      /\ job'[w].event = e /\ job'[w].token = claims[e] + 1
      /\ job'[w].attempts = r.attempts /\ job'[w].delivery = row[e].delivery
      /\ pc'[w] = FirstStep(r)
      /\ UNCHANGED <<account, gate, inbox, calls>>
  BY DEF ClaimNext, IInv, TypeOK, Go
<1>4. \A v \in Worker \ {w} : pc'[v] # "idle" =>
        /\ job[v].event \in Event /\ job[v].token <= claims[job[v].event]
        /\ job[v].token \in Nat
        /\ Owns(v)' => Owns(v) /\ job[v].event # e
  BY <1>1, <1>2, <1>3 DEF IInv, TypeOK, Tokens, Owns, Job
<1>5. Tokens'
  <2>1. \A x \in Event : /\ row'[x].token <= claims'[x]
                         /\ inbox'[x] <= claims'[x]
    BY <1>2, <1>3 DEF IInv, TypeOK, Tokens
  <2>2. \A v \in Worker : pc'[v] # "idle" =>
          job'[v].token \in 1 .. claims'[job'[v].event]
    BY <1>1, <1>3, <1>4 DEF IInv, TypeOK, Tokens
  <2>3. ASSUME NEW v \in Worker, NEW u \in Worker, v # u, pc'[v] # "idle",
               pc'[u] # "idle", job'[v].event = job'[u].event
        PROVE  job'[v].token # job'[u].token
    <3>1. CASE v # w /\ u # w
      BY <1>3, <2>3, <3>1 DEF IInv, Tokens
    <3>2. CASE v = w \/ u = w
      BY <1>1, <1>3, <1>4, <2>3, <3>2
    <3> QED
      BY <3>1, <3>2
  <2> QED
    BY <2>1, <2>2, <2>3 DEF Tokens
<1>6. FirstStep(r) \in {"finish", "reap", "begin"}
  BY DEF FirstStep
<1>7. LockKeepsClaim'
  <2>1. SUFFICES ASSUME NEW v \in Worker, Holding(v)' PROVE Owns(v)'
    BY DEF LockKeepsClaim
  <2>2. v # w /\ pc'[v] = pc[v] /\ job'[v] = job[v] /\ Holding(v)
    BY <1>3, <1>6, <2>1 DEF Holding
  <2>3. job[v].event # e /\ Owns(v) /\ job[v].event \in Event
    BY <1>1, <2>2 DEF Locked, On, Holding, IInv, TypeOK, LockKeepsClaim, Job
  <2> QED
    BY <1>3, <2>2, <2>3 DEF Owns
<1>8. OwnerView'
  <2>1. ASSUME NEW v \in Worker \ {w}, pc'[v] # "idle", Owns(v)'
        PROVE  /\ Owns(v) /\ pc'[v] = pc[v] /\ job'[v] = job[v]
               /\ row'[job[v].event] = row[job[v].event]
    BY <1>3, <1>4, <2>1
  <2>2. /\ pc'[w] \in {"reap", "begin"} => row[e].delivery # "delivered"
        /\ pc'[w] = "begin" => r.attempts < MaxAttempts
        /\ pc'[w] = "finish" => row[e].delivery = "delivered"
    <3>1. r.attempts \in Nat
      BY <1>1, <1>2 DEF Row
    <3> QED
      BY <1>2, <1>3, <3>1, BoundsAssumption DEF FirstStep
  <2> QED
    BY <1>2, <1>3, <1>6, <2>1, <2>2 DEF IInv, OwnerView
<1>9. CallsAreCounted'
  <2>1. r.attempts \in Nat /\ calls[e] \in Nat /\ calls[e] <= r.attempts
    <3>1. row[e].attempts \in Nat /\ calls[e] \in Nat
      BY <1>1 DEF IInv, TypeOK, Row
    <3>2. /\ row[e].status = "processing" => calls[e] <= row[e].attempts + 1
          /\ row[e].status # "processing" => calls[e] <= row[e].attempts
      BY <1>1 DEF IInv, CallsAreCounted
    <3> QED
      BY <1>2, <3>1, <3>2
  <2>2. \A x \in Event :
          /\ row'[x].status = "processing" => calls'[x] <= row'[x].attempts + 1
          /\ row'[x].status \notin {"processing", "provisioned"}
               => calls'[x] <= row'[x].attempts
    BY <1>2, <1>3, <2>1 DEF IInv, CallsAreCounted
  <2>3. \A v \in Worker : pc'[v] \in {"reap", "begin"} /\ Owns(v)'
          => calls'[job'[v].event] <= job'[v].attempts
    BY <1>3, <1>4, <2>1 DEF IInv, CallsAreCounted
  <2> QED
    BY <2>2, <2>3 DEF CallsAreCounted
<1>10. CredentialInFlight'
  <2>1. \A x \in Event : Quiet(x)' => gate'[x] = Null
    BY <1>2, <1>3 DEF IInv, CredentialInFlight, Quiet
  <2>2. inbox[e] < claims[e] + 1
    BY <1>1 DEF IInv, TypeOK, Tokens
  <2>3. FirstStep(r) = "finish" => gate[e] = Null
    BY <1>2 DEF FirstStep, IInv, CredentialInFlight, Quiet
  <2> QED
    BY <1>3, <1>4, <1>6, <2>1, <2>2, <2>3 DEF IInv, CredentialInFlight
<1>11. (ChosenIsUsed /\ ForeignIsUntold /\ CallsAreBounded)'
  BY <1>3 DEF IInv, ChosenIsUsed, ForeignIsUntold, CallsAreBounded
<1>12. (OwedIsNotCompleted /\ MailedIsCurrent)'
  BY <1>2, <1>3 DEF IInv, OwedIsNotCompleted, MailedIsCurrent
<1> QED
  BY <1>5, <1>7, <1>8, <1>9, <1>10, <1>11, <1>12 DEF IInv

\* What worker w, waiting for the call on e, makes of its answer when the
\* call leaves password p in force.
AnswerTaken(w, e, p) ==
  /\ pc[w] = "directory" /\ job[w].event = e /\ Owns(w)
  /\ \A v \in Worker \ {w} : pc'[v] = pc[v]
  /\ \A x \in Event \ {e} : row'[x] = row[x]
  /\ row'[e].status = row[e].status
  /\ row'[e].token = row[e].token
  /\ row'[e].attempts = row[e].attempts
  /\ \/ /\ row'[e] = row[e]
        /\ \/ pc'[w] = "fail"
           \/ pc'[w] = "finish" /\ row[e].delivery # "pending"
     \/ /\ row'[e].delivery = "pending"
        /\ pc'[w] = "mail"
        /\ p = job[w].token

\* What is left of a call that ends: the account as one of the outcomes has
\* it, and the step of the waiting worker, if any.
LEMMA DirectoryEndsEffect ==
  ASSUME IInv, NEW e \in Event, DirectoryEnds(e)
  PROVE  \E out \in Create(account[e], gate[e]) :
           /\ account' = [account EXCEPT ![e] = out.account]
           /\ \/ UNCHANGED <<row, pc>>
              \/ \E w \in Worker : AnswerTaken(w, e, out.account.password)
<1>1. PICK out \in Create(account[e], gate[e]) :
        /\ account' = [account EXCEPT ![e] = out.account]
        /\ \/ \E w \in Worker : Waiting(w, e) /\ TakeAnswer(w, out.answer)
           \/ UNCHANGED <<row, pc, faults>>
  BY DEF DirectoryEnds
<1>2. \/ UNCHANGED <<row, pc>>
      \/ \E w \in Worker : AnswerTaken(w, e, out.account.password)
  <2>1. SUFFICES ASSUME NEW w \in Worker, Waiting(w, e),
                        TakeAnswer(w, out.answer)
                 PROVE  AnswerTaken(w, e, out.account.password)
    BY <1>1
  <2>2. /\ pc[w] = "directory" /\ job[w].event = e /\ job[w].token = gate[e]
        /\ Owns(w)
    BY <2>1 DEF Waiting, On, IInv, LockKeepsClaim, Holding
  <2>3. /\ row \in [Event -> Row] /\ row[e] \in Row /\ pc \in [Worker -> Step]
        /\ account[e] \in Account /\ gate[e] \in Nat
        /\ job[w].delivery = row[e].delivery
    BY <2>2 DEF IInv, TypeOK, OwnerView
  <2>4. CASE out.answer = "password" /\ row' = MarkCredentialDelivery(w, "pending")
             /\ Go(w, "mail")
    <3>1. out.account.password = gate[e]
      BY <2>3, <2>4, CreateAnswersItsPassword
    <3>2. row' = [row EXCEPT ![e].delivery = "pending"]
      BY <2>2, <2>4 DEF MarkCredentialDelivery
    <3>3. /\ row'[e].status = row[e].status /\ row'[e].token = row[e].token
          /\ row'[e].attempts = row[e].attempts
          /\ row'[e].delivery = "pending"
          /\ \A x \in Event \ {e} : row'[x] = row[x]
      BY <2>3, <3>2 DEF Row
    <3>4. pc'[w] = "mail" /\ \A v \in Worker \ {w} : pc'[v] = pc[v]
      BY <2>3, <2>4 DEF Go
    <3> QED
      BY <2>2, <3>1, <3>3, <3>4 DEF AnswerTaken
  <2>5. CASE UNCHANGED row
             /\ (Go(w, "fail") \/ Go(w, WithoutPassword(w)))
    <3>1. \A v \in Worker \ {w} : pc'[v] = pc[v]
      BY <2>3, <2>5 DEF Go
    <3>2. \/ pc'[w] = "fail"
          \/ pc'[w] = "finish" /\ row[e].delivery # "pending"
      BY <2>3, <2>5 DEF Go, WithoutPassword
    <3> QED
      BY <2>2, <2>5, <3>1, <3>2 DEF AnswerTaken
  <2> QED
    BY <2>1, <2>4, <2>5 DEF TakeAnswer
<1> QED
  BY <1>1, <1>2

\* A directory call ends, for the worker that waits for it or for nobody.
LEMMA DirectoryEndsKeepsInv ==
  ASSUME IInv, TypeOK', NEW e \in Event, DirectoryEnds(e)
  PROVE  IInv'
<1>1. PICK out \in Create(account[e], gate[e]) :
        /\ account' = [account EXCEPT ![e] = out.account]
        /\ \/ UNCHANGED <<row, pc>>
           \/ \E w \in Worker : AnswerTaken(w, e, out.account.password)
  BY DirectoryEndsEffect
<1>2. /\ gate[e] # Null /\ gate'[e] = Null
      /\ account'[e] = out.account
      /\ \A x \in Event \ {e} : account'[x] = account[x] /\ gate'[x] = gate[x]
      /\ UNCHANGED <<inbox, job, claims, calls>>
  BY <1>1 DEF DirectoryEnds, IInv, TypeOK
<1>3. row[e].delivery # "delivered"
  BY <1>2 DEF IInv, CredentialInFlight, Quiet
<1>4. ASSUME NEW v \in Worker, pc[v] \in {"mail", "smtp", "finish"}, Owns(v)
      PROVE  job[v].event # e
  BY <1>2, <1>4 DEF IInv, CredentialInFlight
<1>5. \/ UNCHANGED <<row, pc>>
      \/ \E w \in Worker : AnswerTaken(w, e, out.account.password)
  BY <1>1
<1>6. \A v \in Worker : pc'[v] # "idle" =>
        /\ pc[v] # "idle"
        /\ job[v].event \in Event
        /\ Owns(v)' <=> Owns(v)
  BY <1>2, <1>5 DEF AnswerTaken, Owns, IInv, TypeOK, Job
<1>7. \A x \in Event : /\ row'[x].status = row[x].status
                       /\ row'[x].token = row[x].token
                       /\ row'[x].attempts = row[x].attempts
                       /\ \/ row'[x].delivery = row[x].delivery
                          \/ /\ x = e /\ row'[x].delivery = "pending"
                             /\ row[x].status = "processing"
  BY <1>5 DEF AnswerTaken, Owns
<1>8. Tokens'
  BY <1>2, <1>6, <1>7 DEF IInv, Tokens
<1>9. LockKeepsClaim'
  <2>1. \A v \in Worker : Holding(v)' => Owns(v)
    BY <1>5 DEF AnswerTaken, IInv, LockKeepsClaim, Holding
  <2> QED
    BY <1>6, <2>1 DEF LockKeepsClaim, Holding
<1>10. OwnerView'
  <2>1. CASE UNCHANGED <<row, pc>>
    BY <1>2, <1>6, <2>1 DEF IInv, OwnerView
  <2>2. ASSUME NEW w \in Worker, AnswerTaken(w, e, out.account.password)
        PROVE  OwnerView'
    <3>1. ASSUME NEW v \in Worker \ {w}, pc'[v] # "idle", Owns(v)'
          PROVE  pc'[v] = pc[v] /\ row'[job[v].event] = row[job[v].event]
      <4>1. job[v].event # e
        BY <1>6, <2>2, <3>1, OneOwner DEF AnswerTaken, IInv
      <4> QED
        BY <1>6, <2>2, <3>1, <4>1 DEF AnswerTaken
    <3> QED
      BY <1>2, <1>6, <2>2, <3>1 DEF AnswerTaken, IInv, OwnerView
  <2> QED
    BY <1>5, <2>1, <2>2
<1>11. CallsAreCounted'
  <2>1. \A v \in Worker : pc'[v] \in {"reap", "begin"} => pc[v] = pc'[v]
    BY <1>5 DEF AnswerTaken
  <2> QED
    BY <1>2, <1>6, <1>7, <2>1 DEF IInv, CallsAreCounted
<1>12. CredentialInFlight'
  <2>1. \A x \in Event : Quiet(x)' => gate'[x] = Null
    BY <1>2, <1>7 DEF IInv, CredentialInFlight, Quiet
  <2>2. ASSUME NEW v \in Worker, Owns(v)',
               pc'[v] \in {"begin", "directory", "mail", "smtp"}
        PROVE  inbox[job[v].event] < job[v].token
    <3>1. pc[v] \in {"begin", "directory", "mail", "smtp"} /\ Owns(v)
      BY <1>5, <1>6, <2>2 DEF AnswerTaken
    <3> QED
      BY <3>1 DEF IInv, CredentialInFlight
  <2>3. ASSUME NEW v \in Worker, Owns(v)', pc'[v] \in {"mail", "smtp", "finish"}
        PROVE  /\ gate'[job[v].event] = Null
               /\ pc'[v] # "finish" =>
                    account'[job[v].event].password = job[v].token
    <3>1. Owns(v) /\ job[v].event \in Event
      BY <1>6, <2>3
    <3>2. CASE pc[v] = pc'[v]
      <4>1. pc[v] # "idle" /\ job[v].event # e
        BY <1>4, <2>3, <3>1, <3>2
      <4> QED
        BY <1>2, <2>3, <3>1, <3>2, <4>1 DEF IInv, CredentialInFlight
    <3>3. CASE pc[v] # pc'[v]
      BY <1>2, <1>5, <2>3, <3>3 DEF AnswerTaken
    <3> QED
      BY <3>2, <3>3
  <2> QED
    BY <1>2, <2>1, <2>2, <2>3 DEF CredentialInFlight
<1>13. (ChosenIsUsed /\ ForeignIsUntold)'
  <2>1. account[e] \in Account /\ gate[e] \in Nat
    BY DEF IInv, TypeOK
  <2>2. out.account.password = Chosen
          => out.account.phase = "ready" /\ ~out.account.mustChange
    BY <2>1, CreateKeepsChosen DEF IInv, ChosenIsUsed
  <2>3. ~out.account.owned => out.account.password = Unknown
    BY <2>1, CreateKeepsForeign DEF IInv, ForeignIsUntold
  <2> QED
    BY <1>2, <2>2, <2>3 DEF IInv, ChosenIsUsed, ForeignIsUntold
<1>14. (OwedIsNotCompleted /\ CallsAreBounded)'
  BY <1>2, <1>7 DEF IInv, OwedIsNotCompleted, CallsAreBounded
<1>15. MailedIsCurrent'
  BY <1>2, <1>3, <1>7 DEF IInv, MailedIsCurrent
<1> QED
  BY <1>8, <1>9, <1>10, <1>11, <1>12, <1>13, <1>14, <1>15 DEF IInv

\* IInv is inductive.
LEMMA NextInv == IInv /\ [Next]_vars => IInv'
<1> SUFFICES ASSUME IInv, [Next]_vars PROVE IInv'
  OBVIOUS
<1>1. TypeOK'
  BY NextType DEF IInv
<1>2. ASSUME NEW e \in Event, EnqueueProvisioning(e) \/ RetryProvisioning(e)
      PROVE  IInv'
  BY <1>1, <1>2, OfficersKeepInv
<1>3. ASSUME NEW e \in Event, DirectoryEnds(e) PROVE IInv'
  BY <1>1, <1>3, DirectoryEndsKeepsInv
<1>4. ASSUME NEW e \in Event, MemberChangesPassword(e) \/ ActivateAccount(e)
      PROVE  IInv'
  BY <1>1, <1>4, MemberKeepsInv
<1>5. ASSUME NEW w \in Worker, Reap(w) \/ Fail(w) \/ Finish(w) PROVE IInv'
  BY <1>1, <1>5, SettlingKeepsInv
<1>6. ASSUME NEW w \in Worker, Unrecorded(w) PROVE IInv'
  BY <1>1, <1>6, UnrecordedKeepsInv
<1>7. ASSUME NEW w \in Worker, OpenDirectoryCall(w) \/ DirectoryStarts(w)
      PROVE  IInv'
  BY <1>1, <1>7, CallingKeepsInv
<1>8. ASSUME NEW w \in Worker, SendCredentialEmail(w), ~UNCHANGED row
      PROVE  IInv'
  BY <1>1, <1>8, ReceiptKeepsInv
<1>9. ASSUME NEW w \in Worker, NEW e \in Event, ClaimNext(w, e) PROVE IInv'
  BY <1>1, <1>9, ClaimKeepsInv
<1>10. CASE UNCHANGED vars
  BY <1>1, <1>10
     DEF IInv, vars, Tokens, LockKeepsClaim, Holding, Owns, OwnerView,
         CallsAreCounted, CredentialInFlight, Quiet, ChosenIsUsed, ForeignIsUntold,
         OwedIsNotCompleted,
         CallsAreBounded, MailedIsCurrent
<1> QED
  BY <1>2, <1>3, <1>4, <1>5, <1>6, <1>7, <1>8, <1>9, <1>10
     DEF Next, DrainStep, Unrecorded

\* The parts of IInv hold together in every reachable state.
THEOREM InvariantHolds == Spec => []IInv
BY InitInv, NextInv, PTL DEF Spec

\* The row lock excludes a second external operation on an event, and keeps
\* the claim of the worker inside it current.
THEOREM OneOperationAtATime == Spec => []OneExternalOperation
<1>1. IInv => OneExternalOperation
  <2>1. SUFFICES ASSUME IInv, NEW w \in Worker, Holding(w)
                 PROVE  /\ Owns(w)
                        /\ \A v \in Worker \ {w} :
                             ~(Holding(v) /\ On(v, job[w].event))
    BY DEF OneExternalOperation
  <2>2. \A v \in Worker : Holding(v) => Owns(v) /\ pc[v] # "idle"
    BY <2>1 DEF IInv, LockKeepsClaim, Holding
  <2> QED
    BY <2>1, <2>2, OneOwner DEF IInv, On
<1> QED
  BY <1>1, InvariantHolds, PTL

\* A delivery receipt names the password in force or one the member replaced.
THEOREM ReceiptsAreTrue == Spec => []MailedIsCurrent
<1>1. IInv => MailedIsCurrent
  BY DEF IInv
<1> QED
  BY <1>1, InvariantHolds, PTL

\* No event is completed while its credentials are owed.
THEOREM NothingOwedCompletes == Spec => []OwedIsNotCompleted
<1>1. IInv => OwedIsNotCompleted
  BY DEF IInv
<1> QED
  BY <1>1, InvariantHolds, PTL

\* Directory calls for an event stay within MAX_ATTEMPTS, whatever crashes,
\* lost answers and reclaims there are.
THEOREM CallsStayBounded == Spec => []CallsAreBounded
<1>1. IInv => CallsAreBounded
  BY DEF IInv
<1> QED
  BY <1>1, InvariantHolds, PTL
--------------------------------------------------------------------------------
(***************************************************************************)
(* The workers implement CredentialDelivery: every step of EmailDelivery   *)
(* is a step of the promise, or leaves what it speaks of alone.  The       *)
(* action properties follow from the same invariant.                       *)
(***************************************************************************)
\* What the promise sees of x.
Same(x) == /\ PhaseOf(row'[x].status) = PhaseOf(row[x].status)
           /\ row'[x].delivery = row[x].delivery
           /\ account'[x].password = account[x].password
           /\ inbox'[x] = inbox[x]

OnlyAt(e) == \A x \in Event \ {e} : Same(x)

(***************************************************************************)
(* How a change at one event is recognised as a step of the promise.       *)
(***************************************************************************)
LEMMA IsStutter ==
  ASSUME TypeOK, TypeOK', \A x \in Event : Same(x)
  PROVE  UNCHANGED Promise!vars
<1>1. inbox' = inbox
  BY DEF TypeOK, Same
<1>2. /\ [x \in Event |-> PhaseOf(row'[x].status)]
           = [x \in Event |-> PhaseOf(row[x].status)]
      /\ [x \in Event |-> row'[x].delivery] = [x \in Event |-> row[x].delivery]
      /\ [x \in Event |-> account'[x].password]
           = [x \in Event |-> account[x].password]
  BY DEF Same
<1> QED
  BY <1>1, <1>2 DEF Promise!vars

LEMMA IsPhaseChange ==
  ASSUME TypeOK, TypeOK', NEW e \in Event, OnlyAt(e),
         row'[e].delivery = row[e].delivery,
         account'[e].password = account[e].password, inbox'[e] = inbox[e],
         LET old == PhaseOf(row[e].status)
             new == PhaseOf(row'[e].status)
         IN  \/ old = "new" /\ new = "open"
             \/ old = "open" /\ new = "stopped"
             \/ old = "stopped" /\ new = "open"
             \/ old = "open" /\ new = "done" /\ row[e].delivery # "pending"
  PROVE  Promise!Next
<1>1. inbox' = inbox
  BY DEF TypeOK, OnlyAt, Same
<1>2. /\ [x \in Event |-> PhaseOf(row'[x].status)]
           = [[x \in Event |-> PhaseOf(row[x].status)]
                EXCEPT ![e] = PhaseOf(row'[e].status)]
      /\ [x \in Event |-> row'[x].delivery] = [x \in Event |-> row[x].delivery]
      /\ [x \in Event |-> account'[x].password]
           = [x \in Event |-> account[x].password]
  BY DEF OnlyAt, Same
<1>3. Promise!Queue(e) \/ Promise!Stop(e) \/ Promise!Reopen(e)
      \/ Promise!Complete(e)
  BY <1>1, <1>2 DEF Promise!Queue, Promise!Stop, Promise!Reopen, Promise!Complete
<1> QED
  BY <1>3 DEF Promise!Next

LEMMA IsIssue ==
  ASSUME TypeOK, TypeOK', NEW e \in Event, OnlyAt(e),
         PhaseOf(row'[e].status) = PhaseOf(row[e].status),
         PhaseOf(row[e].status) \in {"open", "stopped"},
         row[e].delivery # "delivered",
         row'[e].delivery \in {row[e].delivery, "pending"},
         account[e].password # Chosen, account'[e].password # Chosen,
         inbox'[e] = inbox[e]
  PROVE  Promise!Next
<1>1. inbox' = inbox
  BY DEF TypeOK, OnlyAt, Same
<1>2. /\ [x \in Event |-> PhaseOf(row'[x].status)]
           = [x \in Event |-> PhaseOf(row[x].status)]
      /\ [x \in Event |-> account'[x].password]
           = [[x \in Event |-> account[x].password]
                EXCEPT ![e] = account'[e].password]
  BY DEF OnlyAt, Same
<1>3. \/ [x \in Event |-> row'[x].delivery] = [x \in Event |-> row[x].delivery]
      \/ [x \in Event |-> row'[x].delivery]
           = [[x \in Event |-> row[x].delivery] EXCEPT ![e] = "pending"]
  BY DEF OnlyAt, Same
<1>4. Promise!Issue(e)
  BY <1>1, <1>2, <1>3 DEF Promise!Issue, Promise!Chosen, Chosen
<1> QED
  BY <1>4 DEF Promise!Next

LEMMA IsTell ==
  ASSUME TypeOK, TypeOK', NEW e \in Event, OnlyAt(e),
         PhaseOf(row'[e].status) = PhaseOf(row[e].status),
         PhaseOf(row[e].status) = "open",
         row[e].delivery = "pending",
         row'[e].delivery \in {"pending", "delivered"},
         account'[e].password = account[e].password,
         inbox'[e] = account[e].password
  PROVE  Promise!Next
<1>1. inbox' = [inbox EXCEPT ![e] = account[e].password]
  BY DEF TypeOK, OnlyAt, Same
<1>2. /\ [x \in Event |-> PhaseOf(row'[x].status)]
           = [x \in Event |-> PhaseOf(row[x].status)]
      /\ [x \in Event |-> account'[x].password]
           = [x \in Event |-> account[x].password]
  BY DEF OnlyAt, Same
<1>3. \/ [x \in Event |-> row'[x].delivery] = [x \in Event |-> row[x].delivery]
      \/ [x \in Event |-> row'[x].delivery]
           = [[x \in Event |-> row[x].delivery] EXCEPT ![e] = "delivered"]
  BY DEF OnlyAt, Same
<1>4. Promise!Tell(e)
  BY <1>1, <1>2, <1>3 DEF Promise!Tell
<1> QED
  BY <1>4 DEF Promise!Next

LEMMA IsChoice ==
  ASSUME TypeOK, TypeOK', NEW e \in Event, OnlyAt(e), row' = row, inbox' = inbox,
         inbox[e] # Unknown, account[e].password = inbox[e],
         account'[e].password = Chosen
  PROVE  Promise!Next
<1>1. [x \in Event |-> account'[x].password]
        = [[x \in Event |-> account[x].password] EXCEPT ![e] = Chosen]
  BY DEF OnlyAt, Same
<1>2. Promise!MemberChooses(e)
  BY <1>1
     DEF Promise!MemberChooses, Promise!Chosen, Promise!Unknown, Chosen, Unknown
<1> QED
  BY <1>2 DEF Promise!Next
-------------------------------------------------------------------------------
(***************************************************************************)
(* What each action does to the promise's view.                            *)
(***************************************************************************)
LEMMA InitPromised == Init => Promise!Init
BY DEF Init, Promise!Init, PhaseOf, Absent, Foreign, Promise!Unknown, Unknown, Null

LEMMA OfficersPromised ==
  ASSUME IInv, TypeOK', NEW e \in Event,
         EnqueueProvisioning(e) \/ RetryProvisioning(e)
  PROVE  [Promise!Next]_(Promise!vars)
<1>1. /\ row[e].status \in {"none", "failed", "dead_lettered"}
      /\ row'[e].status = "pending"
      /\ row'[e].delivery = row[e].delivery
      /\ \A x \in Event \ {e} : row'[x] = row[x]
      /\ UNCHANGED <<account, inbox>>
  <2>1. row[e] \in Row /\ row \in [Event -> Row]
    BY DEF IInv, TypeOK
  <2>2. CASE EnqueueProvisioning(e)
    BY <2>1, <2>2 DEF EnqueueProvisioning, Row
  <2>3. CASE RetryProvisioning(e)
    <3>1. /\ Reopened(row[e]).status = "pending"
          /\ Reopened(row[e]).delivery = row[e].delivery
      BY <2>1 DEF Reopened, Row
    <3> QED
      BY <2>1, <2>3, <3>1 DEF RetryProvisioning
  <2> QED
    BY <2>2, <2>3
<1>2. OnlyAt(e)
  BY <1>1 DEF OnlyAt, Same
<1>3. CASE row[e].status = "failed"
  <2>1. \A x \in Event : Same(x)
    BY <1>1, <1>2, <1>3 DEF OnlyAt, Same, PhaseOf
  <2> QED
    BY <2>1, IsStutter DEF IInv
<1>4. CASE row[e].status \in {"none", "dead_lettered"}
  <2>1. /\ PhaseOf(row'[e].status) = "open"
        /\ PhaseOf(row[e].status) \in {"new", "stopped"}
    BY <1>1, <1>4 DEF PhaseOf
  <2> QED
    BY <1>1, <1>2, <2>1, IsPhaseChange DEF IInv
<1> QED
  BY <1>1, <1>3, <1>4

LEMMA MemberPromised ==
  ASSUME IInv, TypeOK', NEW e \in Event,
         MemberChangesPassword(e) \/ ActivateAccount(e)
  PROVE  Promise!Next
<1>1. /\ account' = [account EXCEPT ![e] = TakenOver(account[e])]
      /\ account[e].password = inbox[e] /\ inbox[e] # Unknown
      /\ UNCHANGED <<row, inbox>>
  <2>1. CASE MemberChangesPassword(e)
    BY <2>1 DEF MemberChangesPassword, CanChange, Null, Unknown
  <2>2. CASE ActivateAccount(e)
    BY <2>2 DEF ActivateAccount, CanActivate, CanChange, IInv, MailedIsCurrent,
                Null, Unknown
  <2> QED
    BY <2>1, <2>2
<1>2. TakenOver(account[e]).password = Chosen
  BY DEF TakenOver, IInv, TypeOK, Account
<1>3. account'[e].password = Chosen /\ OnlyAt(e)
  BY <1>1, <1>2 DEF OnlyAt, Same, IInv, TypeOK
<1> QED
  BY <1>1, <1>3, IsChoice DEF IInv

LEMMA ClaimPromised ==
  ASSUME IInv, TypeOK', NEW w \in Worker, NEW e \in Event, ClaimNext(w, e)
  PROVE  UNCHANGED Promise!vars
<1>1. /\ row[e] \in Row
      /\ row[e].status \in {"pending", "failed", "processing"}
      /\ row'[e] = Claimed(e)
      /\ \A x \in Event \ {e} : row'[x] = row[x]
      /\ UNCHANGED <<account, inbox>>
  BY DEF ClaimNext, IInv, TypeOK, Due, LeaseExpired
<1>2. /\ Claimed(e).status = "processing"
      /\ Claimed(e).delivery = row[e].delivery
  BY <1>1 DEF Claimed, Row
<1>3. \A x \in Event : Same(x)
  BY <1>1, <1>2 DEF Same, PhaseOf
<1> QED
  BY <1>3, IsStutter DEF IInv

LEMMA SettlingPromised ==
  ASSUME IInv, TypeOK', NEW w \in Worker, Reap(w) \/ Fail(w) \/ Finish(w)
  PROVE  [Promise!Next]_(Promise!vars)
<1> DEFINE e == job[w].event
<1>1. /\ pc[w] # "idle" /\ e \in Event /\ row[e] \in Row
      /\ UNCHANGED <<account, inbox>>
  BY DEF IInv, TypeOK, Reap, Fail, Finish, Job
<1>2. \A x \in Event : x # e \/ ~Owns(w) => row'[x] = row[x]
  BY <1>1 DEF IInv, TypeOK, Reap, Fail, Finish, MarkFailed
<1>3. CASE ~Owns(w)
  <2>1. \A x \in Event : Same(x)
    BY <1>1, <1>2, <1>3 DEF Same
  <2> QED
    BY <2>1, IsStutter DEF IInv
<1>4. CASE Owns(w)
  <2>1. OnlyAt(e)
    BY <1>1, <1>2 DEF OnlyAt, Same
  <2>2. /\ row'[e].delivery = row[e].delivery
        /\ \/ row'[e].status \in {"failed", "dead_lettered"}
           \/ row'[e].status = "provisioned" /\ row[e].delivery # "pending"
    <3>1. CASE Finish(w)
      <4>1. row' = [row EXCEPT ![e].status = "provisioned"] /\ pc[w] = "finish"
        BY <1>4, <3>1 DEF Finish
      <4>2. row[e].delivery # "pending"
        BY <1>1, <1>4, <4>1 DEF IInv, OwnerView
      <4> QED
        BY <1>1, <4>1, <4>2 DEF IInv, TypeOK, Row
    <3>2. ASSUME NEW n \in Nat, row' = MarkFailed(w, n)
          PROVE  /\ row'[e].delivery = row[e].delivery
                 /\ row'[e].status \in {"failed", "dead_lettered"}
      BY <1>1, <1>4, <3>2 DEF MarkFailed, IInv, TypeOK, Row
    <3>3. job[w].attempts \in Nat /\ job[w].attempts + 1 \in Nat
      BY <1>1 DEF IInv, TypeOK, Job
    <3> QED
      BY <3>1, <3>2, <3>3 DEF Reap, Fail
  <2>3. PhaseOf(row[e].status) = "open"
    BY <1>4 DEF Owns, PhaseOf
  <2>4. CASE row'[e].status = "failed"
    <3>1. \A x \in Event : Same(x)
      BY <1>1, <2>1, <2>2, <2>3, <2>4 DEF OnlyAt, Same, PhaseOf
    <3> QED
      BY <3>1, IsStutter DEF IInv
  <2>5. CASE row'[e].status = "dead_lettered"
    <3>1. PhaseOf(row'[e].status) = "stopped"
      BY <2>5 DEF PhaseOf
    <3> QED
      BY <1>1, <2>1, <2>2, <2>3, <3>1, IsPhaseChange DEF IInv
  <2>6. CASE row'[e].status = "provisioned"
    <3>1. PhaseOf(row'[e].status) = "done" /\ row[e].delivery # "pending"
      BY <2>2, <2>6 DEF PhaseOf
    <3> QED
      BY <1>1, <2>1, <2>2, <2>3, <3>1, IsPhaseChange DEF IInv
  <2> QED
    BY <2>2, <2>4, <2>5, <2>6
<1> QED
  BY <1>3, <1>4

\* A mail whose receipt is lost tells the member all the same.
LEMMA UnrecordedPromised ==
  ASSUME IInv, TypeOK', NEW w \in Worker, Unrecorded(w)
  PROVE  [Promise!Next]_(Promise!vars)
<1> DEFINE e == job[w].event
<1>1. /\ pc[w] # "idle" /\ e \in Event
      /\ UNCHANGED <<row, account>>
      /\ \/ inbox' = inbox
         \/ /\ pc[w] = "smtp"
            /\ inbox' = [inbox EXCEPT ![e] = job[w].token]
  BY DEF Unrecorded, IInv, TypeOK, DatabaseError, Crash, DirectoryTimesOut,
         OpenMail, SendCredentialEmail, Job
<1>2. CASE inbox' = inbox
  <2>1. \A x \in Event : Same(x)
    BY <1>1, <1>2 DEF Same
  <2> QED
    BY <2>1, IsStutter DEF IInv
<1>3. CASE /\ pc[w] = "smtp"
           /\ inbox' = [inbox EXCEPT ![e] = job[w].token]
  <2>1. Owns(w)
    BY <1>3 DEF IInv, LockKeepsClaim, Holding
  <2>2. /\ row[e].delivery = "pending" /\ account[e].password = job[w].token
        /\ PhaseOf(row[e].status) = "open"
    BY <1>1, <1>3, <2>1
       DEF IInv, OwnerView, CredentialInFlight, Owns, PhaseOf
  <2>3. OnlyAt(e) /\ inbox'[e] = account[e].password
    BY <1>1, <1>3, <2>2 DEF OnlyAt, Same, IInv, TypeOK
  <2> QED
    BY <1>1, <2>2, <2>3, IsTell DEF IInv
<1> QED
  BY <1>1, <1>2, <1>3

LEMMA CallingPromised ==
  ASSUME IInv, TypeOK', NEW w \in Worker,
         OpenDirectoryCall(w) \/ DirectoryStarts(w)
  PROVE  UNCHANGED Promise!vars
<1>1. \A x \in Event : Same(x)
  BY DEF OpenDirectoryCall, DirectoryStarts, Same
<1> QED
  BY <1>1, IsStutter DEF IInv

LEMMA ReceiptPromised ==
  ASSUME IInv, TypeOK', NEW w \in Worker, SendCredentialEmail(w),
         ~UNCHANGED row
  PROVE  Promise!Next
<1> DEFINE e == job[w].event
<1>1. /\ pc[w] = "smtp" /\ e \in Event /\ Owns(w) /\ row[e] \in Row
  BY DEF SendCredentialEmail, IInv, TypeOK, Job, LockKeepsClaim, Holding
<1>2. /\ row[e].delivery = "pending" /\ account[e].password = job[w].token
      /\ PhaseOf(row[e].status) = "open"
  BY <1>1 DEF IInv, OwnerView, CredentialInFlight, Owns, PhaseOf
<1>3. /\ inbox' = [inbox EXCEPT ![e] = job[w].token]
      /\ row' = MarkCredentialDelivery(w, "delivered")
      /\ UNCHANGED account
  BY DEF SendCredentialEmail
<1>4. /\ row'[e].status = row[e].status /\ row'[e].delivery = "delivered"
      /\ \A x \in Event \ {e} : row'[x] = row[x]
  BY <1>1, <1>3 DEF MarkCredentialDelivery, IInv, TypeOK, Row
<1>5. OnlyAt(e) /\ inbox'[e] = account[e].password
  BY <1>1, <1>2, <1>3, <1>4 DEF OnlyAt, Same, IInv, TypeOK
<1> QED
  BY <1>1, <1>2, <1>3, <1>4, <1>5, IsTell DEF IInv

\* A call issues a password, or leaves the one in force.
LEMMA DirectoryEndsPromised ==
  ASSUME IInv, TypeOK', NEW e \in Event, DirectoryEnds(e)
  PROVE  [Promise!Next]_(Promise!vars)
<1>1. PICK out \in Create(account[e], gate[e]) :
        /\ account' = [account EXCEPT ![e] = out.account]
        /\ \/ UNCHANGED <<row, pc>>
           \/ \E w \in Worker : AnswerTaken(w, e, out.account.password)
  BY DirectoryEndsEffect
<1>2. gate[e] # Null /\ UNCHANGED inbox
  BY DEF DirectoryEnds
<1>3. /\ account[e] \in Account /\ gate[e] \in Nat
      /\ account'[e] = out.account
      /\ \A x \in Event \ {e} : account'[x] = account[x]
  BY <1>1 DEF IInv, TypeOK
<1>4. /\ \A x \in Event \ {e} : row'[x] = row[x]
      /\ row'[e].status = row[e].status
      /\ \/ row'[e].delivery = row[e].delivery
         \/ /\ row'[e].delivery = "pending"
            /\ out.account.password # Chosen
  <2>1. CASE UNCHANGED <<row, pc>>
    BY <2>1
  <2>2. CASE \E w \in Worker : AnswerTaken(w, e, out.account.password)
    BY <2>2 DEF AnswerTaken, IInv, Tokens, Chosen
  <2> QED
    BY <1>1, <2>1, <2>2
<1>5. PhaseOf(row[e].status) \in {"open", "stopped"} /\ row[e].delivery # "delivered"
  BY <1>2 DEF IInv, TypeOK, Row, Status, CredentialInFlight, Quiet, PhaseOf
<1>6. (out.account.password = Chosen) <=> (account[e].password = Chosen)
  BY <1>3, CreateKeepsChosen DEF IInv, ChosenIsUsed
<1>7. OnlyAt(e)
  BY <1>2, <1>3, <1>4 DEF OnlyAt, Same
<1>8. CASE account[e].password = Chosen
  <2>1. \A x \in Event : Same(x)
    BY <1>2, <1>3, <1>4, <1>6, <1>7, <1>8 DEF OnlyAt, Same
  <2> QED
    BY <2>1, IsStutter DEF IInv
<1>9. CASE account[e].password # Chosen
  BY <1>2, <1>3, <1>4, <1>5, <1>6, <1>7, <1>9, IsIssue DEF IInv
<1> QED
  BY <1>8, <1>9

LEMMA NextPromised ==
  ASSUME IInv, IInv', [Next]_vars
  PROVE  [Promise!Next]_(Promise!vars)
<1>1. TypeOK'
  BY DEF IInv
<1>2. ASSUME NEW e \in Event, EnqueueProvisioning(e) \/ RetryProvisioning(e)
      PROVE  [Promise!Next]_(Promise!vars)
  BY <1>1, <1>2, OfficersPromised
<1>3. ASSUME NEW e \in Event, DirectoryEnds(e)
      PROVE  [Promise!Next]_(Promise!vars)
  BY <1>1, <1>3, DirectoryEndsPromised
<1>4. ASSUME NEW e \in Event, MemberChangesPassword(e) \/ ActivateAccount(e)
      PROVE  [Promise!Next]_(Promise!vars)
  BY <1>1, <1>4, MemberPromised
<1>5. ASSUME NEW w \in Worker, Reap(w) \/ Fail(w) \/ Finish(w)
      PROVE  [Promise!Next]_(Promise!vars)
  BY <1>1, <1>5, SettlingPromised
<1>6. ASSUME NEW w \in Worker, Unrecorded(w)
      PROVE  [Promise!Next]_(Promise!vars)
  BY <1>1, <1>6, UnrecordedPromised
<1>7. ASSUME NEW w \in Worker, OpenDirectoryCall(w) \/ DirectoryStarts(w)
      PROVE  [Promise!Next]_(Promise!vars)
  BY <1>1, <1>7, CallingPromised
<1>8. ASSUME NEW w \in Worker, SendCredentialEmail(w), ~UNCHANGED row
      PROVE  [Promise!Next]_(Promise!vars)
  BY <1>1, <1>8, ReceiptPromised
<1>9. ASSUME NEW w \in Worker, NEW e \in Event, ClaimNext(w, e)
      PROVE  [Promise!Next]_(Promise!vars)
  BY <1>1, <1>9, ClaimPromised
<1>10. CASE UNCHANGED vars
  <2>1. \A x \in Event : Same(x)
    BY <1>10 DEF vars, Same
  <2> QED
    BY <1>1, <2>1, IsStutter DEF IInv
<1> QED
  BY <1>2, <1>3, <1>4, <1>5, <1>6, <1>7, <1>8, <1>9, <1>10
     DEF Next, DrainStep, Unrecorded

\* The workers keep the delivery promise: whatever workers, crashes, retries
\* and late calls do, what officers and members see is a behaviour of
\* CredentialDelivery.
THEOREM Refinement == Spec => KeepsThePromise
<1>1. Init => Promise!Init
  BY InitPromised
<1>2. IInv /\ IInv' /\ [Next]_vars => [Promise!Next]_(Promise!vars)
  BY NextPromised
<1> QED
  BY <1>1, <1>2, InvariantHolds, PTL DEF Spec, KeepsThePromise, Promise!Spec

-------------------------------------------------------------------------------
(***************************************************************************)
(* The action properties.                                                  *)
(***************************************************************************)

\* Only a directory call and the member write accounts: a call leaves an
\* account in use or of another's alone, the member replaces a password of
\* the event's.
LEMMA StepKeepsUsed ==
  ASSUME IInv, [Next]_vars, NEW e \in Event, account[e].phase = "ready",
         ~account[e].owned \/ account[e].password = Chosen
  PROVE  account'[e] = account[e]
<1>1. account[e] \in Account /\ gate[e] \in Nat /\ inbox[e] \in Nat
  BY DEF IInv, TypeOK
<1>2. ~account[e].owned \/ ~account[e].mustChange
  BY DEF IInv, ChosenIsUsed
<1>3. ASSUME NEW x \in Event, DirectoryEnds(x) PROVE account'[e] = account[e]
  <2>1. PICK out \in Create(account[x], gate[x]) :
          account' = [account EXCEPT ![x] = out.account]
    BY <1>3 DEF DirectoryEnds
  <2>2. x = e => out.account = account[e]
    BY <1>1, <1>2, CreateKeepsUsed
  <2> QED
    BY <2>1, <2>2 DEF IInv, TypeOK
<1>4. ASSUME NEW x \in Event, MemberChangesPassword(x) \/ ActivateAccount(x)
      PROVE  account'[e] = account[e]
  <2>1. /\ account' = [account EXCEPT ![x] = TakenOver(account[x])]
        /\ account[x].password = inbox[x] /\ inbox[x] # Null
    BY <1>4 DEF MemberChangesPassword, ActivateAccount, CanActivate, CanChange,
                IInv, MailedIsCurrent
  <2>2. x # e
    BY <1>1, <2>1 DEF IInv, ForeignIsUntold, Null, Unknown, Chosen
  <2> QED
    BY <2>1, <2>2 DEF IInv, TypeOK
<1>5. ASSUME UNCHANGED account PROVE account'[e] = account[e]
  BY <1>5
<1> QED
  BY <1>3, <1>4, <1>5
     DEF Next, vars, DrainStep, EnqueueProvisioning, RetryProvisioning, Reap,
         Fail, Finish, OpenDirectoryCall, DirectoryStarts, DirectoryTimesOut,
         OpenMail, SendCredentialEmail, DatabaseError, Crash, ClaimNext

\* Accounts the event did not create, and accounts in use, are never written
\* by a provisioning call.
THEOREM UsedAccountsSurvive == Spec => UsedAccountsAreKept
<1>1. IInv /\ [Next]_vars =>
        [\A e \in Event :
           LET a == account[e] IN
           a.phase = "ready" /\ (~a.owned \/ a.password = Chosen)
             => account'[e] = a]_vars
  BY StepKeepsUsed
<1> QED
  BY <1>1, InvariantHolds, PTL DEF Spec, UsedAccountsAreKept

\* What the promise allows once the receipt says delivered.
LEMMA PromiseKeepsDelivered ==
  ASSUME TypeOK, TypeOK', [Promise!Next]_(Promise!vars), NEW e \in Event,
         row[e].delivery = "delivered"
  PROVE  /\ row'[e].delivery = "delivered"
         /\ inbox'[e] = inbox[e]
         /\ account'[e].password \in {account[e].password, Chosen}
<1> DEFINE R == [x \in Event |-> row[x].delivery]
           P == [x \in Event |-> account[x].password]
<1>1. /\ R[e] = "delivered" /\ R'[e] = row'[e].delivery
      /\ P[e] = account[e].password /\ P'[e] = account'[e].password
  OBVIOUS
<1>2. CASE UNCHANGED Promise!vars
  BY <1>1, <1>2 DEF Promise!vars
<1>3. ASSUME NEW x \in Event, Promise!Issue(x)
      PROVE  R'[e] = R[e] /\ inbox'[e] = inbox[e] /\ P'[e] = P[e]
  BY <1>1, <1>3 DEF Promise!Issue
<1>4. ASSUME NEW x \in Event, Promise!Tell(x)
      PROVE  R'[e] = R[e] /\ inbox'[e] = inbox[e] /\ P'[e] = P[e]
  BY <1>1, <1>4 DEF Promise!Tell, TypeOK
<1>5. ASSUME NEW x \in Event, Promise!MemberChooses(x)
      PROVE  R'[e] = R[e] /\ inbox'[e] = inbox[e] /\ P'[e] \in {P[e], Chosen}
  BY <1>1, <1>5 DEF Promise!MemberChooses, Promise!Chosen, Chosen
<1>6. ASSUME NEW x \in Event, Promise!Complete(x) \/ Promise!Stop(x)
               \/ Promise!Reopen(x)
      PROVE  R'[e] = R[e] /\ inbox'[e] = inbox[e] /\ P'[e] = P[e]
  BY <1>6 DEF Promise!Complete, Promise!Stop, Promise!Reopen
<1>7. ASSUME NEW x \in Event, Promise!Confirm(x)
      PROVE  R'[e] = R[e] /\ inbox'[e] = inbox[e] /\ P'[e] = P[e]
  BY <1>1, <1>7 DEF Promise!Confirm
<1>8. ASSUME NEW x \in Event, Promise!Queue(x)
      PROVE  R'[e] = R[e] /\ inbox'[e] = inbox[e] /\ P'[e] = P[e]
  BY <1>1, <1>8 DEF Promise!Queue
<1> QED
  BY <1>1, <1>2, <1>3, <1>4, <1>5, <1>6, <1>7, <1>8 DEF Promise!Next

\* A recorded delivery prevents another password reset or email.
THEOREM DeliveryIsFinal == Spec => DeliveredIsFinal
<1>1. IInv /\ IInv' /\ [Next]_vars =>
        [\A e \in Event : row[e].delivery = "delivered" =>
           /\ row'[e].delivery = "delivered"
           /\ inbox'[e] = inbox[e]
           /\ account'[e].password \in {account[e].password, Chosen}]_vars
  BY NextPromised, PromiseKeepsDelivered DEF IInv
<1> QED
  BY <1>1, InvariantHolds, PTL DEF Spec, DeliveredIsFinal

\* A worker that has lost its claim moves no row.
LEMMA StaleStep ==
  ASSUME IInv, [Next]_vars, NEW w \in Worker, pc[w] # "idle", pc'[w] # pc[w],
         ~Owns(w)
  PROVE  row'[job[w].event] = row[job[w].event]
<1> DEFINE e == job[w].event
<1>1. pc \in [Worker -> Step] /\ row \in [Event -> Row] /\ e \in Event
  BY DEF IInv, TypeOK, Job
<1>2. ~Holding(w)
  BY DEF IInv, LockKeepsClaim
<1>3. ASSUME NEW v \in Worker, DrainStep(v) \/ DatabaseError(v) \/ Crash(v)
      PROVE  row'[e] = row[e]
  <2>1. v = w
    BY <1>1, <1>3
       DEF DrainStep, Reap, Fail, Finish, OpenDirectoryCall, DirectoryStarts,
           DirectoryTimesOut, OpenMail, SendCredentialEmail, DatabaseError,
           Crash, Go, Rest
  <2> QED
    BY <1>2, <1>3, <2>1
       DEF DrainStep, Reap, Fail, Finish, MarkFailed, OpenDirectoryCall,
           DirectoryStarts, DirectoryTimesOut, OpenMail, SendCredentialEmail,
           MarkCredentialDelivery, DatabaseError, Crash
<1>4. ASSUME NEW x \in Event, DirectoryEnds(x) PROVE row'[e] = row[e]
  <2>1. UNCHANGED row \/ \E v \in Worker :
          pc[v] = "directory" /\ pc'[w] = pc[w]
    <3>1. UNCHANGED pc \/ \E out \in Create(account[x], gate[x]), v \in Worker :
            pc[v] = "directory" /\ AnswerTaken(v, x, out.account.password)
      BY <1>4, DirectoryEndsEffect DEF AnswerTaken
    <3> QED
      BY <1>2, <3>1 DEF AnswerTaken, Holding
  <2> QED
    BY <2>1
<1>5. ASSUME NEW v \in Worker, NEW x \in Event, ClaimNext(v, x)
      PROVE  row'[e] = row[e]
  BY <1>1, <1>5 DEF ClaimNext, Go
<1>6. ASSUME UNCHANGED pc PROVE row'[e] = row[e]
  BY <1>6
<1> QED
  BY <1>3, <1>4, <1>5, <1>6
     DEF Next, vars, EnqueueProvisioning, RetryProvisioning,
         MemberChangesPassword, ActivateAccount

\* A stale worker cannot change a receipt or complete a newer claim.
THEOREM StaleWorkersCannotWrite == Spec => StaleWorkersAreHarmless
<1>1. IInv /\ [Next]_vars =>
        [\A w \in Worker :
           LET e == job[w].event IN
           pc[w] # "idle" /\ pc'[w] # pc[w] /\ ~Owns(w)
             => row'[e] = row[e]]_vars
  BY StaleStep
<1> QED
  BY <1>1, InvariantHolds, PTL DEF Spec, StaleWorkersAreHarmless

===============================================================================
