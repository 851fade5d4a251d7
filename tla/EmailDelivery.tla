---------------------------- MODULE EmailDelivery -----------------------------
(***************************************************************************)
(* The provisioning outbox and the worker replicas that drain it           *)
(* (src/lib/provisioning/outbox.ts, src/worker/provisioning.ts): an        *)
(* approved signup becomes an outbox row; a worker claims the row, has the *)
(* Windows API create the account or reissue its temporary password, mails *)
(* that password and completes the row.                                    *)
(*                                                                         *)
(* A worker keeps the row as it was when it claimed it (job) and rechecks  *)
(* only the claim token.  The row is locked in the database while a        *)
(* directory call ("directory") or an SMTP exchange ("smtp") is running,   *)
(* and in no other step.  Directory calls outlive the worker that made     *)
(* them: the API runs a started one to its end.                            *)
(*                                                                         *)
(* Time is abstracted: a backoff or a lease that has to elapse elapses at  *)
(* some point.  faults counts what the environment may do only finitely    *)
(* often: crashes, database errors and claims that outlive their lease.    *)
(***************************************************************************)
EXTENDS DirectoryAccount, FiniteSets

CONSTANTS Event,        \* approved signups, one outbox row each
          Worker,       \* worker replicas
          MaxAttempts,  \* MAX_ATTEMPTS of backoff.ts
          MaxFaults,    \* bound on environment faults
          MaxRetries,   \* bound on administrator retries
          NoJob         \* what an idle worker holds

ASSUME BoundsAssumption == /\ MaxAttempts \in Nat \ {0}
                           /\ MaxFaults \in Nat
                           /\ MaxRetries \in Nat

VARIABLES row,        \* row[e]: the provisioning_events row of e
          activated,  \* events with a row in account_activations
          account,    \* account[e]: the directory account of e's username
          gate,       \* gate[e]: the attempt whose directory call is running
          inbox,      \* inbox[e]: the password in the last mail sent for e
          pc, job,    \* each worker's step, and the row it claimed
          claims,     \* claims[e]: tokens handed out for e so far
          calls,      \* calls[e]: directory calls for e since it was queued
          faults, retries

vars == <<row, activated, account, gate, inbox, pc, job, claims, calls,
          faults, retries>>

Null == 0    \* SQL NULL for a token; no call in a gate; no mail in an inbox

Status == {"none", "pending", "processing", "provisioned", "failed",
           "dead_lettered"}

Row == [status   : Status,
        attempts : Nat,
        token    : Nat,
        delivery : {"null", "pending", "delivered"}]

Job == [event    : Event,
        token    : Nat,
        attempts : Nat,
        delivery : {"null", "pending", "delivered"}]

Step == {"idle", "reap", "begin", "directory", "mail", "smtp", "finish", "fail"}

TypeOK ==
  /\ row \in [Event -> Row]
  /\ activated \in SUBSET Event
  /\ account \in [Event -> Account]
  /\ gate \in [Event -> Nat]
  /\ inbox \in [Event -> Nat]
  /\ pc \in [Worker -> Step]
  /\ job \in [Worker -> Job \cup {NoJob}]
  /\ \A w \in Worker : pc[w] # "idle" => job[w] \in Job
  /\ claims \in [Event -> Nat]
  /\ calls \in [Event -> Nat]
  /\ faults \in 0 .. MaxFaults
  /\ retries \in 0 .. MaxRetries

Init ==
  /\ row = [e \in Event |-> [status |-> "none", attempts |-> 0,
                             token |-> Null, delivery |-> "null"]]
  /\ activated = {}
  /\ account \in [Event -> {Absent, Foreign}]
  /\ gate = [e \in Event |-> Null]
  /\ inbox = [e \in Event |-> Null]
  /\ pc = [w \in Worker |-> "idle"]
  /\ job = [w \in Worker |-> NoJob]
  /\ claims = [e \in Event |-> 0]
  /\ calls = [e \in Event |-> 0]
  /\ faults = 0
  /\ retries = 0
-------------------------------------------------------------------------------
On(w, e) == pc[w] # "idle" /\ job[w].event = e

\* A worker inside withProvisioningClaim holds the row lock.
Holding(w) == pc[w] \in {"directory", "smtp"}

\* Mutant: external operations run outside the transaction.
Mut_NoRowLock(e) == FALSE

Locked(e) == \E w \in Worker : Holding(w) /\ On(w, e)

Live(e) == \E w \in Worker : On(w, e) /\ job[w].token = row[e].token

\* ownedClaim: the row is still being processed under this worker's token.
Owns(w) == LET r == row[job[w].event]
           IN  r.status = "processing" /\ r.token = job[w].token

\* Mutant: withProvisioningClaim does not compare the token.
Mut_MayOperate(w) == /\ row[job[w].event].status = "processing"
                     /\ job[w].event \notin activated

\* The check of withProvisioningClaim before an external operation.
MayOperate(w) == Owns(w) /\ job[w].event \notin activated

Fault == faults < MaxFaults /\ faults' = faults + 1

Go(w, step) == pc' = [pc EXCEPT ![w] = step]

Rest(w) == /\ pc' = [pc EXCEPT ![w] = "idle"]
           /\ job' = [job EXCEPT ![w] = NoJob]
-------------------------------------------------------------------------------
(***************************************************************************)
(* Officers: approval commits together with the outbox row; a retry        *)
(* reopens a row that has failed or was given up.                          *)
(***************************************************************************)
EnqueueProvisioning(e) ==
  /\ row[e].status = "none"
  /\ row' = [row EXCEPT ![e].status = "pending"]
  /\ UNCHANGED <<activated, account, gate, inbox, pc, job, claims, calls,
                 faults, retries>>

\* Mutant: a retry gives the allowance back instead of resetting the count.
Mut_Reopened(r) == [r EXCEPT !.status = "pending", !.token = Null,
                             !.attempts = @ - MaxAttempts]

Reopened(r) == [r EXCEPT !.status = "pending", !.token = Null, !.attempts = 0]

RetryProvisioning(e) ==
  /\ row[e].status \in {"failed", "dead_lettered"}
  /\ e \notin activated
  /\ retries < MaxRetries
  /\ retries' = retries + 1
  /\ row' = [row EXCEPT ![e] = Reopened(@)]
  /\ calls' = [calls EXCEPT ![e] = 0]
  /\ UNCHANGED <<activated, account, gate, inbox, pc, job, claims, faults>>
-------------------------------------------------------------------------------
(***************************************************************************)
(* claimNext: take a due row, or one that has been in processing for more  *)
(* than five minutes, under a new token.  Rows that are locked are         *)
(* skipped.  The lease of a claim nobody works on any more runs out; that  *)
(* of a slow worker may.                                                   *)
(***************************************************************************)
Due(e) == row[e].status \in {"pending", "failed"} /\ UNCHANGED faults

\* Mutant: rows in processing are never claimed again.
Mut_LeaseExpired(e) == FALSE /\ UNCHANGED faults

LeaseExpired(e) == /\ row[e].status = "processing"
                   /\ IF Live(e) THEN Fault ELSE UNCHANGED faults

\* Mutant: a reclaim does not count as an attempt.
Mut_Claimed(e) == [row[e] EXCEPT !.status = "processing",
                                 !.token  = claims[e] + 1]

Claimed(e) == [row[e] EXCEPT
                 !.status   = "processing",
                 !.token    = claims[e] + 1,
                 !.attempts = IF row[e].status = "processing"
                              THEN @ + 1 ELSE @]

\* Mutant: the receipt is not looked at.
Mut_FirstStep(r) == IF r.attempts >= MaxAttempts THEN "reap" ELSE "begin"

\* How drainOnce goes on with the row it has claimed.
FirstStep(r) == IF r.delivery = "delivered" THEN "finish"
                ELSE IF r.attempts >= MaxAttempts THEN "reap"
                ELSE "begin"

ClaimNext(w, e) ==
  /\ pc[w] = "idle"
  /\ ~Locked(e)
  /\ e \notin activated
  /\ Due(e) \/ LeaseExpired(e)
  /\ row' = [row EXCEPT ![e] = Claimed(e)]
  /\ claims' = [claims EXCEPT ![e] = @ + 1]
  /\ job' = [job EXCEPT ![w] = [event    |-> e,
                                token    |-> claims[e] + 1,
                                attempts |-> Claimed(e).attempts,
                                delivery |-> row[e].delivery]]
  /\ Go(w, FirstStep(Claimed(e)))
  /\ UNCHANGED <<activated, account, gate, inbox, calls, retries>>
-------------------------------------------------------------------------------
\* Mutant: the update matches the id alone.
Mut_MarkFailed(w, n) ==
  [row EXCEPT ![job[w].event].status =
                 IF n >= MaxAttempts THEN "dead_lettered" ELSE "failed",
              ![job[w].event].attempts = n]

\* markFailed with the given attempt count; nothing for a lost claim.
MarkFailed(w, n) ==
  IF Owns(w)
  THEN [row EXCEPT ![job[w].event].status =
                      IF n >= MaxAttempts THEN "dead_lettered" ELSE "failed",
                   ![job[w].event].attempts = n]
  ELSE row

\* The crash-loop guard: an exhausted row is given up without another call.
Reap(w) ==
  /\ pc[w] = "reap"
  /\ row' = MarkFailed(w, job[w].attempts)
  /\ Rest(w)
  /\ UNCHANGED <<activated, account, gate, inbox, claims, calls, faults,
                 retries>>

\* The catch block of drainOnce.
Fail(w) ==
  /\ pc[w] = "fail"
  /\ row' = MarkFailed(w, job[w].attempts + 1)
  /\ Rest(w)
  /\ UNCHANGED <<activated, account, gate, inbox, claims, calls, faults,
                 retries>>

\* markProvisioned.
Finish(w) ==
  /\ pc[w] = "finish"
  /\ row' = IF Owns(w)
            THEN [row EXCEPT ![job[w].event].status = "provisioned"]
            ELSE row
  /\ Rest(w)
  /\ UNCHANGED <<activated, account, gate, inbox, claims, calls, faults,
                 retries>>

\* A database error while completing goes to the catch block; one while
\* recording a failure leaves the row in processing for a reclaim.
DatabaseError(w) ==
  /\ Fault
  /\ \/ pc[w] \in {"begin", "mail", "finish"} /\ Go(w, "fail") /\ UNCHANGED job
     \/ pc[w] \in {"reap", "fail"} /\ Rest(w)
  /\ UNCHANGED <<row, activated, account, gate, inbox, claims, calls, retries>>

\* The process dies: its transaction rolls back and its row lock goes away.
\* An SMTP exchange may or may not have been accepted.
Crash(w) ==
  /\ pc[w] # "idle"
  /\ Fault
  /\ \/ UNCHANGED inbox
     \/ /\ pc[w] = "smtp"
        /\ inbox' = [inbox EXCEPT ![job[w].event] = job[w].token]
  /\ Rest(w)
  /\ UNCHANGED <<row, activated, account, gate, claims, calls, retries>>
-------------------------------------------------------------------------------
MarkCredentialDelivery(w, status) ==
  IF Owns(w) THEN [row EXCEPT ![job[w].event].delivery = status] ELSE row

(***************************************************************************)
(* First withProvisioningClaim transaction: provisionAccount.              *)
(***************************************************************************)
OpenDirectoryCall(w) ==
  /\ pc[w] = "begin"
  /\ \/ /\ MayOperate(w)
        /\ Go(w, "directory")
        /\ calls' = [calls EXCEPT ![job[w].event] = @ + 1]
        /\ UNCHANGED job
     \/ /\ ~MayOperate(w)
        /\ Rest(w)
        /\ UNCHANGED calls
  /\ UNCHANGED <<row, activated, account, gate, inbox, claims, faults, retries>>

\* The API's gate admits the waiting request.
DirectoryStarts(w) ==
  /\ pc[w] = "directory"
  /\ gate[job[w].event] = Null
  /\ gate' = [gate EXCEPT ![job[w].event] = job[w].token]
  /\ UNCHANGED <<row, activated, account, inbox, pc, job, claims, calls, faults,
                 retries>>

Waiting(w, e) == pc[w] = "directory" /\ On(w, e) /\ job[w].token = gate[e]

\* Mutant: an existing account always counts as set up.
Mut_WithoutPassword(w) == "finish"

\* Without a password there is nothing to mail: the row is complete, unless
\* an earlier attempt noted that credentials are owed.
WithoutPassword(w) == IF job[w].delivery = "pending" THEN "fail" ELSE "finish"

\* The worker takes the answer; a password is noted before the commit.
TakeAnswer(w, answer) ==
  \/ /\ answer = "password"
     /\ row' = MarkCredentialDelivery(w, "pending")
     /\ Go(w, "mail")
     /\ UNCHANGED faults
  \/ /\ answer = "existed"
     /\ Go(w, WithoutPassword(w))
     /\ UNCHANGED <<row, faults>>
  \/ /\ answer = "error"
     /\ Go(w, "fail")
     /\ UNCHANGED <<row, faults>>
  \/ /\ answer # "error"       \* the transaction does not commit
     /\ Fault
     /\ Go(w, "fail")
     /\ UNCHANGED row

\* The running call ends; its client may be gone by then.
DirectoryEnds(e) ==
  /\ gate[e] # Null
  /\ \E out \in Create(account[e], gate[e]) :
       /\ account' = [account EXCEPT ![e] = out.account]
       /\ \/ \E w \in Worker : Waiting(w, e) /\ TakeAnswer(w, out.answer)
          \/ /\ \A w \in Worker : ~Waiting(w, e)
             /\ UNCHANGED <<row, pc, faults>>
  /\ gate' = [gate EXCEPT ![e] = Null]
  /\ UNCHANGED <<activated, inbox, job, claims, calls, retries>>

\* AbortSignal.timeout: a request still queued at the gate is cancelled, a
\* started one runs on.
DirectoryTimesOut(w) ==
  /\ pc[w] = "directory"
  /\ Go(w, "fail")
  /\ UNCHANGED <<row, activated, account, gate, inbox, job, claims, calls,
                 faults, retries>>
-------------------------------------------------------------------------------
(***************************************************************************)
(* Second withProvisioningClaim transaction: the mail and its receipt.     *)
(***************************************************************************)
OpenMail(w) ==
  /\ pc[w] = "mail"
  /\ \/ MayOperate(w) /\ Go(w, "smtp") /\ UNCHANGED job
     \/ ~MayOperate(w) /\ Rest(w)
  /\ UNCHANGED <<row, activated, account, gate, inbox, claims, calls, faults,
                 retries>>

SendCredentialEmail(w) ==
  /\ pc[w] = "smtp"
  /\ LET e == job[w].event IN
     \/ /\ inbox' = [inbox EXCEPT ![e] = job[w].token]
        /\ row' = MarkCredentialDelivery(w, "delivered")
        /\ Go(w, "finish")
     \/ \* the mail went out, and its answer or its receipt was lost
        /\ inbox' = [inbox EXCEPT ![e] = job[w].token]
        /\ Go(w, "fail")
        /\ UNCHANGED row
     \/ /\ Go(w, "fail")
        /\ UNCHANGED <<inbox, row>>
  /\ UNCHANGED <<activated, account, gate, job, claims, calls, faults, retries>>
-------------------------------------------------------------------------------
(***************************************************************************)
(* The member, who knows the password mailed last.  A change that leaves   *)
(* no receipt: directly in the directory, or an activation whose receipt   *)
(* was lost.                                                               *)
(***************************************************************************)
MemberChangesPassword(e) ==
  /\ CanChange(account[e], inbox[e])
  /\ inbox[e] # Null
  /\ account' = [account EXCEPT ![e] = TakenOver(@)]
  /\ UNCHANGED <<row, activated, gate, inbox, pc, job, claims, calls, faults,
                 retries>>

ActivateAccount(e) ==
  /\ row[e].status = "provisioned"
  /\ row[e].delivery = "delivered"
  /\ e \notin activated
  /\ CanActivate(account[e], inbox[e])
  /\ account' = [account EXCEPT ![e] = TakenOver(@)]
  /\ activated' = activated \cup {e}
  /\ UNCHANGED <<row, gate, inbox, pc, job, claims, calls, faults, retries>>
-------------------------------------------------------------------------------
DrainStep(w) ==
  \/ Reap(w) \/ Fail(w) \/ Finish(w)
  \/ OpenDirectoryCall(w) \/ DirectoryStarts(w) \/ DirectoryTimesOut(w)
  \/ OpenMail(w) \/ SendCredentialEmail(w)

Next ==
  \/ \E e \in Event :
       \/ EnqueueProvisioning(e) \/ RetryProvisioning(e)
       \/ DirectoryEnds(e)
       \/ MemberChangesPassword(e) \/ ActivateAccount(e)
  \/ \E w \in Worker : DrainStep(w) \/ DatabaseError(w) \/ Crash(w)
  \/ \E w \in Worker, e \in Event : ClaimNext(w, e)

Spec == Init /\ [][Next]_vars

(***************************************************************************)
(* Each replica is a loop that polls again every five seconds and whose    *)
(* waits all have timeouts, and a started directory call ends.  Nothing    *)
(* else has to happen: not an approval, a retry, or anything a member      *)
(* does.                                                                   *)
(***************************************************************************)
Fairness ==
  /\ \A w \in Worker : WF_vars(DrainStep(w))
  /\ \A e \in Event : WF_vars(DirectoryEnds(e))
  /\ \A e \in Event : WF_vars(\E w \in Worker : ClaimNext(w, e))

FairSpec == Spec /\ Fairness
-------------------------------------------------------------------------------
(***************************************************************************)
(* Properties.                                                             *)
(***************************************************************************)

\* "Directory and email operations lock the event against reclamation": no
\* two workers are inside an external operation on one event, and the one
\* that is inside still owns the row.
OneExternalOperation ==
  \A w \in Worker : Holding(w) =>
    /\ Owns(w)
    /\ \A v \in Worker \ {w} : ~(Holding(v) /\ On(v, job[w].event))

\* A delivery receipt is true: the password mailed last is the one in force,
\* unless the member has replaced it.  No late directory call, duplicate
\* mail or reclaimed attempt comes between the two.
MailedIsCurrent ==
  \A e \in Event : row[e].delivery = "delivered" =>
    /\ inbox[e] # Null
    /\ account[e].password \in {inbox[e], Chosen}

\* An event whose temporary password is recorded as owed to the member is
\* never completed.
OwedIsNotCompleted ==
  \A e \in Event : row[e].status = "provisioned" => row[e].delivery # "pending"

\* Crash loops, reclaims and failures together use up at most MAX_ATTEMPTS
\* directory calls before an administrator has to step in.
CallsAreBounded == \A e \in Event : calls[e] <= MaxAttempts

\* "Recorded delivery survives worker restarts and prevents another password
\* reset or email."
DeliveredIsFinal ==
  [][\A e \in Event : row[e].delivery = "delivered" =>
       /\ row'[e].delivery = "delivered"
       /\ inbox'[e] = inbox[e]
       /\ account'[e].password \in {account[e].password, Chosen}]_vars

\* Accounts the event did not create, and accounts whose member has chosen a
\* password, are never written by a provisioning call.
UsedAccountsAreKept ==
  [][\A e \in Event :
       LET a == account[e] IN
       a.phase = "ready" /\ (~a.owned \/ a.password = Chosen)
         => account'[e] = a]_vars

\* "Stale workers cannot change delivery receipts or complete a newer
\* claim": a step of a worker whose token was replaced leaves the row alone.
StaleWorkersAreHarmless ==
  [][\A w \in Worker :
       LET e == job[w].event IN
       pc[w] # "idle" /\ pc'[w] # pc[w] /\ ~Owns(w) => row'[e] = row[e]]_vars

\* Every approved signup is eventually completed or given up for an
\* administrator to see: nothing stays in processing, and no crash loop or
\* failing retry goes on for ever.
EveryEventSettles ==
  \A e \in Event : row[e].status \in {"pending", "processing", "failed"}
                     ~> row[e].status \in {"provisioned", "dead_lettered"}

(***************************************************************************)
(* The workers implement the delivery promise of CredentialDelivery.       *)
(***************************************************************************)
PhaseOf(status) ==
  CASE status = "none"          -> "new"
    [] status = "dead_lettered" -> "stopped"
    [] status = "provisioned"   -> "done"
    [] OTHER                    -> "open"

Promise == INSTANCE CredentialDelivery WITH
             phase    <- [e \in Event |-> PhaseOf(row[e].status)],
             receipt  <- [e \in Event |-> row[e].delivery],
             password <- [e \in Event |-> account[e].password],
             told     <- inbox

KeepsThePromise == Promise!Spec

\* What the documentation says of an event that awaits delivery: without a
\* password it stays failed.  (The code completes it.)
CompletionDelivers ==
  \A e \in Event : row[e].status = "provisioned" /\ account[e].owned
                     => row[e].delivery = "delivered"
-------------------------------------------------------------------------------
(***************************************************************************)
(* The inductive invariant behind the safety properties, part by part.     *)
(***************************************************************************)

\* Tokens are handed out in order, and no two claims share one.
Tokens ==
  /\ \A e \in Event : /\ row[e].token <= claims[e]
                      /\ inbox[e] <= claims[e]
  /\ \A w \in Worker : pc[w] # "idle" =>
       job[w].token \in 1 .. claims[job[w].event]
  /\ \A v, w \in Worker : v # w /\ pc[v] # "idle" /\ pc[w] # "idle"
       /\ job[v].event = job[w].event => job[v].token # job[w].token

\* The row lock keeps the claim of its holder current.
LockKeepsClaim == \A w \in Worker : Holding(w) => Owns(w)

\* What the owner of a row knows about it at each of its steps.
OwnerView ==
  \A w \in Worker : pc[w] # "idle" /\ Owns(w) =>
    LET r == row[job[w].event] IN
    /\ job[w].attempts = r.attempts
    /\ pc[w] \in {"reap", "begin", "directory"} =>
         job[w].delivery = r.delivery /\ r.delivery # "delivered"
    /\ pc[w] \in {"mail", "smtp"} => r.delivery = "pending"
    /\ pc[w] = "finish" => r.delivery # "pending"
    /\ pc[w] = "begin" => r.attempts < MaxAttempts

\* Every directory call has been, or will be, counted as an attempt.
CallsAreCounted ==
  /\ \A e \in Event :
       /\ row[e].status = "processing" => calls[e] <= row[e].attempts + 1
       /\ row[e].status \notin {"processing", "provisioned"}
            => calls[e] <= row[e].attempts
  /\ \A w \in Worker : pc[w] \in {"reap", "begin"} /\ Owns(w)
       => calls[job[w].event] <= job[w].attempts

\* No call can be running for a row that was never claimed, or is done.
Quiet(e) == \/ row[e].delivery = "delivered"
            \/ row[e].status \in {"none", "provisioned"}

\* From the answer of the directory to the receipt of the mail no call is
\* running, and the password in force is the one the worker is mailing.
CredentialInFlight ==
  /\ \A e \in Event : Quiet(e) => gate[e] = Null
  /\ \A w \in Worker : pc[w] # "idle" /\ Owns(w) =>
       LET e == job[w].event IN
       /\ pc[w] \in {"begin", "directory", "mail", "smtp"}
            => inbox[e] < job[w].token
       /\ pc[w] \in {"mail", "smtp", "finish"} => gate[e] = Null
       /\ pc[w] \in {"mail", "smtp"} => account[e].password = job[w].token

\* An account whose member chose a password is enabled and requires no change.
ChosenIsUsed ==
  \A e \in Event : account[e].password = Chosen =>
    account[e].phase = "ready" /\ ~account[e].mustChange

\* An account the event did not create never has a password of the event's.
ForeignIsUntold ==
  \A e \in Event : ~account[e].owned => account[e].password = Unknown

IInv == /\ TypeOK
        /\ Tokens
        /\ LockKeepsClaim
        /\ OwnerView
        /\ CallsAreCounted
        /\ CredentialInFlight
        /\ ChosenIsUsed
        /\ ForeignIsUntold
        /\ OwedIsNotCompleted
        /\ CallsAreBounded
        /\ MailedIsCurrent
===============================================================================
