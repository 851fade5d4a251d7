---------------------------- MODULE ManualDelivery -----------------------------
(***************************************************************************)
(* Manual credential delivery (src/lib/provisioning/manual-delivery.ts):   *)
(* an officer has the portal show a temporary password (reveal), hands it  *)
(* to the member and acknowledges that (confirm).  No worker is involved   *)
(* and nothing is locked while the directory works: every reveal replaces  *)
(* the token of the row, and everything written later compares it.         *)
(*                                                                         *)
(* Time is abstracted as in EmailDelivery.  A reveal that is still alive   *)
(* when its five minutes are over is a stall; events that met one are in   *)
(* stalled.  No stall is needed for a reveal to be replaced: a failed one, *)
(* a dead one and one that was shown can all be followed by another.       *)
(***************************************************************************)
EXTENDS DirectoryAccount, FiniteSets

CONSTANTS Event,       \* signups approved for manual delivery
          Handler,     \* HTTP requests the portal handles at a time
          MaxReveals,  \* bound on the reveals of one event
          MaxFaults,   \* bound on crashes and database errors
          MaxStalls,   \* bound on the events that meet a stall
          NoJob        \* what a handler without a request holds

VARIABLES row,        \* row[e]: the provisioning_events row of e
          activated,  \* events with a row in account_activations
          account,    \* account[e]: the directory account of e's username
          gate,       \* gate[e]: the reveal whose directory call is running
          pc, job,    \* each handler's step, its event and its token
          shown,      \* shown[e]: tokens that reached an officer's browser
          confirmed,  \* confirmed[e]: the token that was acknowledged
          claims,     \* claims[e]: reveals of e so far
          stalled, faults

vars == <<row, activated, account, gate, pc, job, shown, confirmed, claims,
          stalled, faults>>

Null == 0    \* SQL NULL for a token; no call in a gate; nothing confirmed

Row == [status   : {"none", "pending", "processing", "provisioned", "failed"},
        token    : Nat,
        delivery : {"null", "pending", "delivered"}]

Step == {"idle", "read", "directory", "ready", "fail"}

\* A reveal in progress.
Job == [event : Event, token : Nat]

ASSUME BoundsAssumption == /\ MaxReveals \in Nat
                           /\ MaxFaults \in Nat
                           /\ MaxStalls \in Nat
                           /\ NoJob \notin Job

\* The token is spent with the confirmation, and only with it.
TypeOK ==
  /\ row \in [Event -> Row]
  /\ \A e \in Event : row[e].status = "provisioned" =>
       row[e].token = Null /\ row[e].delivery = "delivered"
  /\ activated \in SUBSET Event
  /\ account \in [Event -> Account]
  /\ gate \in [Event -> Nat]
  /\ pc \in [Handler -> Step]
  /\ job \in [Handler -> Job \cup {NoJob}]
  /\ \A h \in Handler : pc[h] = "idle" <=> job[h] = NoJob
  /\ shown \in [Event -> SUBSET Nat]
  /\ confirmed \in [Event -> Nat]
  /\ claims \in [Event -> 0 .. MaxReveals]
  /\ stalled \in SUBSET Event
  /\ faults \in 0 .. MaxFaults

Init ==
  /\ row = [e \in Event |-> [status |-> "none", token |-> Null,
                             delivery |-> "null"]]
  /\ activated = {}
  /\ account \in [Event -> {Absent, Foreign}]
  /\ gate = [e \in Event |-> Null]
  /\ pc = [h \in Handler |-> "idle"]
  /\ job = [h \in Handler |-> NoJob]
  /\ shown = [e \in Event |-> {}]
  /\ confirmed = [e \in Event |-> Null]
  /\ claims = [e \in Event |-> 0]
  /\ stalled = {}
  /\ faults = 0
-------------------------------------------------------------------------------
On(h, e) == pc[h] # "idle" /\ job[h].event = e

Live(e) == \E h \in Handler : On(h, e) /\ job[h].token = row[e].token

\* Mutant: the status alone decides.
Mut_OwnedAttempt(h) == row[job[h].event].status = "processing"

\* ownedAttempt: the row is still being processed under this reveal's token.
OwnedAttempt(h) == LET r == row[job[h].event]
                   IN  r.status = "processing" /\ r.token = job[h].token

SetStatus(h, status) ==
  IF OwnedAttempt(h) THEN [row EXCEPT ![job[h].event].status = status] ELSE row

Fault == faults < MaxFaults /\ faults' = faults + 1

Go(h, step) == pc' = [pc EXCEPT ![h] = step] /\ UNCHANGED job

Rest(h) == /\ pc' = [pc EXCEPT ![h] = "idle"]
           /\ job' = [job EXCEPT ![h] = NoJob]
-------------------------------------------------------------------------------
\* Approval with manual delivery: the credentials are owed from the start.
EnqueueProvisioning(e) ==
  /\ row[e].status = "none"
  /\ row' = [row EXCEPT ![e].status = "pending", ![e].delivery = "pending"]
  /\ UNCHANGED <<activated, account, gate, pc, job, shown, confirmed, claims,
                 stalled, faults>>

(***************************************************************************)
(* revealManualCredentials: claim the row under a new token.  A row that   *)
(* awaits confirmation is taken over like a failed one.                    *)
(***************************************************************************)
Available(e) == row[e].status \in {"pending", "failed"} /\ UNCHANGED stalled

LeaseExpired(e) ==
  /\ row[e].status = "processing"
  /\ IF ~Live(e) THEN UNCHANGED stalled
     ELSE /\ Cardinality(stalled \cup {e}) <= MaxStalls
          /\ stalled' = stalled \cup {e}

RevealClaim(h, e) ==
  /\ pc[h] = "idle"
  /\ claims[e] < MaxReveals
  /\ row[e].delivery = "pending"
  /\ e \notin activated
  /\ Available(e) \/ LeaseExpired(e)
  /\ claims' = [claims EXCEPT ![e] = @ + 1]
  /\ row' = [row EXCEPT ![e].status = "processing", ![e].token = claims[e] + 1]
  /\ job' = [job EXCEPT ![h] = [event |-> e, token |-> claims[e] + 1]]
  /\ pc' = [pc EXCEPT ![h] = "read"]
  /\ UNCHANGED <<activated, account, gate, shown, confirmed, faults>>

\* The row is read again outside the claim's transaction.
ReadClaim(h) ==
  /\ pc[h] = "read"
  /\ Go(h, IF OwnedAttempt(h) THEN "directory" ELSE "fail")
  /\ UNCHANGED <<row, activated, account, gate, shown, confirmed, claims,
                 stalled, faults>>

\* The API's gate admits the waiting request.
DirectoryStarts(h) ==
  /\ pc[h] = "directory"
  /\ gate[job[h].event] = Null
  /\ gate' = [gate EXCEPT ![job[h].event] = job[h].token]
  /\ UNCHANGED <<row, activated, account, pc, job, shown, confirmed, claims,
                 stalled, faults>>

Waiting(h, e) == pc[h] = "directory" /\ On(h, e) /\ job[h].token = gate[e]

\* The running call ends.  Its handler may be gone; one that waits needs a
\* password to go on.
DirectoryEnds(e) ==
  /\ gate[e] # Null
  /\ \E out \in Create(account[e], gate[e]) :
       /\ account' = [account EXCEPT ![e] = out.account]
       /\ pc' = [h \in Handler |->
                   IF Waiting(h, e)
                   THEN IF out.answer = "password" THEN "ready" ELSE "fail"
                   ELSE pc[h]]
  /\ gate' = [gate EXCEPT ![e] = Null]
  /\ UNCHANGED <<row, activated, job, shown, confirmed, claims, stalled, faults>>

\* AbortSignal.timeout, or an answer that was lost: a request still queued at
\* the gate is cancelled, a started one runs on.
DirectoryTimesOut(h) ==
  /\ pc[h] = "directory"
  /\ Go(h, "fail")
  /\ UNCHANGED <<row, activated, account, gate, shown, confirmed, claims,
                 stalled, faults>>

\* The row awaits confirmation; the credentials reach the browser, or the
\* response is lost on the way.
Ready(h) ==
  /\ pc[h] = "ready"
  /\ row' = SetStatus(h, "pending")
  /\ IF OwnedAttempt(h) THEN Rest(h) ELSE Go(h, "fail")
  /\ \/ UNCHANGED shown
     \/ /\ OwnedAttempt(h)
        /\ shown' = [shown EXCEPT ![job[h].event] = @ \cup {job[h].token}]
  /\ UNCHANGED <<activated, account, gate, confirmed, claims, stalled, faults>>

\* The catch block of revealManualCredentials.
Fail(h) ==
  /\ pc[h] = "fail"
  /\ row' = SetStatus(h, "failed")
  /\ Rest(h)
  /\ UNCHANGED <<activated, account, gate, shown, confirmed, claims, stalled,
                 faults>>

DatabaseError(h) ==
  /\ Fault
  /\ \/ pc[h] \in {"read", "ready"} /\ Go(h, "fail")
     \/ pc[h] = "fail" /\ Rest(h)
  /\ UNCHANGED <<row, activated, account, gate, shown, confirmed, claims, stalled>>

Crash(h) ==
  /\ pc[h] # "idle"
  /\ Fault
  /\ Rest(h)
  /\ UNCHANGED <<row, activated, account, gate, shown, confirmed, claims, stalled>>
-------------------------------------------------------------------------------
\* Mutant: any reveal that was shown can be acknowledged.
Mut_IsCurrent(e, t) == TRUE

IsCurrent(e, t) == row[e].token = t

\* Mutant: the token stays in the row.
Mut_Confirmed(r) == [r EXCEPT !.status = "provisioned", !.delivery = "delivered"]

Confirmed(r) == [r EXCEPT !.status = "provisioned", !.delivery = "delivered",
                          !.token = Null]

(***************************************************************************)
(* confirmManualDelivery: an officer acknowledges credentials on screen.   *)
(* A panel that is out of date stays open until its officer closes it.     *)
(***************************************************************************)
ConfirmDelivery(e, t) ==
  /\ t \in shown[e]
  /\ row[e].status = "pending"
  /\ row[e].delivery = "pending"
  /\ IsCurrent(e, t)
  /\ row' = [row EXCEPT ![e] = Confirmed(@)]
  /\ confirmed' = [confirmed EXCEPT ![e] = t]
  /\ UNCHANGED <<activated, account, gate, pc, job, shown, claims, stalled, faults>>

\* The member has been given a password that was shown, before or after the
\* officer confirms it.
MemberChangesPassword(e) ==
  /\ \E t \in shown[e] : CanChange(account[e], t)
  /\ account' = [account EXCEPT ![e] = TakenOver(@)]
  /\ UNCHANGED <<row, activated, gate, pc, job, shown, confirmed, claims,
                 stalled, faults>>

ActivateAccount(e) ==
  /\ row[e].status = "provisioned"
  /\ row[e].delivery = "delivered"
  /\ e \notin activated
  /\ \E t \in shown[e] : CanActivate(account[e], t)
  /\ account' = [account EXCEPT ![e] = TakenOver(@)]
  /\ activated' = activated \cup {e}
  /\ UNCHANGED <<row, gate, pc, job, shown, confirmed, claims, stalled, faults>>
-------------------------------------------------------------------------------
RevealStep(h) ==
  \/ ReadClaim(h) \/ DirectoryStarts(h) \/ DirectoryTimesOut(h)
  \/ Ready(h) \/ Fail(h)

Next ==
  \/ \E e \in Event :
       \/ EnqueueProvisioning(e) \/ DirectoryEnds(e)
       \/ MemberChangesPassword(e) \/ ActivateAccount(e)
       \/ \E t \in shown[e] : ConfirmDelivery(e, t)
  \/ \E h \in Handler : RevealStep(h) \/ DatabaseError(h) \/ Crash(h)
  \/ \E h \in Handler, e \in Event : RevealClaim(h, e)

Spec == Init /\ [][Next]_vars
-------------------------------------------------------------------------------
(***************************************************************************)
(* Properties.                                                             *)
(***************************************************************************)

\* What was acknowledged is what is in force: once delivery is confirmed, the
\* directory has the password of exactly the reveal that was confirmed, or
\* one the member chose, and no call is left that could change it.  It needs
\* that no reveal outlived its five minutes.
ConfirmedIsCurrent ==
  \A e \in Event \ stalled : row[e].delivery = "delivered" =>
    /\ confirmed[e] # Null
    /\ account[e].password \in {confirmed[e], Chosen}
    /\ gate[e] = Null

\* A reveal that was replaced changes neither the row nor the screen, even
\* if it outlived its five minutes.
ReplacedRevealsAreHarmless ==
  [][\A h \in Handler :
       LET e == job[h].event IN
       pc[h] # "idle" /\ pc'[h] # pc[h] /\ row[e].token # job[h].token
         => row'[e] = row[e] /\ shown'[e] = shown[e]]_vars

\* Accounts that signup did not create, and accounts whose member has chosen
\* a password, survive every reveal.
UsedAccountsAreKept ==
  [][\A e \in Event :
       LET a == account[e] IN
       a.phase = "ready" /\ (~a.owned \/ a.password = Chosen)
         => account'[e] = a]_vars

(***************************************************************************)
(* Manual delivery keeps the promise of CredentialDelivery.                *)
(***************************************************************************)
PhaseOf(status) == CASE status = "none"        -> "new"
                     [] status = "provisioned" -> "done"
                     [] OTHER                  -> "open"

\* Unknown while nothing was shown.
LastShown(e) == CHOOSE t \in shown[e] \cup {Unknown} : \A u \in shown[e] : u <= t

Promise == INSTANCE CredentialDelivery WITH
             phase    <- [e \in Event |-> PhaseOf(row[e].status)],
             receipt  <- [e \in Event |-> row[e].delivery],
             password <- [e \in Event |-> account[e].password],
             told     <- [e \in Event |-> LastShown(e)]

\* As long as no reveal has outlived its claim, nothing but approval, issuing,
\* showing, confirming and the member's own choice happens to credentials, in
\* the order the promise admits.
KeepsThePromise == /\ Promise!Init
                   /\ [][stalled = {} => [Promise!Next]_(Promise!vars)]_vars
-------------------------------------------------------------------------------
(***************************************************************************)
(* The inductive invariant behind the safety properties, part by part.     *)
(***************************************************************************)

\* Tokens are handed out in order, no two reveals share one, and a reveal in
\* progress has not been shown.
Tokens ==
  /\ \A e \in Event : /\ row[e].token \in {Null, claims[e]}
                      /\ gate[e] <= claims[e]
                      /\ shown[e] \subseteq 1 .. claims[e]
  /\ \A h \in Handler : pc[h] # "idle" =>
       LET e == job[h].event IN
       job[h].token \in (1 .. claims[e]) \ shown[e]
  /\ \A g, h \in Handler : g # h /\ pc[g] # "idle" /\ pc[h] # "idle"
       /\ job[g].event = job[h].event => job[g].token # job[h].token

\* Credentials are owed exactly from approval to confirmation, under the
\* token of the last reveal.
OwedUntilConfirmed ==
  \A e \in Event :
    CASE row[e].status = "none"        -> row[e].delivery = "null" /\ claims[e] = 0
      [] row[e].status = "provisioned" -> row[e].delivery = "delivered"
      [] OTHER -> row[e].delivery = "pending" /\ row[e].token = claims[e]

\* Without a stall the only reveal in progress is the current one.
RevealsAreCurrent ==
  \A h \in Handler : pc[h] # "idle" /\ job[h].event \notin stalled
    => OwnedAttempt(h)

\* A running call is later than everything that was shown, and so is the
\* password it sets.
CallsAreLater ==
  \A e \in Event \ stalled : \A t \in shown[e] :
    /\ gate[e] # Null => t < gate[e]
    /\ account[e].password > 0 => t <= account[e].password

\* From the answer of the directory to the confirmation no call is running,
\* and the password in force is that of the row, or the member's.
CredentialHeld ==
  /\ \A h \in Handler : pc[h] = "ready" /\ job[h].event \notin stalled =>
       /\ gate[job[h].event] = Null
       /\ account[job[h].event].password = job[h].token
  /\ \A e \in Event \ stalled :
       row[e].status = "pending" /\ row[e].token # Null =>
         /\ gate[e] = Null
         /\ account[e].password \in {row[e].token, Chosen}

\* An account whose member chose a password is enabled and requires no change.
ChosenIsUsed ==
  \A e \in Event : account[e].password = Chosen =>
    account[e].phase = "ready" /\ ~account[e].mustChange

\* No reveal gave a password to an account that is not this signup's.
ForeignIsUntold ==
  \A e \in Event : ~account[e].owned => account[e].password = Unknown

IInv == /\ TypeOK
        /\ Tokens
        /\ OwedUntilConfirmed
        /\ RevealsAreCurrent
        /\ CallsAreLater
        /\ CredentialHeld
        /\ ChosenIsUsed
        /\ ForeignIsUntold
        /\ ConfirmedIsCurrent
===============================================================================
