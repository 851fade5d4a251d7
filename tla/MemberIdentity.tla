----------------------------- MODULE MemberIdentity ----------------------------
(***************************************************************************)
(* A member's account in the directory, as the portal's three doors change *)
(* it: first activation (lib/provisioning/activate-account.ts), password   *)
(* change (routes/api/password, lib/provisioning/change-password.ts) and   *)
(* the profile, whose username is pushed to the directory after it was     *)
(* saved (lib/profiles/save.ts, lib/provisioning/ad-sync.ts).              *)
(*                                                                         *)
(* The directory does one operation on an account at a time.  A call can   *)
(* fail before or after it took effect, its answer can be lost, and it can *)
(* take effect after the portal gave up on it.                             *)
(***************************************************************************)
EXTENDS Naturals, FiniteSets

CONSTANTS Member,      \* members with a directory account
          New,         \* members with a temporary password still
          Name,        \* usernames
          SignupName,  \* SignupName[m]: the username of m's approved signup
          Handler,     \* portal requests handled at a time
          MaxLate,     \* bound on calls the portal gave up on
          None         \* no portal account yet; no request

\* A call on the directory: it names its account by the username the portal has
\* for it; a save has the username that is wanted.
Calls == [op : {"activate", "password"}, who : Member, target : Name, want : {None}]
           \cup [op : {"save"}, who : Member, target : Name, want : Name]

\* A request with its call, what the answer means, and whether it took effect.
Jobs == [stage : {"waiting", "read", "calling", "answered"}, call : Calls,
         did : BOOLEAN, verdict : {"none", "ok", "rejected", "failed", "uncertain"}]

ASSUME IdentityAssumption ==
  /\ New \subseteq Member
  /\ SignupName \in [Member -> Name]
  /\ \A m, q \in Member : SignupName[m] = SignupName[q] => m = q
  /\ MaxLate \in Nat
  /\ None \notin Name /\ None \notin Jobs

VARIABLES name,      \* name[m]: user.username
          sam,       \* sam[m]: sAMAccountName of m's account
          changed,   \* members who replaced the temporary password
          receipts,  \* account_activations, by member
          job,       \* job[h]: the request h handles
          late,      \* calls the portal gave up on, still under way
          took,      \* members whose account an activation changed
          unsure,    \* members told that an activation is not confirmed
          warned,    \* members told that a save did not reach the directory
          overlapped \* some member had two saves under way at a time

vars == <<name, sam, changed, receipts, job, late, took, unsure, warned, overlapped>>
history == <<took, unsure, warned, overlapped>>

Init == /\ name = [m \in Member |-> IF m \in New THEN None ELSE SignupName[m]]
        /\ sam = SignupName
        /\ changed = Member \ New
        /\ receipts = Member \ New
        /\ job = [h \in Handler |-> None]
        /\ late = {}
        /\ took = {} /\ unsure = {} /\ warned = {} /\ overlapped = FALSE

Call(op, m, target, want) == [op |-> op, who |-> m, target |-> target, want |-> want]

Start(h, stage, call) ==
  job' = [job EXCEPT ![h] = [stage |-> stage, call |-> call,
                            verdict |-> "none", did |-> FALSE]]

Doing(h, op, stage) == job[h] # None /\ job[h].call.op = op /\ job[h].stage = stage

End(h) == job' = [job EXCEPT ![h] = None]

Goes(h, stage) == job' = [job EXCEPT ![h].stage = stage]
-------------------------------------------------------------------------------
(***************************************************************************)
(* The portal's side of a call.                                            *)
(***************************************************************************)

\* FOR UPDATE of the event, up to the receipt.
EventLocked(m) == \E h \in Handler : job[h] # None /\ job[h].call.op = "activate"
                                                   /\ job[h].call.who = m
                                                   /\ job[h].stage # "waiting"

\* handleActivationRequest: what is well formed names a signup's username; it is
\* signed with the temporary password, which only the member has.
Request(m) == Call("activate", m, SignupName[m], None)

\* activateAccount, with credentials delivered and no receipt; attempts beyond
\* the limit are refused before this.
BeginActivation(h, m) ==
  /\ job[h] = None /\ m \notin receipts
  /\ Start(h, "waiting", Request(m))
  /\ UNCHANGED <<name, sam, changed, receipts, late, history>>

\* The statement that found no receipt waits for the lock, and does not look
\* again: the activation it waited for may have left one.
LockEvent(h) ==
  /\ Doing(h, "activate", "waiting") /\ ~EventLocked(job[h].call.who)
  /\ Goes(h, "calling")
  /\ UNCHANGED <<name, sam, changed, receipts, late, history>>

\* A member with a password of their own signs in and is given the username.
FirstLogin(m) ==
  /\ name[m] = None /\ m \in changed
  /\ name' = [name EXCEPT ![m] = SignupName[m]]
  /\ UNCHANGED <<sam, changed, receipts, job, late, history>>

\* POST /api/password: the username is read from the database.
BeginPasswordChange(h, m) ==
  /\ job[h] = None /\ name[m] # None
  /\ Start(h, "calling", Call("password", m, name[m], None))
  /\ UNCHANGED <<name, sam, changed, receipts, late, history>>

\* A username nobody uses; that of a signup is never given to anyone else.
Free(m, n) == /\ \A q \in Member \ {m} : name[q] # n
              /\ n = name[m] \/ \A q \in Member : SignupName[q] # n

\* The name the account had when the profile was read.  Who signed up has one;
\* that others are called by their NetID is left out.
Target(m, n) == name[m]

Saving(m) == \E h \in Handler : job[h] # None /\ job[h].call.op = "save"
                                              /\ job[h].call.who = m

\* Until here names are trusted.  No save is begun after that, a bound: nothing
\* is claimed of names from then on.
Trusted == warned = {} /\ ~overlapped

\* saveProfile up to its transaction.
ReadProfile(h, m, n) ==
  /\ job[h] = None /\ name[m] # None /\ Free(m, n) /\ Trusted
  /\ Start(h, "read", Call("save", m, Target(m, n), n))
  /\ overlapped' = (overlapped \/ Saving(m))
  /\ UNCHANGED <<name, sam, changed, receipts, late, took, unsure, warned>>

\* changedFields, of the name and of fields that are left out here.
Changed(call) == IF call.want = call.target THEN BOOLEAN ELSE {TRUE}

\* The transaction; the directory is called when some field has changed.
WriteProfile(h) ==
  /\ Doing(h, "save", "read")
  /\ LET m == job[h].call.who
         n == job[h].call.want
     IN /\ Free(m, n)
        /\ name' = [name EXCEPT ![m] = n]
        /\ \E changes \in Changed(job[h].call) :
             IF changes THEN Goes(h, "calling") ELSE End(h)
  /\ UNCHANGED <<sam, changed, receipts, late, history>>

\* The username was taken meanwhile, or the database fails.
RefuseProfile(h) ==
  /\ Doing(h, "save", "read")
  /\ End(h)
  /\ UNCHANGED <<name, sam, changed, receipts, late, history>>
-------------------------------------------------------------------------------
(***************************************************************************)
(* The directory's side (windows-api): what a call does to the account it  *)
(* finds, and what it answers.                                             *)
(***************************************************************************)

Found(call) == {q \in Member : sam[q] = call.target}

\* AdAccountActivation.Activate: made by this event, and still to be activated.
MayActivate(call, q) == q = call.who /\ q \notin changed

\* Mutant: the password is reset instead of changed.
Mut_MayChangePassword(call, q) == TRUE

\* ChangePassword proves the current password, which only its member knows.
MayChangePassword(call, q) == q = call.who

\* UpdateUserAsync: sAMAccountName is unique.
MayRename(call, q) == \A r \in Member \ {q} : sam[r] # call.want

Allowed(call, q) ==
  /\ q \in Found(call)
  /\ CASE call.op = "activate" -> MayActivate(call, q)
       [] call.op = "password" -> MayChangePassword(call, q)
       [] call.op = "save"     -> MayRename(call, q)

\* The effect on account q.
Acts(call, q) ==
  /\ sam' = IF call.op = "save" THEN [sam EXCEPT ![q] = call.want] ELSE sam
  /\ changed' = IF call.op = "save" THEN changed ELSE changed \cup {q}
  /\ took' = IF call.op = "activate" THEN took \cup {call.who} ELSE took

\* Mutant: an error of the directory is taken for a rejection.
Mut_ActivationVerdict(answer) ==
  CASE answer \in {"rejected", "error"} -> "rejected"
    [] answer = "ok"                    -> "ok"
    [] answer = "lost"                  -> "uncertain"

\* activateInAd: an error leaves an activation unconfirmed.
ActivationVerdict(answer) ==
  IF answer \in {"ok", "rejected"} THEN answer ELSE "uncertain"

\* Mutant: whatever answer is not a success is shown as a rejection.
Mut_PasswordVerdict(answer) == IF answer = "ok" THEN "ok" ELSE "rejected"

\* changeAdPassword: after an error the member is told that it failed.
PasswordVerdict(answer) ==
  CASE answer \in {"ok", "rejected"} -> answer
    [] answer = "error"              -> "failed"
    [] answer = "lost"               -> "uncertain"

\* syncAdUser.
SaveVerdict(answer) == IF answer = "ok" THEN "ok" ELSE "uncertain"

Answered(h, answer, did) ==
  LET op == job[h].call.op
      verdict == CASE op = "activate" -> ActivationVerdict(answer)
                   [] op = "password" -> PasswordVerdict(answer)
                   [] op = "save"     -> SaveVerdict(answer)
  IN job' = [job EXCEPT ![h].stage = "answered", ![h].did = did,
                        ![h].verdict = verdict]

\* It takes effect; what follows may still fail, or the answer be lost.
DirectoryActs(h, q) ==
  /\ job[h] # None /\ job[h].stage = "calling" /\ Allowed(job[h].call, q)
  /\ Acts(job[h].call, q)
  /\ \E answer \in {"ok", "error", "lost"} : Answered(h, answer, TRUE)
  /\ UNCHANGED <<name, receipts, late, unsure, warned, overlapped>>

\* It does not: there is no account, it is against the rules or the password
\* policy or over the rate (400, 404, 409, 429), or the directory or the way to
\* it fails.
DirectoryRefuses(h) ==
  /\ job[h] # None /\ job[h].stage = "calling"
  /\ \E answer \in {"rejected", "error", "lost"} : Answered(h, answer, FALSE)
  /\ UNCHANGED <<name, sam, changed, receipts, late, history>>

\* What goes on after the portal is gone.  A save that does is left out: its
\* member has been warned, and nothing is claimed of names after that.
Outlives(call) == IF call.op = "save" THEN {} ELSE {call}

\* The portal waits 30 seconds.
GiveUp(h) ==
  /\ job[h] # None /\ job[h].stage = "calling" /\ Cardinality(late) < MaxLate
  /\ late' = late \cup Outlives(job[h].call)
  /\ Answered(h, "lost", FALSE)
  /\ UNCHANGED <<name, sam, changed, receipts, history>>

LateCall(call) ==
  /\ late' = late \ {call}
  /\ \/ \E q \in Member : Allowed(call, q) /\ Acts(call, q)
     \/ UNCHANGED <<sam, changed, took>>
  /\ UNCHANGED <<name, receipts, job, unsure, warned, overlapped>>
-------------------------------------------------------------------------------
(***************************************************************************)
(* What the member is told.                                                *)
(***************************************************************************)

\* parseActivationResponse: an answer that says so, or that is none of the
\* portal's, tells the member that the activation is not confirmed.
Unconfirmed(call) == IF call.op = "activate" THEN unsure \cup {call.who} ELSE unsure

\* The activation is over: with its receipt, or with a receipt that could not be
\* committed, or without.
EndActivation(h) ==
  /\ Doing(h, "activate", "answered")
  /\ LET m == job[h].call.who
         verdict == job[h].verdict
     IN \/ /\ verdict = "ok"
           /\ receipts' = receipts \cup {m}
           /\ UNCHANGED unsure
        \/ /\ verdict \in {"ok", "uncertain"}
           /\ unsure' = Unconfirmed(job[h].call)
           /\ UNCHANGED receipts
        \/ /\ verdict = "rejected"
           /\ UNCHANGED <<receipts, unsure>>
  /\ End(h)
  /\ UNCHANGED <<name, sam, changed, late, took, warned, overlapped>>

EndPasswordChange(h) ==
  /\ Doing(h, "password", "answered")
  /\ End(h)
  /\ UNCHANGED <<name, sam, changed, receipts, late, history>>

\* Mutant: the answer of the directory is not looked at.
Mut_Warns(verdict) == FALSE

Warns(verdict) == verdict # "ok"

EndSave(h) ==
  /\ Doing(h, "save", "answered")
  /\ warned' = IF Warns(job[h].verdict) THEN warned \cup {job[h].call.who} ELSE warned
  /\ End(h)
  /\ UNCHANGED <<name, sam, changed, receipts, late, took, unsure, overlapped>>

\* The portal stops: a call under way goes on, and the member's page says that
\* there was no answer.
Crash(h) ==
  /\ job[h] # None
  /\ LET call == job[h].call
     IN /\ \/ job[h].stage = "calling" /\ Cardinality(late) < MaxLate
              /\ late' = late \cup Outlives(call)
           \/ UNCHANGED late
        /\ unsure' = Unconfirmed(call)
        /\ warned' = IF call.op = "save" THEN warned \cup {call.who} ELSE warned
  /\ End(h)
  /\ UNCHANGED <<name, sam, changed, receipts, took, overlapped>>
-------------------------------------------------------------------------------
Next ==
  \/ \E m \in Member : FirstLogin(m)
  \/ \E call \in late : LateCall(call)
  \/ \E h \in Handler :
       \/ \E m \in Member : BeginActivation(h, m) \/ BeginPasswordChange(h, m)
       \/ \E m \in Member, n \in Name : ReadProfile(h, m, n)
       \/ LockEvent(h) \/ WriteProfile(h) \/ RefuseProfile(h)
       \/ \E q \in Member : DirectoryActs(h, q)
       \/ DirectoryRefuses(h) \/ GiveUp(h)
       \/ EndActivation(h) \/ EndPasswordChange(h) \/ EndSave(h) \/ Crash(h)

Spec == Init /\ [][Next]_vars
-------------------------------------------------------------------------------
(***************************************************************************)
(* Properties.                                                             *)
(***************************************************************************)

\* "Only explicit pre-change rejection is safe to retry"
\* (lib/provisioning/activate-account.ts:104): a request whose call took effect
\* is not told to check the input and try again, of activations and of password
\* changes.
RejectionsAreSafe ==
  \A h \in Handler : job[h] # None /\ job[h].did => job[h].verdict # "rejected"

\* A receipt stands for an activation that took place, and an activation that
\* took place has its receipt, unless its member was told that it is not
\* confirmed (lib/provisioning/activate-account.ts:176-184).
ActivationsAreAccounted ==
  /\ receipts \cap New \subseteq took
  /\ \A m \in took \ (receipts \cup unsure) : EventLocked(m)

\* The directory knows a member by the username of the portal, as long as no
\* save of the member is under way - until a save warned its member that the
\* directory was not reached, or two saves of one member overlapped: from then on
\* names may differ, and a save may even reach the account of somebody else
\* (lib/profiles/save.ts:194-210).
NamesAgree ==
  Trusted => \A m \in Member :
    name[m] \in {None, sam[m]} \/ Saving(m)

\* Until then nobody reaches another's account through their own activation,
\* password or profile, whatever usernames were given up and taken again.
OwnAccountOnly ==
  [][\A h \in Handler, q \in Member :
       Trusted /\ DirectoryActs(h, q) => q = job[h].call.who]_vars
-------------------------------------------------------------------------------
(***************************************************************************)
(* The inductive invariant behind the properties, part by part.            *)
(***************************************************************************)

\* The variables stay in their domains.
TypeOK ==
  /\ name \in [Member -> Name \cup {None}]
  /\ sam \in [Member -> Name]
  /\ changed \cup receipts \cup took \cup unsure \cup warned \subseteq Member
  /\ job \in [Handler -> Jobs \cup {None}]
  /\ late \subseteq Calls
  /\ overlapped \in BOOLEAN

\* The activation of m that h handles has been answered with one of these.
ActivationTold(h, m, verdicts) ==
  /\ Doing(h, "activate", "answered")
  /\ job[h].call.who = m /\ job[h].verdict \in verdicts

\* A member whose account was activated is told so, or that it is not confirmed.
TookIsTold ==
  \A m \in took \ (receipts \cup unsure) :
    \E h \in Handler : ActivationTold(h, m, {"ok", "uncertain"})

\* The portal has given up on a late activation: its member will be told that.
LateIsTold ==
  \A call \in late :
    /\ call.op # "save"
    /\ call.op = "activate" =>
         \/ call.who \in unsure
         \/ \E h \in Handler : ActivationTold(h, call.who, {"uncertain"})

\* Who is told that an activation took place had one.
ToldIsTrue ==
  /\ receipts \cap New \subseteq took
  /\ \A h \in Handler, m \in Member : ActivationTold(h, m, {"ok"}) => m \in took

\* sAMAccountName is unique.
OneAccountPerName == \A m, q \in Member : sam[m] = sam[q] => m = q

\* What a save read is true until it writes, and what it wrote is where the
\* directory is to go; one without a warning has arrived there.
SaveAgrees(h) ==
  job[h] # None /\ job[h].call.op = "save" =>
    LET call == job[h].call
        m    == call.who
    IN /\ name[m] # None
       /\ job[h].stage = "read" => name[m] = call.target
       /\ job[h].stage \in {"calling", "answered"} => name[m] = call.want
       /\ job[h].stage \in {"read", "calling"} => sam[m] = call.target
       /\ job[h].stage = "answered" /\ ~Warns(job[h].verdict) => sam[m] = call.want

OneSave ==
  \A h, g \in Handler :
    /\ job[h] # None /\ job[h].call.op = "save"
    /\ job[g] # None /\ job[g].call.op = "save"
    /\ job[h].call.who = job[g].call.who
    => h = g

\* Whoever has not logged in yet has the name of the signup in the directory.
NewAreUnchanged == \A m \in Member : name[m] = None => sam[m] = SignupName[m]

NamesAreTrue == Trusted => /\ NamesAgree /\ NewAreUnchanged /\ OneSave
                           /\ \A h \in Handler : SaveAgrees(h)

IInv == /\ TypeOK
        /\ RejectionsAreSafe
        /\ TookIsTold /\ LateIsTold /\ ToldIsTrue
        /\ OneAccountPerName /\ NamesAreTrue
================================================================================
