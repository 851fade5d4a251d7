----------------------------- MODULE UsernameClaims ----------------------------
(***************************************************************************)
(* Usernames in the portal's database: signups and their review            *)
(* (routes/signup, lib/signups, routes/.../admin/signups), profiles        *)
(* (lib/profiles/save.ts), the first login (lib/auth-bootstrap.ts), and    *)
(* the triggers that keep one row of username_claims for every name in use *)
(* (drizzle/0010_shared_username_claims.sql).                              *)
(*                                                                         *)
(* A transaction is one step, except that an edit holds the row lock of    *)
(* its signup while it validates.  The reads a request makes before its    *)
(* transaction are a step of their own.  A request may end at any time     *)
(* without a write: refused, failed, or its process gone.  NetIDs are      *)
(* abstracted: the signup a NetID leads to is any approved one, or none.   *)
(***************************************************************************)
EXTENDS Naturals, FiniteSets

CONSTANTS Signup,      \* ids of signup_submissions
          User,        \* ids of user
          Name,        \* usernames
          Handler,     \* portal requests handled at a time
          Disposable,  \* test records an operator may delete
          NoOne,       \* NULL in a claim
          NoName,      \* a NULL username; no username
          NoJob        \* the handler has no request

VARIABLES sub,      \* sub[s]: row of signup_submissions
          usr,      \* usr[x]: row of user, and how far its first login came
          claims,   \* claims[n]: row of username_claims, both NULL when absent
          queued,   \* queued[s]: the name in the payload of s's provisioning event
          admins,   \* users with the admin role
          job       \* job[h]: the request handler h has validated

vars == <<sub, usr, claims, queued, admins, job>>

Signups == [status : {"none", "pending", "approved", "denied"},
            name : Name \cup {NoName}]

\* login is the name the sign-in came with, which the bootstrap is given.
Users == [phase : {"none", "created", "ready", "failed"},
          name : Name \cup {NoName}, login : Name \cup {NoName}]

Claims == [signup : Signup \cup {NoOne}, user : User \cup {NoOne}]

Jobs == [op : {"submit", "edit", "profile"},
         who : Signup \cup User \cup {NoOne}, name : Name]

ASSUME NamesAssumption == /\ NoName \notin Name
                          /\ NoOne \notin Signup \cup User
                          /\ NoJob \notin Jobs
                          /\ IsFiniteSet(User)

Unclaimed == [signup |-> NoOne, user |-> NoOne]
NoSignup == [status |-> "none", name |-> NoName]
NoUser == [phase |-> "none", name |-> NoName, login |-> NoName]

Init == /\ sub = [s \in Signup |-> NoSignup]
        /\ usr = [x \in User |-> NoUser]
        /\ claims = [n \in Name |-> Unclaimed]
        /\ queued = [s \in Signup |-> NoName]
        /\ admins = {}
        /\ job = [h \in Handler |-> NoJob]

Active(r) == r.status \in {"pending", "approved"}

\* Mutant: the edit reads the row without locking it.
Mut_Locked(s) == FALSE

\* FOR UPDATE: an edit keeps others from its row until it ends.
Locked(s) == \E h \in Handler : job[h] # NoJob /\ job[h].op = "edit" /\ job[h].who = s
-------------------------------------------------------------------------------
(***************************************************************************)
(* The triggers and the unique indexes.  c is the table of claims as the   *)
(* statement finds it.                                                     *)
(***************************************************************************)

WithoutSignup(c, s, old) ==
  IF old # NoName /\ c[old].signup = s THEN [c EXCEPT ![old].signup = NoOne] ELSE c

WithoutUser(c, x, old) ==
  IF old # NoName /\ c[old].user = x THEN [c EXCEPT ![old].user = NoOne] ELSE c

\* Mutant: the trigger looks at the name only.
Mut_SameClaim(old, new) == old.name = new.name

\* The trigger has nothing to do for this change of a signup.
SameClaim(old, new) == old.name = new.name /\ (Active(old) <=> Active(new))

NameIndexAllows(s, new) ==
  Active(new) => \A t \in Signup \ {s} : ~(Active(sub[t]) /\ sub[t].name = new.name)

SignupMayClaim(c, s, n) == c[n].user = NoOne /\ c[n].signup \in {NoOne, s}

\* maintain_signup_username_claim, with the write that fires it.
WriteSignup(s, new) ==
  LET freed == WithoutSignup(claims, s, sub[s].name)
  IN /\ NameIndexAllows(s, new)
     /\ sub' = [sub EXCEPT ![s] = new]
     /\ \/ SameClaim(sub[s], new) /\ UNCHANGED claims
        \/ /\ ~SameClaim(sub[s], new) /\ Active(new)
           /\ SignupMayClaim(freed, s, new.name)
           /\ claims' = [freed EXCEPT ![new.name].signup = s]
        \/ /\ ~SameClaim(sub[s], new) /\ ~Active(new)
           /\ claims' = freed

\* Mutant: the trigger looks at other accounts only.
Mut_UserMayClaim(c, x, n, inserting) == c[n].user \in {NoOne, x}

UserMayClaim(c, x, n, inserting) ==
  /\ c[n].user \in {NoOne, x}
  /\ \/ c[n].signup = NoOne
     \/ c[n].user = x
     \/ /\ inserting
        /\ \E s \in Signup : c[n].signup = s /\ sub[s].status = "approved"

UserIndexAllows(x, n) == n # NoName => \A y \in User \ {x} : usr[y].name # n

\* maintain_user_username_claim, with the write that fires it.
WriteUser(c, x, new, inserting) ==
  LET freed == WithoutUser(c, x, usr[x].name)
  IN /\ UserIndexAllows(x, new.name)
     /\ usr' = [usr EXCEPT ![x] = new]
     /\ \/ new.name = usr[x].name /\ claims' = c
        \/ /\ new.name # usr[x].name /\ new.name # NoName
           /\ UserMayClaim(freed, x, new.name, inserting)
           /\ claims' = [freed EXCEPT ![new.name].user = x]
        \/ /\ new.name # usr[x].name /\ new.name = NoName
           /\ claims' = freed
-------------------------------------------------------------------------------
(***************************************************************************)
(* Signups.                                                                *)
(***************************************************************************)

NoAccountHas(n) == \A x \in User : usr[x].name # n

Begin(h, op, who, n) == /\ job[h] = NoJob
                        /\ job' = [job EXCEPT ![h] = [op |-> op, who |-> who, name |-> n]]

End(h) == job' = [job EXCEPT ![h] = NoJob]

Serves(h, op) == job[h] # NoJob /\ job[h].op = op

\* useSubmitSignup up to the insert: the name looks free.
CheckSubmission(h, n) ==
  /\ \A s \in Signup : ~(Active(sub[s]) /\ sub[s].name = n)
  /\ NoAccountHas(n)
  /\ Begin(h, "submit", NoOne, n)
  /\ UNCHANGED <<sub, usr, claims, queued, admins>>

CreatePendingSignup(h, s) ==
  /\ Serves(h, "submit")
  /\ sub[s].status = "none"
  /\ WriteSignup(s, [status |-> "pending", name |-> job[h].name])
  /\ End(h)
  /\ UNCHANGED <<usr, queued, admins>>

\* saveSignupEdits up to the update: it locks the row and finds the name free.
StartEdit(h, s, n) ==
  /\ sub[s].status = "pending" /\ ~Locked(s)
  /\ \A t \in Signup \ {s} : ~(Active(sub[t]) /\ sub[t].name = n)
  /\ NoAccountHas(n)
  /\ Begin(h, "edit", s, n)
  /\ UNCHANGED <<sub, usr, claims, queued, admins>>

SaveSignupEdits(h) ==
  /\ Serves(h, "edit")
  /\ LET s == job[h].who IN WriteSignup(s, [sub[s] EXCEPT !.name = job[h].name])
  /\ End(h)
  /\ UNCHANGED <<usr, queued, admins>>

\* useApproveSignup; the row it returns goes into the event's payload.
ApproveSignup(s) ==
  /\ sub[s].status = "pending" /\ ~Locked(s)
  /\ WriteSignup(s, [sub[s] EXCEPT !.status = "approved"])
  /\ queued' = [queued EXCEPT ![s] = sub[s].name]
  /\ UNCHANGED <<usr, admins, job>>

DenySignup(s) ==
  /\ sub[s].status = "pending" /\ ~Locked(s)
  /\ WriteSignup(s, [sub[s] EXCEPT !.status = "denied"])
  /\ UNCHANGED <<usr, queued, admins, job>>
-------------------------------------------------------------------------------
(***************************************************************************)
(* Accounts.                                                               *)
(***************************************************************************)

\* saveProfile up to its transaction.
CheckProfile(h, x, n) ==
  /\ usr[x].phase # "none"
  /\ \A y \in User \ {x} : usr[y].name # n
  /\ n # usr[x].name => claims[n].signup = NoOne /\ claims[n].user \in {NoOne, x}
  /\ Begin(h, "profile", x, n)
  /\ UNCHANGED <<sub, usr, claims, queued, admins>>

SaveProfile(h) ==
  /\ Serves(h, "profile")
  /\ LET x == job[h].who
     IN /\ usr[x].phase # "none"
        /\ WriteUser(claims, x, [usr[x] EXCEPT !.name = job[h].name], FALSE)
  /\ End(h)
  /\ UNCHANGED <<sub, queued, admins>>

\* A request ends without a write.
Abort(h) == /\ job[h] # NoJob
            /\ End(h)
            /\ UNCHANGED <<sub, usr, claims, queued, admins>>

InUse(r) == \E h \in Handler : job[h] # NoJob /\ job[h].who = r

\* A first sign-in inserts the user; n is the name in the Microsoft profile.
CreateUser(x, n) ==
  /\ usr[x].phase = "none" /\ ~InUse(x)
  /\ WriteUser(claims, x, [phase |-> "created", name |-> n, login |-> n], TRUE)
  /\ UNCHANGED <<sub, queued, admins, job>>

\* attachApprovedSignupClaim: the claims after it, where it succeeds.
MayAttach(x, s) == /\ claims[sub[s].name].signup = s
                   /\ claims[sub[s].name].user \in {NoOne, x}

Attached(x, s) ==
  [n \in Name |->
     IF n = sub[s].name THEN [claims[n] EXCEPT !.user = x]
     ELSE IF claims[n].user = x THEN [claims[n] EXCEPT !.user = NoOne]
     ELSE claims[n]]

\* The approved signups the bootstrap may choose for x.
Matches(x) == {s \in Signup : /\ sub[s].status = "approved"
                              /\ usr[x].login \in {NoName, sub[s].name}}

\* Mutant: the count is taken for the number of other users.
Mut_Granted(x) == IF Cardinality({y \in User : usr[y].phase # "none"}) <= 2
                  THEN admins \cup {x} ELSE admins

Granted(x) == IF {y \in User : usr[y].phase # "none"} = {x}
              THEN admins \cup {x} ELSE admins

Ready(x, n) == [phase |-> "ready", name |-> n, login |-> NoName]

\* bootstrapUser, its transaction committed.
BootstrapUser(x) ==
  /\ usr[x].phase = "created"
  /\ \/ \E s \in Matches(x) :
          /\ MayAttach(x, s)
          /\ WriteUser(Attached(x, s), x, Ready(x, sub[s].name), FALSE)
     \/ /\ usr[x].login = NoName \/ Matches(x) = {}
        /\ WriteUser(claims, x, Ready(x, usr[x].name), FALSE)
  /\ admins' = Granted(x)
  /\ UNCHANGED <<sub, queued, job>>

\* The bootstrap's transaction rolls back, or the portal stops before it: the
\* hook runs once, so the account stays without roles.
BootstrapLost(x) == /\ usr[x].phase = "created"
                    /\ usr' = [usr EXCEPT ![x].phase = "failed", ![x].login = NoName]
                    /\ UNCHANGED <<sub, claims, queued, admins, job>>

\* Mutant: they stay.
Mut_Cascade(x) == admins

\* The role assignments of a deleted user go with it.
Cascade(x) == admins \ {x}

DeleteUser(x) == /\ x \in Disposable /\ usr[x].phase # "none"
                 /\ WriteUser(claims, x, NoUser, FALSE)
                 /\ admins' = Cascade(x)
                 /\ UNCHANGED <<sub, queued, job>>

\* The operator deletes the provisioning event first.
DeleteSignup(s) == /\ s \in Disposable /\ sub[s].status # "none" /\ ~Locked(s)
                   /\ WriteSignup(s, NoSignup)
                   /\ queued' = [queued EXCEPT ![s] = NoName]
                   /\ UNCHANGED <<usr, admins, job>>
-------------------------------------------------------------------------------
HandlerStep(h) ==
  \/ \E n \in Name : CheckSubmission(h, n)
  \/ \E s \in Signup : CreatePendingSignup(h, s)
  \/ \E s \in Signup, n \in Name : StartEdit(h, s, n)
  \/ SaveSignupEdits(h)
  \/ \E x \in User, n \in Name : CheckProfile(h, x, n)
  \/ SaveProfile(h)
  \/ Abort(h)

Next == \/ \E h \in Handler : HandlerStep(h)
        \/ \E s \in Signup : ApproveSignup(s) \/ DenySignup(s) \/ DeleteSignup(s)
        \/ \E x \in User : \/ \E n \in Name \cup {NoName} : CreateUser(x, n)
                           \/ BootstrapUser(x) \/ BootstrapLost(x) \/ DeleteUser(x)

Spec == Init /\ [][Next]_vars
-------------------------------------------------------------------------------
(***************************************************************************)
(* Properties.                                                             *)
(***************************************************************************)

\* Every row is one the tables can hold; a signup has a payload exactly when it
\* was approved, and a role belongs to an account that finished its first login.
TypeOK ==
  /\ sub \in [Signup -> Signups]
  /\ \A s \in Signup : sub[s].status = "none" <=> sub[s].name = NoName
  /\ usr \in [User -> Users]
  /\ \A x \in User : /\ usr[x].phase = "none" => usr[x] = NoUser
                     /\ usr[x].phase # "created" => usr[x].login = NoName
  /\ claims \in [Name -> Claims]
  /\ queued \in [Signup -> Name \cup {NoName}]
  /\ \A s \in Signup : queued[s] # NoName <=> sub[s].status = "approved"
  /\ admins \subseteq {x \in User : usr[x].phase = "ready"}
  /\ job \in [Handler -> Jobs \cup {NoJob}]
  /\ \A h \in Handler : Serves(h, "edit") => job[h].who \in Signup
  /\ \A h \in Handler : Serves(h, "profile") => job[h].who \in User

\* The claims say exactly who has which name: whatever order edits, reviews,
\* profile changes, first logins and deletions come in, no name stays reserved
\* for nobody and no holder of a name is without its claim
\* (drizzle/0010_shared_username_claims.sql, lib/username-claims.ts).
ClaimsAreExact ==
  \A n \in Name :
    /\ \A s \in Signup : claims[n].signup = s <=> Active(sub[s]) /\ sub[s].name = n
    /\ \A x \in User : claims[n].user = x <=> usr[x].name = n

\* The directory account of an approved signup is created under the name the
\* signup keeps reserved: no edit slips in between the review and the payload
\* (lib/signups/edit.ts:39, admin/signups/index.tsx:121).
AccountIsReserved ==
  \A s \in Signup : sub[s].status = "approved" =>
    /\ queued[s] = sub[s].name
    /\ claims[queued[s]].signup = s

\* Two accounts never become administrator by being first, deletions and
\* concurrent first logins included (lib/auth-bootstrap.ts:49).
OneFounder == \A x, y \in admins : x = y

\* Somebody does: once every first login has succeeded there is an
\* administrator, as the comment of bootstrapUser says of concurrent first
\* logins (lib/auth-bootstrap.ts:27).
FirstUserIsAdmin ==
  LET existing == {x \in User : usr[x].phase # "none"}
  IN existing # {} /\ (\A x \in existing : usr[x].phase = "ready") => admins # {}

Registry == INSTANCE UsernameRegistry WITH
  applicant <- [s \in Signup |-> IF Active(sub[s]) THEN sub[s].name ELSE NoName],
  member <- [x \in User |-> usr[x].name],
  approved <- {s \in Signup : sub[s].status = "approved"}

\* The database keeps the promise of UsernameRegistry, whatever the requests
\* checked before they wrote: a name is shared only by an approved signup and
\* the account that came for it, and an approved signup keeps its name.
KeepsRegistry == Registry!Spec
================================================================================
