-------------------------- MODULE UsernameClaimsProofs -------------------------
(***************************************************************************)
(* The invariants of UsernameClaims hold for any signups, accounts, names  *)
(* and requests, and the tables implement UsernameRegistry.                *)
(***************************************************************************)
EXTENDS UsernameClaims, TLAPS

\* A signup somebody is editing waits for review: the lock keeps it there.
EditsArePending ==
  \A h \in Handler : Serves(h, "edit") => sub[job[h].who].status = "pending"

IInv == TypeOK /\ ClaimsAreExact /\ AccountIsReserved /\ OneFounder /\ EditsArePending
-------------------------------------------------------------------------------
(***************************************************************************)
(* Typing facts.                                                           *)
(***************************************************************************)

LEMMA SubTyped ==
  ASSUME TypeOK, NEW s \in Signup
  PROVE  /\ sub[s] \in Signups
         /\ sub[s].status \in {"none", "pending", "approved", "denied"}
         /\ sub[s].name \in Name \cup {NoName}
         /\ sub[s].status # "none" => sub[s].name \in Name
         /\ Active(sub[s]) => sub[s].name \in Name /\ sub[s].status # "none"
BY DEF TypeOK, Signups, Active

LEMMA UsrTyped ==
  ASSUME TypeOK, NEW x \in User
  PROVE  /\ usr[x].phase \in {"none", "created", "ready", "failed"}
         /\ usr[x].name \in Name \cup {NoName}
         /\ usr[x].login \in Name \cup {NoName}
         /\ usr[x] \in Users
         /\ usr[x].phase = "none" => usr[x].name = NoName /\ usr[x].login = NoName
         /\ usr[x].phase # "created" => usr[x].login = NoName
BY DEF TypeOK, Users, NoUser

\* Records with one field replaced.
LEMMA SignupNamed ==
  ASSUME NEW r \in Signups, NEW n \in Name \cup {NoName}
  PROVE  /\ [r EXCEPT !.name = n] \in Signups
         /\ [r EXCEPT !.name = n].name = n
         /\ [r EXCEPT !.name = n].status = r.status
BY DEF Signups

LEMMA SignupReviewed ==
  ASSUME NEW r \in Signups, NEW v \in {"none", "pending", "approved", "denied"}
  PROVE  /\ [r EXCEPT !.status = v] \in Signups
         /\ [r EXCEPT !.status = v].name = r.name
         /\ [r EXCEPT !.status = v].status = v
BY DEF Signups

LEMMA UserNamed ==
  ASSUME NEW r \in Users, NEW n \in Name \cup {NoName}
  PROVE  /\ [r EXCEPT !.name = n] \in Users
         /\ [r EXCEPT !.name = n].name = n
         /\ [r EXCEPT !.name = n].phase = r.phase
         /\ [r EXCEPT !.name = n].login = r.login
BY DEF Users

LEMMA ClaimTyped ==
  ASSUME NEW c \in [Name -> Claims], NEW n \in Name
  PROVE  /\ c[n].signup \in Signup \cup {NoOne} /\ c[n].user \in User \cup {NoOne}
         /\ c[n] = [signup |-> c[n].signup, user |-> c[n].user]
BY DEF Claims

LEMMA JobTyped ==
  ASSUME TypeOK, NEW h \in Handler, job[h] # NoJob
  PROVE  /\ job[h].op \in {"submit", "edit", "profile"}
         /\ job[h].name \in Name
         /\ job[h].who \in Signup \cup User \cup {NoOne}
BY DEF TypeOK, Jobs
-------------------------------------------------------------------------------
(***************************************************************************)
(* What the triggers do to exact claims.                                   *)
(***************************************************************************)

\* A write of a signup leaves the claims exact.
LEMMA SignupWriteIsExact ==
  ASSUME TypeOK, ClaimsAreExact, UNCHANGED usr,
         NEW s \in Signup, NEW new \in Signups,
         Active(new) => new.name \in Name,
         WriteSignup(s, new)
  PROVE  /\ sub' = [sub EXCEPT ![s] = new]
         /\ claims' \in [Name -> Claims]
         /\ ClaimsAreExact'
         /\ Active(new) /\ new.name # sub[s].name => NoAccountHas(new.name)
<1> DEFINE old == sub[s].name
           freed == WithoutSignup(claims, s, old)
<1>1. /\ claims \in [Name -> Claims] /\ sub \in [Signup -> Signups]
      /\ sub' = [sub EXCEPT ![s] = new]
      /\ old \in Name \cup {NoName} /\ NoName \notin Name /\ NoOne \notin Signup
      /\ sub'[s] = new /\ \A t \in Signup \ {s} : sub'[t] = sub[t]
  BY SubTyped, NamesAssumption DEF TypeOK, WriteSignup
<1>2. /\ freed \in [Name -> Claims]
      /\ \A n \in Name : freed[n].user = claims[n].user
      /\ \A n \in Name : freed[n].signup = IF n = old /\ claims[n].signup = s
                                           THEN NoOne ELSE claims[n].signup
  <2>1. CASE old # NoName /\ claims[old].signup = s
    BY <1>1, <2>1, ClaimTyped DEF WithoutSignup, Claims
  <2>2. CASE ~(old # NoName /\ claims[old].signup = s)
    BY <1>1, <2>2 DEF WithoutSignup
  <2> QED
    BY <2>1, <2>2
<1>3. CASE SameClaim(sub[s], new) /\ UNCHANGED claims
  <2>1. \A t \in Signup : /\ Active(sub'[t]) <=> Active(sub[t])
                          /\ sub'[t].name = sub[t].name
    BY <1>1, <1>3 DEF SameClaim
  <2> QED
    BY <1>1, <1>3, <2>1 DEF ClaimsAreExact, SameClaim
<1>4. CASE /\ Active(new) /\ SignupMayClaim(freed, s, new.name)
           /\ claims' = [freed EXCEPT ![new.name].signup = s]
  <2>1. /\ claims' \in [Name -> Claims]
        /\ \A n \in Name : claims'[n].user = claims[n].user
        /\ \A n \in Name : claims'[n].signup = IF n = new.name THEN s ELSE freed[n].signup
    BY <1>2, <1>4, ClaimTyped DEF Claims
  <2>2. claims[new.name].user = NoOne /\ freed[new.name].signup \in {NoOne, s}
    BY <1>2, <1>4 DEF SignupMayClaim
  <2>3. ASSUME NEW n \in Name, NEW t \in Signup
        PROVE  claims'[n].signup = t <=> Active(sub'[t]) /\ sub'[t].name = n
    <3>1. claims[n].signup = t <=> Active(sub[t]) /\ sub[t].name = n
      BY DEF ClaimsAreExact
    <3>2. claims[n].signup = s <=> Active(sub[s]) /\ sub[s].name = n
      BY DEF ClaimsAreExact
    <3>3. CASE t = s
      BY <1>1, <1>2, <1>4, <2>1, <3>2, <3>3
    <3>4. CASE t # s
      BY <1>1, <1>2, <1>4, <2>1, <2>2, <3>1, <3>2, <3>4
    <3> QED
      BY <3>3, <3>4
  <2>4. NoAccountHas(new.name)
    BY <1>1, <1>4, <2>2, NamesAssumption DEF ClaimsAreExact, NoAccountHas
  <2> QED
    BY <1>1, <2>1, <2>3, <2>4 DEF ClaimsAreExact
<1>5. CASE ~Active(new) /\ claims' = freed
  BY <1>1, <1>2, <1>5 DEF ClaimsAreExact
<1> QED
  BY <1>3, <1>4, <1>5 DEF WriteSignup

\* Claims a write of account x may start from: exact, or with x in the claim of
\* the name it is to get.
Prepared(c, x, new) ==
  /\ \A n \in Name : c[n].signup = claims[n].signup
  /\ \A n \in Name, y \in User \ {x} : c[n].user = y <=> usr[y].name = n
  /\ \A n \in Name : c[n].user = x => n \in {usr[x].name, new.name}
  /\ new.name \in Name /\ new.name = usr[x].name => c[new.name].user = x

\* A write of an account leaves the claims exact, also when the bootstrap put
\* the account into the claim of its signup before.
LEMMA UserWriteIsExact ==
  ASSUME TypeOK, ClaimsAreExact, UNCHANGED sub,
         NEW c \in [Name -> Claims], NEW x \in User, NEW new \in Users,
         NEW inserting,
         Prepared(c, x, new),
         WriteUser(c, x, new, inserting)
  PROVE  /\ usr' = [usr EXCEPT ![x] = new]
         /\ claims' \in [Name -> Claims]
         /\ ClaimsAreExact'
<1> DEFINE old == usr[x].name
           freed == WithoutUser(c, x, old)
<1>0. /\ \A n \in Name : c[n].signup = claims[n].signup
      /\ \A n \in Name, y \in User \ {x} : c[n].user = y <=> usr[y].name = n
      /\ \A n \in Name : c[n].user = x => n \in {usr[x].name, new.name}
      /\ new.name \in Name /\ new.name = usr[x].name => c[new.name].user = x
  BY DEF Prepared
<1>1. /\ usr \in [User -> Users] /\ usr' = [usr EXCEPT ![x] = new]
      /\ old \in Name \cup {NoName} /\ new.name \in Name \cup {NoName}
      /\ NoName \notin Name /\ NoOne \notin User
      /\ usr'[x] = new /\ \A y \in User \ {x} : usr'[y] = usr[y]
  BY UsrTyped, NamesAssumption DEF TypeOK, WriteUser, Users
<1>2. /\ freed \in [Name -> Claims]
      /\ \A n \in Name : freed[n].signup = c[n].signup
      /\ \A n \in Name : freed[n].user = IF n = old /\ c[n].user = x
                                         THEN NoOne ELSE c[n].user
  <2>1. CASE old # NoName /\ c[old].user = x
    BY <1>1, <2>1, ClaimTyped DEF WithoutUser, Claims
  <2>2. CASE ~(old # NoName /\ c[old].user = x)
    BY <1>1, <2>2 DEF WithoutUser
  <2> QED
    BY <2>1, <2>2
<1>3. CASE new.name = old /\ claims' = c
  <2>1. ASSUME NEW n \in Name, NEW y \in User
        PROVE  c[n].user = y <=> usr'[y].name = n
    BY <1>0, <1>1, <1>3
  <2> QED
    BY <1>0, <1>1, <1>3, <2>1 DEF ClaimsAreExact
<1>4. CASE /\ new.name # old /\ new.name # NoName
           /\ UserMayClaim(freed, x, new.name, inserting)
           /\ claims' = [freed EXCEPT ![new.name].user = x]
  <2>1. /\ claims' \in [Name -> Claims]
        /\ \A n \in Name : claims'[n].signup = c[n].signup
        /\ \A n \in Name : claims'[n].user = IF n = new.name THEN x ELSE freed[n].user
    BY <1>1, <1>2, <1>4, ClaimTyped DEF Claims
  <2>2. c[new.name].user \in {NoOne, x}
    BY <1>1, <1>2, <1>4 DEF UserMayClaim
  <2>3. ASSUME NEW n \in Name, NEW y \in User
        PROVE  claims'[n].user = y <=> usr'[y].name = n
    <3>1. CASE y = x
      BY <1>0, <1>1, <1>2, <1>4, <2>1, <3>1
    <3>2. CASE y # x
      BY <1>0, <1>1, <1>2, <1>4, <2>1, <2>2, <3>2
    <3> QED
      BY <3>1, <3>2
  <2> QED
    BY <1>0, <1>1, <2>1, <2>3 DEF ClaimsAreExact
<1>5. CASE new.name # old /\ new.name = NoName /\ claims' = freed
  <2>1. ASSUME NEW n \in Name, NEW y \in User
        PROVE  claims'[n].user = y <=> usr'[y].name = n
    BY <1>0, <1>1, <1>2, <1>5
  <2> QED
    BY <1>0, <1>1, <1>2, <1>5, <2>1 DEF ClaimsAreExact
<1> QED
  BY <1>1, <1>3, <1>4, <1>5 DEF WriteUser
-------------------------------------------------------------------------------
(***************************************************************************)
(* The invariant, action by action.                                        *)
(***************************************************************************)

LEMMA InitIInv == Init => IInv
<1> SUFFICES ASSUME Init PROVE IInv
  OBVIOUS
<1>1. /\ NoSignup \in Signups /\ NoUser \in Users /\ Unclaimed \in Claims
      /\ ~Active(NoSignup)
  BY DEF NoSignup, Signups, NoUser, Users, Unclaimed, Claims, Active
<1>2. TypeOK
  BY <1>1 DEF Init, TypeOK, NoSignup, NoUser, Serves
<1>3. ClaimsAreExact
  BY <1>1, NamesAssumption DEF Init, ClaimsAreExact, Unclaimed, NoUser
<1>4. AccountIsReserved /\ OneFounder /\ EditsArePending
  BY DEF Init, AccountIsReserved, OneFounder, EditsArePending, NoSignup, Serves
<1> QED
  BY <1>2, <1>3, <1>4 DEF IInv

\* A handler that begins or ends a request.
LEMMA JobStep ==
  ASSUME IInv, UNCHANGED <<sub, usr, claims, queued, admins>>, NEW h \in Handler,
         NEW j \in Jobs \cup {NoJob}, job' = [job EXCEPT ![h] = j],
         j # NoJob /\ j.op = "edit"
           => j.who \in Signup /\ sub[j.who].status = "pending",
         j # NoJob /\ j.op = "profile" => j.who \in User
  PROVE  IInv'
<1>1. /\ job \in [Handler -> Jobs \cup {NoJob}]
      /\ job'[h] = j /\ \A k \in Handler \ {h} : job'[k] = job[k]
  BY DEF IInv, TypeOK
<1>2. TypeOK'
  <2>1. job' \in [Handler -> Jobs \cup {NoJob}]
    BY <1>1
  <2>2. \A k \in Handler : /\ Serves(k, "edit")' => job'[k].who \in Signup
                           /\ (Serves(k, "profile")' => job'[k].who \in User)
    BY <1>1 DEF IInv, TypeOK, Serves
  <2> QED
    BY <2>1, <2>2 DEF IInv, TypeOK
<1>3. (ClaimsAreExact /\ AccountIsReserved /\ OneFounder)'
  BY DEF IInv, ClaimsAreExact, AccountIsReserved, OneFounder
<1>4. EditsArePending'
  BY <1>1 DEF IInv, EditsArePending, Serves
<1> QED
  BY <1>2, <1>3, <1>4 DEF IInv

LEMMA BeginStep ==
  ASSUME IInv, UNCHANGED <<sub, usr, claims, queued, admins>>, NEW h \in Handler,
         NEW op \in {"submit", "edit", "profile"},
         NEW who \in Signup \cup User \cup {NoOne}, NEW n \in Name,
         Begin(h, op, who, n),
         op = "edit" => who \in Signup /\ sub[who].status = "pending",
         op = "profile" => who \in User
  PROVE  IInv'
<1>1. [op |-> op, who |-> who, name |-> n] \in Jobs
  BY DEF Jobs
<1> QED
  BY <1>1, JobStep DEF Begin

\* After a request ends, the others serve what they served.
LEMMA EndTyped ==
  ASSUME TypeOK, NEW h \in Handler, End(h)
  PROVE  /\ job' \in [Handler -> Jobs \cup {NoJob}]
         /\ \A k \in Handler : \A op : Serves(k, op)' => Serves(k, op) /\ job'[k] = job[k]
         /\ ~Serves(h, "edit")'
<1>1. /\ job \in [Handler -> Jobs \cup {NoJob}]
      /\ job' = [job EXCEPT ![h] = NoJob]
  BY DEF TypeOK, End
<1> QED
  BY <1>1 DEF Serves

\* A write of signup s: what the caller has to show about the new row.
LEMMA SignupStep ==
  ASSUME IInv, UNCHANGED <<usr, admins>>,
         NEW s \in Signup, NEW new \in Signups, WriteSignup(s, new),
         new.status = "none" <=> new.name = NoName,
         queued' \in [Signup -> Name \cup {NoName}],
         \A t \in Signup \ {s} : queued'[t] = queued[t],
         queued'[s] = IF new.status = "approved" THEN new.name ELSE NoName,
         job' \in [Handler -> Jobs \cup {NoJob}],
         \A h \in Handler : \A op : Serves(h, op)' => Serves(h, op) /\ job'[h] = job[h],
         new.status # "pending" => \A h \in Handler : Serves(h, "edit")' => job'[h].who # s
  PROVE  IInv'
<1>1. Active(new) => new.name \in Name
  BY DEF Active, Signups
<1>2. /\ sub' = [sub EXCEPT ![s] = new]
      /\ claims' \in [Name -> Claims]
      /\ ClaimsAreExact'
  BY <1>1, SignupWriteIsExact DEF IInv
<1>3. sub'[s] = new /\ \A t \in Signup \ {s} : sub'[t] = sub[t]
  BY <1>2 DEF IInv, TypeOK
<1>4. TypeOK'
  <2>1. sub' \in [Signup -> Signups]
    BY <1>2 DEF IInv, TypeOK
  <2>2. \A t \in Signup : sub'[t].status = "none" <=> sub'[t].name = NoName
    BY <1>3 DEF IInv, TypeOK
  <2>3. \A t \in Signup : queued'[t] # NoName <=> sub'[t].status = "approved"
    BY <1>1, <1>3, NamesAssumption DEF IInv, TypeOK, Active
  <2>4. /\ \A h \in Handler : Serves(h, "edit")' => job'[h].who \in Signup
        /\ \A h \in Handler : Serves(h, "profile")' => job'[h].who \in User
    BY DEF IInv, TypeOK
  <2> QED
    BY <1>2, <2>1, <2>2, <2>3, <2>4 DEF IInv, TypeOK
<1>5. AccountIsReserved'
  <2> SUFFICES ASSUME NEW t \in Signup, sub'[t].status = "approved"
               PROVE  queued'[t] = sub'[t].name /\ claims'[queued'[t]].signup = t
    BY DEF AccountIsReserved
  <2>1. queued'[t] = sub'[t].name
    BY <1>3 DEF IInv, AccountIsReserved
  <2>2. sub'[t].name \in Name
    BY <1>4, <1>3 DEF TypeOK, Signups
  <2> QED
    BY <1>2, <2>1, <2>2 DEF ClaimsAreExact, Active
<1>6. OneFounder'
  BY DEF IInv, OneFounder
<1>7. EditsArePending'
  <2> SUFFICES ASSUME NEW h \in Handler, Serves(h, "edit")'
               PROVE  sub'[job'[h].who].status = "pending"
    BY DEF EditsArePending
  <2>1. /\ Serves(h, "edit") /\ job'[h] = job[h]
        /\ job[h].who \in Signup /\ sub[job[h].who].status = "pending"
    BY DEF IInv, TypeOK, EditsArePending
  <2> QED
    BY <1>3, <2>1
<1> QED
  BY <1>2, <1>4, <1>5, <1>6, <1>7 DEF IInv

\* A write of account x, through the trigger.
LEMMA UserStep ==
  ASSUME IInv, UNCHANGED <<sub, queued>>,
         NEW c \in [Name -> Claims], NEW x \in User, NEW new \in Users,
         NEW inserting,
         Prepared(c, x, new),
         WriteUser(c, x, new, inserting),
         new.phase = "none" => new = NoUser,
         new.phase # "created" => new.login = NoName,
         new.phase # "ready" => x \notin admins',
         \A y \in admins' : y = x \/ y \in admins,
         OneFounder',
         job' \in [Handler -> Jobs \cup {NoJob}],
         \A h \in Handler : \A op : Serves(h, op)' => Serves(h, op) /\ job'[h] = job[h]
  PROVE  IInv'
<1>1. /\ usr' = [usr EXCEPT ![x] = new]
      /\ claims' \in [Name -> Claims]
      /\ ClaimsAreExact'
  BY UserWriteIsExact DEF IInv
<1>2. /\ usr' \in [User -> Users]
      /\ usr'[x] = new /\ \A y \in User \ {x} : usr'[y] = usr[y]
  BY <1>1 DEF IInv, TypeOK
<1>3. TypeOK'
  <2>1. \A y \in User : /\ usr'[y].phase = "none" => usr'[y] = NoUser
                        /\ usr'[y].phase # "created" => usr'[y].login = NoName
    BY <1>2 DEF IInv, TypeOK
  <2>2. admins' \subseteq {y \in User : usr'[y].phase = "ready"}
    BY <1>2 DEF IInv, TypeOK
  <2>3. /\ \A h \in Handler : Serves(h, "edit")' => job'[h].who \in Signup
        /\ \A h \in Handler : Serves(h, "profile")' => job'[h].who \in User
    BY DEF IInv, TypeOK
  <2> QED
    BY <1>1, <1>2, <2>1, <2>2, <2>3 DEF IInv, TypeOK
<1>4. AccountIsReserved'
  <2> SUFFICES ASSUME NEW t \in Signup, sub[t].status = "approved"
               PROVE  queued[t] = sub[t].name /\ claims'[queued[t]].signup = t
    BY DEF AccountIsReserved
  <2>1. queued[t] = sub[t].name /\ Active(sub[t])
    BY DEF IInv, AccountIsReserved, Active
  <2>2. sub[t].name \in Name
    BY SubTyped DEF IInv
  <2> QED
    BY <1>1, <2>1, <2>2 DEF ClaimsAreExact
<1>5. EditsArePending'
  <2> SUFFICES ASSUME NEW h \in Handler, Serves(h, "edit")'
               PROVE  sub[job'[h].who].status = "pending"
    BY DEF EditsArePending
  <2> QED
    BY DEF IInv, EditsArePending
<1> QED
  BY <1>1, <1>3, <1>4, <1>5 DEF IInv

\* The same with the claims as they are, roles kept or taken away.
LEMMA PlainUserStep ==
  ASSUME IInv, UNCHANGED <<sub, queued>>,
         NEW x \in User, NEW new \in Users, NEW inserting,
         WriteUser(claims, x, new, inserting),
         new.phase = "none" => new = NoUser,
         new.phase # "created" => new.login = NoName,
         new.phase # "ready" => x \notin admins',
         \A y \in admins' : y = x \/ y \in admins,
         OneFounder',
         job' \in [Handler -> Jobs \cup {NoJob}],
         \A h \in Handler : \A op : Serves(h, op)' => Serves(h, op) /\ job'[h] = job[h]
  PROVE  IInv'
<1>1. /\ claims \in [Name -> Claims]
      /\ \A n \in Name, y \in User : claims[n].user = y <=> usr[y].name = n
  BY DEF IInv, TypeOK, ClaimsAreExact
<1>2. Prepared(claims, x, new)
  BY <1>1 DEF Prepared
<1> QED
  BY <1>1, <1>2, UserStep

\* A request whose transaction is over leaves the others as they were.
LEMMA JobsKept ==
  ASSUME TypeOK, UNCHANGED job
  PROVE  /\ job' \in [Handler -> Jobs \cup {NoJob}]
         /\ \A k \in Handler : \A op : Serves(k, op)' => Serves(k, op) /\ job'[k] = job[k]
BY DEF TypeOK, Serves

\* Nobody edits a row that is not locked.
LEMMA NobodyEdits ==
  ASSUME NEW s, ~Locked(s), UNCHANGED job
  PROVE  \A h \in Handler : Serves(h, "edit")' => job'[h].who # s
BY DEF Locked, Serves

LEMMA HandlerIInv ==
  ASSUME IInv, NEW h \in Handler, HandlerStep(h)
  PROVE  IInv'
<1>0. TypeOK
  BY DEF IInv
<1>1. ASSUME NEW n \in Name, CheckSubmission(h, n) PROVE IInv'
  BY <1>1, BeginStep DEF CheckSubmission
<1>2. ASSUME NEW s \in Signup, CreatePendingSignup(h, s) PROVE IInv'
  <2> DEFINE new == [status |-> "pending", name |-> job[h].name]
  <2>1. /\ new \in Signups /\ new.status = "pending" /\ new.name \in Name
        /\ NoName \notin Name
    BY <1>0, <1>2, JobTyped, NamesAssumption DEF CreatePendingSignup, Serves, Signups
  <2>2. queued[s] = NoName /\ queued \in [Signup -> Name \cup {NoName}]
    BY <1>0, <1>2 DEF CreatePendingSignup, TypeOK
  <2>3. /\ job' \in [Handler -> Jobs \cup {NoJob}]
        /\ \A k \in Handler : \A op : Serves(k, op)' => Serves(k, op) /\ job'[k] = job[k]
    BY <1>0, <1>2, EndTyped DEF CreatePendingSignup
  <2>4. WriteSignup(s, new) /\ UNCHANGED <<usr, queued, admins>>
    BY <1>2 DEF CreatePendingSignup
  <2> HIDE DEF new
  <2> QED
    BY <2>1, <2>2, <2>3, <2>4, SignupStep
<1>3. ASSUME NEW s \in Signup, NEW n \in Name, StartEdit(h, s, n) PROVE IInv'
  BY <1>3, BeginStep DEF StartEdit
<1>4. CASE SaveSignupEdits(h)
  <2> DEFINE s == job[h].who
             new == [sub[s] EXCEPT !.name = job[h].name]
  <2>1. /\ Serves(h, "edit") /\ s \in Signup /\ sub[s].status = "pending"
        /\ job[h].name \in Name /\ NoName \notin Name
    BY <1>0, <1>4, JobTyped, NamesAssumption
       DEF SaveSignupEdits, TypeOK, IInv, EditsArePending, Serves
  <2>2. new \in Signups /\ new.status = "pending" /\ new.name \in Name
    BY <1>0, <2>1, SubTyped, SignupNamed
  <2>3. queued[s] = NoName /\ queued \in [Signup -> Name \cup {NoName}]
    BY <1>0, <2>1 DEF TypeOK
  <2>4. /\ job' \in [Handler -> Jobs \cup {NoJob}]
        /\ \A k \in Handler : \A op : Serves(k, op)' => Serves(k, op) /\ job'[k] = job[k]
    BY <1>0, <1>4, EndTyped DEF SaveSignupEdits
  <2>5. WriteSignup(s, new) /\ UNCHANGED <<usr, queued, admins>>
    BY <1>4 DEF SaveSignupEdits
  <2> HIDE DEF new, s
  <2> QED
    BY <2>1, <2>2, <2>3, <2>4, <2>5, SignupStep
<1>5. ASSUME NEW x \in User, NEW n \in Name, CheckProfile(h, x, n) PROVE IInv'
  BY <1>5, BeginStep DEF CheckProfile
<1>6. CASE SaveProfile(h)
  <2> DEFINE x == job[h].who
             new == [usr[x] EXCEPT !.name = job[h].name]
  <2>1. /\ Serves(h, "profile") /\ x \in User /\ usr[x].phase # "none"
        /\ job[h].name \in Name
    BY <1>0, <1>6, JobTyped DEF SaveProfile, TypeOK, Serves
  <2>2. /\ new \in Users /\ new.phase # "none" /\ new.phase = usr[x].phase
        /\ new.phase # "created" => new.login = NoName
    BY <1>0, <2>1, UsrTyped, UserNamed
  <2>3. /\ job' \in [Handler -> Jobs \cup {NoJob}]
        /\ \A k \in Handler : \A op : Serves(k, op)' => Serves(k, op) /\ job'[k] = job[k]
    BY <1>0, <1>6, EndTyped DEF SaveProfile
  <2>4. WriteUser(claims, x, new, FALSE) /\ UNCHANGED <<sub, queued, admins>>
    BY <1>6 DEF SaveProfile
  <2>5. OneFounder' /\ (new.phase # "ready" => x \notin admins)
    BY <2>2, <2>4 DEF IInv, OneFounder, TypeOK
  <2> HIDE DEF new, x
  <2> QED
    BY <2>1, <2>2, <2>3, <2>4, <2>5, PlainUserStep
<1>7. CASE Abort(h)
  BY <1>7, JobStep DEF Abort, End
<1> QED
  BY <1>1, <1>2, <1>3, <1>4, <1>5, <1>6, <1>7 DEF HandlerStep

LEMMA ReviewIInv ==
  ASSUME IInv, NEW s \in Signup, ApproveSignup(s) \/ DenySignup(s) \/ DeleteSignup(s)
  PROVE  IInv'
<1>0. /\ TypeOK /\ NoName \notin Name
      /\ queued \in [Signup -> Name \cup {NoName}]
  BY NamesAssumption DEF IInv, TypeOK
<1>1. /\ UNCHANGED job /\ ~Locked(s) /\ UNCHANGED <<usr, admins>>
  BY DEF ApproveSignup, DenySignup, DeleteSignup
<1>2. /\ job' \in [Handler -> Jobs \cup {NoJob}]
      /\ \A k \in Handler : \A op : Serves(k, op)' => Serves(k, op) /\ job'[k] = job[k]
      /\ \A h \in Handler : Serves(h, "edit")' => job'[h].who # s
  BY <1>0, <1>1, JobsKept, NobodyEdits
<1>3. CASE ApproveSignup(s)
  <2> DEFINE new == [sub[s] EXCEPT !.status = "approved"]
  <2>1. /\ new \in Signups /\ new.status = "approved"
        /\ new.name = sub[s].name /\ new.name \in Name
    BY <1>0, <1>3, SubTyped, SignupReviewed DEF ApproveSignup
  <2>2. /\ WriteSignup(s, new)
        /\ queued' = [queued EXCEPT ![s] = sub[s].name]
    BY <1>3 DEF ApproveSignup
  <2> HIDE DEF new
  <2>3. /\ queued' \in [Signup -> Name \cup {NoName}]
        /\ \A t \in Signup \ {s} : queued'[t] = queued[t]
        /\ queued'[s] = new.name
    BY <1>0, <2>1, <2>2
  <2> QED
    BY <1>0, <1>1, <1>2, <2>1, <2>2, <2>3, SignupStep
<1>4. CASE DenySignup(s)
  <2> DEFINE new == [sub[s] EXCEPT !.status = "denied"]
  <2>1. new \in Signups /\ new.status = "denied" /\ new.name \in Name
    BY <1>0, <1>4, SubTyped, SignupReviewed DEF DenySignup
  <2>2. WriteSignup(s, new) /\ UNCHANGED queued /\ queued[s] = NoName
    BY <1>4, <1>0 DEF DenySignup, TypeOK
  <2> HIDE DEF new
  <2> QED
    BY <1>0, <1>1, <1>2, <2>1, <2>2, SignupStep
<1>5. CASE DeleteSignup(s)
  <2>1. NoSignup \in Signups /\ NoSignup.status = "none" /\ NoSignup.name = NoName
    BY DEF NoSignup, Signups
  <2>2. /\ WriteSignup(s, NoSignup)
        /\ queued' = [queued EXCEPT ![s] = NoName]
    BY <1>5 DEF DeleteSignup
  <2>3. /\ queued' \in [Signup -> Name \cup {NoName}]
        /\ \A t \in Signup \ {s} : queued'[t] = queued[t]
        /\ queued'[s] = NoName
    BY <1>0, <2>2
  <2> QED
    BY <1>0, <1>1, <1>2, <2>1, <2>2, <2>3, SignupStep
<1> QED
  BY <1>3, <1>4, <1>5

\* Roles the bootstrap grants: only to somebody who is alone.
LEMMA GrantedIsAlone ==
  ASSUME IInv, NEW x \in User
  PROVE  /\ \A y \in Granted(x) : y = x \/ y \in admins
         /\ \A y, z \in Granted(x) : y = z
<1>1. \A y \in admins : y \in {z \in User : usr[z].phase # "none"}
  BY DEF IInv, TypeOK
<1> QED
  BY <1>1 DEF Granted, IInv, OneFounder

\* What the bootstrap finds the claims to be after it attached the account.
LEMMA AttachedClaims ==
  ASSUME IInv, NEW x \in User, NEW s \in Signup, sub[s].status = "approved",
         MayAttach(x, s)
  PROVE  /\ Attached(x, s) \in [Name -> Claims]
         /\ \A n \in Name : Attached(x, s)[n].signup = claims[n].signup
         /\ \A n \in Name, y \in User \ {x} : Attached(x, s)[n].user = y <=> usr[y].name = n
         /\ \A n \in Name : Attached(x, s)[n].user = x <=> n = sub[s].name
<1>1. /\ claims \in [Name -> Claims] /\ NoOne \notin User /\ sub[s].name \in Name
      /\ \A n \in Name, y \in User : claims[n].user = y <=> usr[y].name = n
      /\ claims[sub[s].name].user \in {NoOne, x}
  BY SubTyped, NamesAssumption DEF IInv, TypeOK, ClaimsAreExact, MayAttach
<1> DEFINE c(n) == IF n = sub[s].name THEN [claims[n] EXCEPT !.user = x]
                   ELSE IF claims[n].user = x THEN [claims[n] EXCEPT !.user = NoOne]
                   ELSE claims[n]
<1>2. ASSUME NEW n \in Name
      PROVE  /\ c(n) \in Claims /\ c(n).signup = claims[n].signup
             /\ c(n).user = IF n = sub[s].name THEN x
                            ELSE IF claims[n].user = x THEN NoOne ELSE claims[n].user
  <2>1. claims[n] \in Claims
    BY <1>1
  <2> QED
    BY <2>1 DEF Claims
<1>3. \A n \in Name : Attached(x, s)[n] = c(n)
  BY DEF Attached
<1>4. Attached(x, s) \in [Name -> Claims]
  BY <1>2 DEF Attached
<1> HIDE DEF c
<1>7. ASSUME NEW n \in Name
      PROVE  Attached(x, s)[n].user = IF n = sub[s].name THEN x
               ELSE IF claims[n].user = x THEN NoOne ELSE claims[n].user
  BY <1>2, <1>3
<1>5. ASSUME NEW n \in Name, NEW y \in User \ {x}
      PROVE  Attached(x, s)[n].user = y <=> usr[y].name = n
  BY <1>1, <1>7
<1>6. ASSUME NEW n \in Name
      PROVE  Attached(x, s)[n].user = x <=> n = sub[s].name
  BY <1>1, <1>7
<1> QED
  BY <1>2, <1>3, <1>4, <1>5, <1>6

LEMMA AccountIInv ==
  ASSUME IInv, NEW x \in User,
         \/ \E n \in Name \cup {NoName} : CreateUser(x, n)
         \/ BootstrapUser(x) \/ BootstrapLost(x) \/ DeleteUser(x)
  PROVE  IInv'
<1>0. TypeOK /\ OneFounder /\ admins \subseteq {y \in User : usr[y].phase = "ready"}
  BY DEF IInv, TypeOK
<1>1. /\ UNCHANGED <<sub, queued, job>>
      /\ job' \in [Handler -> Jobs \cup {NoJob}]
      /\ \A k \in Handler : \A op : Serves(k, op)' => Serves(k, op) /\ job'[k] = job[k]
  <2>1. UNCHANGED <<sub, queued, job>>
    BY DEF CreateUser, BootstrapUser, BootstrapLost, DeleteUser
  <2> QED
    BY <1>0, <2>1, JobsKept
<1>2. ASSUME NEW n \in Name \cup {NoName}, CreateUser(x, n) PROVE IInv'
  <2> DEFINE new == [phase |-> "created", name |-> n, login |-> n]
  <2>1. new \in Users /\ new.phase = "created"
    BY DEF Users
  <2>2. /\ WriteUser(claims, x, new, TRUE) /\ UNCHANGED admins /\ x \notin admins
        /\ OneFounder'
    BY <1>0, <1>2 DEF CreateUser, OneFounder
  <2> HIDE DEF new
  <2> QED
    BY <1>1, <2>1, <2>2, PlainUserStep
<1>3. CASE BootstrapUser(x)
  <2>1. /\ \A y \in admins' : y = x \/ y \in admins
        /\ OneFounder'
    BY <1>3, GrantedIsAlone DEF BootstrapUser, OneFounder
  <2>2. ASSUME NEW n \in Name \cup {NoName}
        PROVE  /\ Ready(x, n) \in Users /\ Ready(x, n).phase = "ready"
               /\ Ready(x, n).login = NoName /\ Ready(x, n).name = n
    BY DEF Ready, Users
  <2>3. ASSUME NEW s \in Matches(x), MayAttach(x, s),
               WriteUser(Attached(x, s), x, Ready(x, sub[s].name), FALSE)
        PROVE  IInv'
    <3>1. s \in Signup /\ sub[s].status = "approved" /\ sub[s].name \in Name
      BY <1>0, SubTyped DEF Matches
    <3> DEFINE new == Ready(x, sub[s].name)
               c == Attached(x, s)
    <3>2. /\ c \in [Name -> Claims]
          /\ \A n \in Name : c[n].signup = claims[n].signup
          /\ \A n \in Name, y \in User \ {x} : c[n].user = y <=> usr[y].name = n
          /\ \A n \in Name : c[n].user = x <=> n = sub[s].name
      BY <2>3, <3>1, AttachedClaims
    <3>3. /\ new \in Users /\ new.phase = "ready" /\ new.login = NoName
          /\ new.name = sub[s].name
      BY <2>2, <3>1
    <3>4. WriteUser(c, x, new, FALSE)
      BY <2>3
    <3> HIDE DEF new, c
    <3>5. Prepared(c, x, new) /\ c \in [Name -> Claims]
      BY <3>1, <3>2, <3>3 DEF Prepared
    <3> QED
      BY <1>1, <2>1, <3>3, <3>4, <3>5, UserStep
  <2>4. CASE WriteUser(claims, x, Ready(x, usr[x].name), FALSE)
    <3> DEFINE new == Ready(x, usr[x].name)
    <3>1. new \in Users /\ new.phase = "ready" /\ new.login = NoName
      BY <1>0, <2>2, UsrTyped
    <3>2. WriteUser(claims, x, new, FALSE)
      BY <2>4
    <3> HIDE DEF new
    <3> QED
      BY <1>1, <2>1, <3>1, <3>2, PlainUserStep
  <2> QED
    BY <1>3, <2>3, <2>4 DEF BootstrapUser
<1>4. CASE BootstrapLost(x)
  <2>1. /\ usr' = [usr EXCEPT ![x].phase = "failed", ![x].login = NoName]
        /\ usr[x].phase = "created" /\ usr[x] \in Users
        /\ UNCHANGED <<claims, admins>>
        /\ usr \in [User -> Users]
    BY <1>0, <1>4, UsrTyped DEF BootstrapLost, TypeOK
  <2>2. /\ usr'[x] \in Users /\ usr'[x].phase = "failed"
        /\ usr'[x].login = NoName /\ usr'[x].name = usr[x].name
        /\ \A y \in User \ {x} : usr'[y] = usr[y]
        /\ usr' \in [User -> Users]
    BY <2>1 DEF Users
  <2>3. TypeOK'
    <3>1. \A y \in User : /\ usr'[y].phase = "none" => usr'[y] = NoUser
                          /\ usr'[y].phase # "created" => usr'[y].login = NoName
      BY <1>0, <2>2 DEF TypeOK
    <3>2. admins' \subseteq {y \in User : usr'[y].phase = "ready"}
      BY <1>0, <2>1, <2>2
    <3>3. /\ \A h \in Handler : Serves(h, "edit")' => job'[h].who \in Signup
          /\ \A h \in Handler : Serves(h, "profile")' => job'[h].who \in User
      BY <1>0, <1>1 DEF TypeOK
    <3> QED
      BY <1>0, <1>1, <2>1, <2>2, <3>1, <3>2, <3>3 DEF TypeOK
  <2>4. ClaimsAreExact'
    BY <1>1, <2>1, <2>2 DEF IInv, ClaimsAreExact
  <2>5. (AccountIsReserved /\ OneFounder /\ EditsArePending)'
    BY <1>1, <2>1 DEF IInv, AccountIsReserved, OneFounder, EditsArePending, Serves
  <2> QED
    BY <2>3, <2>4, <2>5 DEF IInv
<1>5. CASE DeleteUser(x)
  <2>1. NoUser \in Users /\ NoUser.phase = "none" /\ NoUser.login = NoName
    BY DEF NoUser, Users
  <2>2. /\ WriteUser(claims, x, NoUser, FALSE)
        /\ x \notin admins' /\ \A y \in admins' : y \in admins
        /\ OneFounder'
    BY <1>0, <1>5 DEF DeleteUser, Cascade, OneFounder
  <2> QED
    BY <1>1, <2>1, <2>2, PlainUserStep
<1> QED
  BY <1>2, <1>3, <1>4, <1>5

LEMMA NextIInv ==
  ASSUME IInv, [Next]_vars
  PROVE  IInv'
<1>1. CASE UNCHANGED vars
  BY <1>1 DEF vars, IInv, TypeOK, ClaimsAreExact, AccountIsReserved, OneFounder,
              EditsArePending, Serves
<1>2. CASE Next
  BY <1>2, HandlerIInv, ReviewIInv, AccountIInv DEF Next
<1> QED
  BY <1>1, <1>2

LEMMA Inductive == Spec => []IInv
<1>1. Init => IInv
  BY InitIInv
<1>2. IInv /\ [Next]_vars => IInv'
  BY NextIInv
<1> QED
  BY <1>1, <1>2, PTL DEF Spec

\* Every row is one the tables can hold, in every reachable state.
THEOREM TypeCorrect == Spec => []TypeOK
<1>1. IInv => TypeOK
  BY DEF IInv
<1> QED
  BY <1>1, Inductive, PTL

\* The claims name exactly the holders, whatever order the transactions of
\* signups, reviews, profiles, first logins and deletions commit in.
THEOREM ExactClaims == Spec => []ClaimsAreExact
<1>1. IInv => ClaimsAreExact
  BY DEF IInv
<1> QED
  BY <1>1, Inductive, PTL

\* The name sent to the directory stays the approved signup's own.
THEOREM ReservedAccounts == Spec => []AccountIsReserved
<1>1. IInv => AccountIsReserved
  BY DEF IInv
<1> QED
  BY <1>1, Inductive, PTL

\* The bootstrap never makes a second account administrator.
THEOREM SingleFounder == Spec => []OneFounder
<1>1. IInv => OneFounder
  BY DEF IInv
<1> QED
  BY <1>1, Inductive, PTL
-------------------------------------------------------------------------------
(***************************************************************************)
(* The tables keep the promise of UsernameRegistry.                        *)
(***************************************************************************)

NameAsked(r) == IF Active(r) THEN r.name ELSE NoName

Applicants == [s \in Signup |-> IF Active(sub[s]) THEN sub[s].name ELSE NoName]
Members == [x \in User |-> usr[x].name]
Approved == {s \in Signup : sub[s].status = "approved"}

\* A row is replaced.
Rewrites(s, new) == sub' = [sub EXCEPT ![s] = new]
RewritesUser(x, new) == usr' = [usr EXCEPT ![x] = new]

\* What the promise sees of a write of a signup.
LEMMA SignupSeen ==
  ASSUME TypeOK, NEW s \in Signup, NEW new, Rewrites(s, new), UNCHANGED usr
  PROVE  /\ Applicants' = [Applicants EXCEPT ![s] = NameAsked(new)]
         /\ Members' = Members
         /\ Approved' = IF new.status = "approved" THEN Approved \cup {s}
                        ELSE Approved \ {s}
<1>1. /\ sub'[s] = new /\ \A t \in Signup \ {s} : sub'[t] = sub[t]
  BY DEF TypeOK, Rewrites
<1>2. Applicants' = [Applicants EXCEPT ![s] = NameAsked(new)]
  <2>1. \A t \in Signup : Applicants'[t] = IF t = s THEN NameAsked(new) ELSE Applicants[t]
    BY <1>1 DEF Applicants, NameAsked, Active
  <2> QED
    BY <2>1 DEF Applicants
<1>3. Members' = Members
  BY DEF Members
<1>4. \A t : t \in Approved' <=> t \in Signup /\ sub'[t].status = "approved"
  BY DEF Approved
<1>5. Approved' = IF new.status = "approved" THEN Approved \cup {s} ELSE Approved \ {s}
  <2>1. CASE new.status = "approved"
    BY <1>1, <1>4, <2>1 DEF Approved
  <2>2. CASE new.status # "approved"
    BY <1>1, <1>4, <2>2 DEF Approved
  <2> QED
    BY <2>1, <2>2
<1> QED
  BY <1>2, <1>3, <1>5

\* What it sees of a write of an account.
LEMMA UserSeen ==
  ASSUME TypeOK, NEW x \in User, NEW new, RewritesUser(x, new), UNCHANGED sub
  PROVE  /\ Members' = [Members EXCEPT ![x] = new.name]
         /\ Applicants' = Applicants /\ Approved' = Approved
<1>1. /\ usr'[x] = new /\ \A y \in User \ {x} : usr'[y] = usr[y]
  BY DEF TypeOK, RewritesUser
<1>2. \A y \in User : Members'[y] = IF y = x THEN new.name ELSE Members[y]
  BY <1>1 DEF Members
<1>3. Members' = [Members EXCEPT ![x] = new.name]
  BY <1>2 DEF Members
<1>4. Applicants' = Applicants /\ Approved' = Approved
  BY DEF Applicants, Approved, Active
<1> QED
  BY <1>3, <1>4

\* Nobody has a name whose claim is free for a signup of the same row.
LEMMA AskedIsFree ==
  ASSUME TypeOK, NEW s \in Signup, NEW new, Active(new), new.name \in Name,
         NameIndexAllows(s, new), NoAccountHas(new.name),
         Active(sub[s]) => sub[s].name # new.name
  PROVE  Registry!Free(new.name)
BY NamesAssumption DEF Registry!Free, NameIndexAllows, NoAccountHas

LEMMA AskSeen ==
  ASSUME TypeOK, ClaimsAreExact, NEW s \in Signup, NEW new \in Signups,
         new.status = "pending", new.name \in Name, sub[s].status \in {"none", "pending"},
         WriteSignup(s, new), UNCHANGED usr
  PROVE  [Registry!Next]_(Registry!vars)
<1>1. /\ Rewrites(s, new) /\ Active(new) /\ NameIndexAllows(s, new)
      /\ new.name # sub[s].name => NoAccountHas(new.name)
  BY SignupWriteIsExact DEF WriteSignup, Active, Rewrites
<1>2. /\ Applicants' = [Applicants EXCEPT ![s] = new.name]
      /\ Members' = Members /\ Approved' = Approved /\ s \notin Approved
  BY <1>1, SignupSeen DEF NameAsked, Approved
<1>3. CASE new.name = sub[s].name
  <2>1. Applicants[s] = new.name
    <3>1. Active(sub[s])
      BY <1>3, NamesAssumption DEF Active, TypeOK
    <3> QED
      BY <1>3, <3>1 DEF Applicants
  <2>2. Applicants' = Applicants
    BY <1>2, <2>1 DEF Applicants
  <2> QED
    BY <1>2, <2>2 DEF Registry!vars, Applicants, Members, Approved
<1>4. CASE new.name # sub[s].name
  <2>1. Registry!Free(new.name)
    BY <1>1, <1>4, AskedIsFree
  <2>2. Registry!Ask(s, new.name)
    BY <1>2, <2>1 DEF Registry!Ask, Applicants, Members, Approved
  <2> QED
    BY <2>2 DEF Registry!Next
<1> QED
  BY <1>3, <1>4

LEMMA DropSeen ==
  ASSUME TypeOK, UNCHANGED usr, NEW s \in Signup, NEW new,
         new.status \in {"denied", "none"}, Rewrites(s, new)
  PROVE  Registry!Next
<1>1. /\ Applicants' = [Applicants EXCEPT ![s] = NoName]
      /\ Members' = Members /\ Approved' = Approved \ {s}
  BY SignupSeen DEF NameAsked, Active
<1>2. Registry!Drop(s)
  BY <1>1 DEF Registry!Drop, Applicants, Members, Approved
<1> QED
  BY <1>2 DEF Registry!Next

LEMMA ReviewSeen ==
  ASSUME IInv, NEW s \in Signup, ApproveSignup(s) \/ DenySignup(s) \/ DeleteSignup(s)
  PROVE  Registry!Next
<1>0. TypeOK /\ UNCHANGED usr
  BY DEF IInv, ApproveSignup, DenySignup, DeleteSignup
<1>1. CASE ApproveSignup(s)
  <2> DEFINE new == [sub[s] EXCEPT !.status = "approved"]
  <2>1. /\ new.status = "approved" /\ new.name = sub[s].name /\ sub[s].name \in Name
        /\ Active(sub[s]) /\ Active(new)
    BY <1>0, <1>1, SubTyped, SignupReviewed DEF ApproveSignup, Active
  <2>2. Rewrites(s, new)
    BY <1>1 DEF ApproveSignup, WriteSignup, Rewrites
  <2> HIDE DEF new
  <2>3. /\ Applicants' = [Applicants EXCEPT ![s] = sub[s].name] /\ Applicants[s] = sub[s].name
        /\ Members' = Members /\ Approved' = Approved \cup {s}
    BY <1>0, <2>1, <2>2, SignupSeen DEF NameAsked, Applicants
  <2>4. Applicants' = Applicants
    BY <2>3 DEF Applicants
  <2>5. Registry!Approve(s)
    BY <2>1, <2>3, <2>4, NamesAssumption DEF Registry!Approve, Applicants, Members, Approved
  <2> QED
    BY <2>5 DEF Registry!Next
<1>2. CASE DenySignup(s)
  <2> DEFINE new == [sub[s] EXCEPT !.status = "denied"]
  <2>1. new.status = "denied"
    BY <1>0, SubTyped, SignupReviewed
  <2>2. Rewrites(s, new)
    BY <1>2 DEF DenySignup, WriteSignup, Rewrites
  <2> HIDE DEF new
  <2> QED
    BY <1>0, <2>1, <2>2, DropSeen
<1>3. CASE DeleteSignup(s)
  <2>1. NoSignup.status = "none" /\ Rewrites(s, NoSignup)
    BY <1>3 DEF DeleteSignup, WriteSignup, NoSignup, Rewrites
  <2> QED
    BY <1>0, <2>1, DropSeen
<1> QED
  BY <1>1, <1>2, <1>3

\* A write of an account keeps its name, or takes a free one, or joins an
\* approved signup, or gives its name up.
LEMMA UserSeenByRegistry ==
  ASSUME TypeOK, ClaimsAreExact, UNCHANGED sub, NEW x \in User, NEW new \in Users,
         NEW inserting, WriteUser(claims, x, new, inserting)
  PROVE  [Registry!Next]_(Registry!vars)
<1> DEFINE freed == WithoutUser(claims, x, usr[x].name)
<1>1. /\ Members' = [Members EXCEPT ![x] = new.name]
      /\ Applicants' = Applicants /\ Approved' = Approved
      /\ Members[x] = usr[x].name /\ new.name \in Name \cup {NoName}
      /\ NoOne \notin Signup /\ NoOne \notin User /\ NoName \notin Name
  BY UserSeen, NamesAssumption DEF WriteUser, Members, Users, RewritesUser
<1>2. CASE new.name = usr[x].name
  <2>1. Members' = Members
    BY <1>1, <1>2 DEF Members
  <2> QED
    BY <1>1, <2>1 DEF Registry!vars, Applicants, Members, Approved
<1>3. CASE new.name # usr[x].name /\ new.name = NoName
  <2>1. Registry!Leave(x)
    BY <1>1, <1>3 DEF Registry!Leave, Applicants, Members, Approved
  <2> QED
    BY <2>1 DEF Registry!Next
<1>4. CASE new.name # usr[x].name /\ new.name # NoName
  <2> DEFINE n == new.name
  <2>1. n \in Name /\ UserMayClaim(freed, x, n, inserting)
    BY <1>1, <1>4 DEF WriteUser
  <2>2. freed[n] = claims[n]
    BY <1>4, <2>1 DEF WithoutUser, TypeOK
  <2>3. /\ claims[n].user # x /\ claims[n].user = NoOne
        /\ \A y \in User : usr[y].name # n
    BY <1>1, <1>4, <2>1, <2>2 DEF UserMayClaim, ClaimsAreExact
  <2>4. CASE claims[n].signup = NoOne
    <3>1. \A s \in Signup : Applicants[s] # n
      BY <1>1, <2>1, <2>4 DEF ClaimsAreExact, Applicants
    <3>2. Registry!Take(x, n)
      BY <1>1, <2>3, <3>1 DEF Registry!Take, Registry!Free, Applicants, Members, Approved
    <3> QED
      BY <2>1, <3>2 DEF Registry!Next
  <2>5. ASSUME NEW s \in Signup, claims[n].signup = s, sub[s].status = "approved"
        PROVE  Registry!Next
    <3>1. Applicants[s] = n /\ s \in Approved
      BY <2>1, <2>5 DEF ClaimsAreExact, Applicants, Approved
    <3>2. Registry!Join(x, s)
      BY <1>1, <2>3, <3>1 DEF Registry!Join, Applicants, Members, Approved
    <3> QED
      BY <3>2 DEF Registry!Next
  <2> QED
    BY <2>1, <2>2, <2>3, <2>4, <2>5 DEF UserMayClaim
<1> QED
  BY <1>2, <1>3, <1>4

LEMMA AttachSeen ==
  ASSUME IInv, UNCHANGED sub, NEW x \in User, NEW s \in Matches(x), MayAttach(x, s),
         WriteUser(Attached(x, s), x, Ready(x, sub[s].name), FALSE)
  PROVE  Registry!Next
<1>1. /\ TypeOK /\ s \in Signup /\ sub[s].status = "approved" /\ sub[s].name \in Name
      /\ NoOne \notin User
  BY SubTyped, NamesAssumption DEF IInv, Matches
<1> DEFINE new == Ready(x, sub[s].name)
<1>2. RewritesUser(x, new) /\ new.name = sub[s].name
  BY DEF WriteUser, Ready, RewritesUser
<1> HIDE DEF new
<1>3. /\ Members' = [Members EXCEPT ![x] = sub[s].name]
      /\ Applicants' = Applicants /\ Approved' = Approved
      /\ Applicants[s] = sub[s].name /\ s \in Approved
  <2>2. Active(sub[s])
    BY <1>1 DEF Active
  <2>3. Applicants[s] = sub[s].name /\ s \in Approved
    BY <1>1, <2>2 DEF Applicants, Approved
  <2> QED
    BY <1>1, <1>2, <2>3, UserSeen
<1>4. \A y \in User \ {x} : Members[y] # sub[s].name
  BY <1>1 DEF MayAttach, IInv, ClaimsAreExact, Members
<1>5. Registry!Join(x, s)
  BY <1>3, <1>4 DEF Registry!Join, Applicants, Members, Approved
<1> QED
  BY <1>1, <1>5 DEF Registry!Next

LEMMA HandlerSeen ==
  ASSUME IInv, NEW h \in Handler, HandlerStep(h)
  PROVE  [Registry!Next]_(Registry!vars)
<1>0. TypeOK /\ ClaimsAreExact
  BY DEF IInv
<1>1. CASE UNCHANGED <<sub, usr>>
  BY <1>1 DEF Registry!vars, Active
<1>2. ASSUME NEW s \in Signup, CreatePendingSignup(h, s)
      PROVE  [Registry!Next]_(Registry!vars)
  <2> DEFINE new == [status |-> "pending", name |-> job[h].name]
  <2>1. new \in Signups /\ new.status = "pending" /\ new.name \in Name
    BY <1>0, <1>2, JobTyped DEF CreatePendingSignup, Serves, Signups
  <2>2. WriteSignup(s, new) /\ UNCHANGED usr /\ sub[s].status = "none"
    BY <1>2 DEF CreatePendingSignup
  <2> HIDE DEF new
  <2> QED
    BY <1>0, <2>1, <2>2, AskSeen
<1>3. CASE SaveSignupEdits(h)
  <2> DEFINE s == job[h].who
             new == [sub[s] EXCEPT !.name = job[h].name]
  <2>1. /\ s \in Signup /\ sub[s].status = "pending" /\ job[h].name \in Name
    BY <1>0, <1>3, JobTyped DEF SaveSignupEdits, TypeOK, IInv, EditsArePending, Serves
  <2>2. new \in Signups /\ new.status = "pending" /\ new.name \in Name
    BY <1>0, <2>1, SubTyped, SignupNamed
  <2>3. WriteSignup(s, new) /\ UNCHANGED usr
    BY <1>3 DEF SaveSignupEdits
  <2> HIDE DEF new, s
  <2> QED
    BY <1>0, <2>1, <2>2, <2>3, AskSeen
<1>4. CASE SaveProfile(h)
  <2> DEFINE x == job[h].who
             new == [usr[x] EXCEPT !.name = job[h].name]
  <2>1. x \in User /\ job[h].name \in Name
    BY <1>0, <1>4, JobTyped DEF SaveProfile, TypeOK, Serves
  <2>2. new \in Users
    BY <1>0, <2>1, UsrTyped, UserNamed
  <2>3. WriteUser(claims, x, new, FALSE) /\ UNCHANGED sub
    BY <1>4 DEF SaveProfile
  <2> HIDE DEF new, x
  <2> QED
    BY <1>0, <2>1, <2>2, <2>3, UserSeenByRegistry
<1> QED
  BY <1>1, <1>2, <1>3, <1>4
     DEF HandlerStep, CheckSubmission, StartEdit, CheckProfile, Abort

LEMMA AccountSeen ==
  ASSUME IInv, NEW x \in User,
         \/ \E n \in Name \cup {NoName} : CreateUser(x, n)
         \/ BootstrapUser(x) \/ BootstrapLost(x) \/ DeleteUser(x)
  PROVE  [Registry!Next]_(Registry!vars)
<1>0. TypeOK /\ ClaimsAreExact /\ UNCHANGED sub
  BY DEF IInv, CreateUser, BootstrapUser, BootstrapLost, DeleteUser
<1>1. ASSUME NEW n \in Name \cup {NoName}, CreateUser(x, n)
      PROVE  [Registry!Next]_(Registry!vars)
  <2> DEFINE new == [phase |-> "created", name |-> n, login |-> n]
  <2>1. new \in Users
    BY DEF Users
  <2>2. WriteUser(claims, x, new, TRUE)
    BY <1>1 DEF CreateUser
  <2> HIDE DEF new
  <2> QED
    BY <1>0, <2>1, <2>2, UserSeenByRegistry
<1>2. CASE BootstrapUser(x)
  <2>1. ASSUME NEW s \in Matches(x), MayAttach(x, s),
               WriteUser(Attached(x, s), x, Ready(x, sub[s].name), FALSE)
        PROVE  Registry!Next
    BY <1>0, <2>1, AttachSeen
  <2>2. CASE WriteUser(claims, x, Ready(x, usr[x].name), FALSE)
    <3>1. Ready(x, usr[x].name) \in Users
      BY <1>0, UsrTyped DEF Ready, Users
    <3> QED
      BY <1>0, <2>2, <3>1, UserSeenByRegistry
  <2> QED
    BY <1>2, <2>1, <2>2 DEF BootstrapUser
<1>3. CASE BootstrapLost(x)
  <2>1. \A y \in User : usr'[y].name = usr[y].name
    BY <1>0, <1>3 DEF BootstrapLost, TypeOK, Users
  <2>2. Members' = Members /\ Applicants' = Applicants /\ Approved' = Approved
    BY <1>0, <2>1 DEF Members, Applicants, Approved, Active
  <2> QED
    BY <2>2 DEF Registry!vars, Members, Applicants, Approved
<1>4. CASE DeleteUser(x)
  <2>1. NoUser \in Users
    BY DEF NoUser, Users
  <2> QED
    BY <1>0, <1>4, <2>1, UserSeenByRegistry DEF DeleteUser
<1> QED
  BY <1>1, <1>2, <1>3, <1>4

\* The portal's tables implement the registry of usernames: whatever requests
\* validated before they wrote, a name is shared only by an approved signup and
\* the account that came for it, and an approved signup keeps its name.
THEOREM ImplementsRegistry == Spec => KeepsRegistry
<1>1. Init => Registry!Init
  BY DEF Init, Registry!Init, NoSignup, NoUser, Active
<1>2. IInv /\ [Next]_vars => [Registry!Next]_(Registry!vars)
  <2> SUFFICES ASSUME IInv, [Next]_vars PROVE [Registry!Next]_(Registry!vars)
    OBVIOUS
  <2>1. CASE UNCHANGED vars
    BY <2>1 DEF vars, Registry!vars, Active
  <2>2. CASE Next
    BY <2>2, HandlerSeen, ReviewSeen, AccountSeen DEF Next
  <2> QED
    BY <2>1, <2>2
<1> QED
  BY <1>1, <1>2, Inductive, PTL DEF Spec, KeepsRegistry, Registry!Spec
================================================================================
