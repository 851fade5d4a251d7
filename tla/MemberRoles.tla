------------------------------ MODULE MemberRoles ------------------------------
(***************************************************************************)
(* The roles of the members: the page that officers edit them on and its   *)
(* save action (routes/(member)/dashboard/admin/members), the approval of  *)
(* alumni (lib/alumni/suggestions.ts), and the leaders of SIGs, who must   *)
(* hold a role (replaceSigLeaders in lib/dashboard/load.ts).               *)
(*                                                                         *)
(* A page works on the roles it was loaded with.  The save action checks   *)
(* the changes on the roles it reads, then writes them in a transaction:   *)
(* other saves and approvals come in between.                              *)
(***************************************************************************)
EXTENDS RoleKeys, Naturals

CONSTANTS Sig,          \* active SIGs
          Managing,     \* roles with permission members.manage
          Given,        \* the sets of roles a member may begin with
          Graduated,    \* members whose graduation year has passed
          MaxToggles    \* bound on clicks; no page is loaded when none is left

ASSUME RolesAssumption ==
  /\ {"admin", "sig_leader", "alumni"} \subseteq Role
  /\ Managing \subseteq Role /\ Given \subseteq SUBSET Role
  /\ Graduated \subseteq User
  /\ MaxToggles \in Nat

VARIABLES roles,       \* user_roles
          leads,       \* sig_leaders
          active,      \* graduated members whose status is active
          listed,      \* candidates that the page of alumni shows
          page,        \* page[a]: the rows a's page shows
          pending,     \* pending[a][u]: the roles a wants u to have
          pendingSigs, \* pendingSigs[a][u]: the SIGs a wants u to lead
          job,         \* job[a]: a's save action
          toggles,     \* how many clicks were made
          touched,     \* touched[a]: what a clicked for the pending changes
          reloaded,    \* actors whose page was reloaded under pending changes
          crossed,     \* an admin was removed by a save that saw other admins
          outdated     \* members whose SIGs were set by a save that saw other roles

rows    == <<roles, leads, active, listed>>
client  == <<page, pending, pendingSigs, touched, reloaded>>
history == <<crossed, outdated>>
vars    == <<rows, client, job, toggles, history>>

Change == [user : User, role : Role, assign : BOOLEAN]
Pick   == [user : User, sigs : SUBSET Sig]
Job    == [seen : [User -> SUBSET Role], accepted : SUBSET Change,
           picks : SUBSET Pick, ok : BOOLEAN]

Nothing == [u \in User |-> None]

AdminsIn(r) == {u \in User : "admin" \in r[u]}

MayManage(keys) == keys \cap Managing # {}

\* The bootstrap makes one admin, who may have changed roles since.
Init == /\ roles \in [User -> Given]
        /\ AdminsIn(roles) # {}
        /\ leads = [u \in User |-> {}]
        /\ active = Graduated
        /\ listed = {}
        /\ page = [a \in User |-> None]
        /\ pending = [a \in User |-> Nothing]
        /\ pendingSigs = [a \in User |-> Nothing]
        /\ job = [a \in User |-> None]
        /\ toggles = 0
        /\ touched = [a \in User |-> {}]
        /\ reloaded = {}
        /\ crossed = FALSE
        /\ outdated = {}
-------------------------------------------------------------------------------
(***************************************************************************)
(* The rules of a change (lib/rbac/role-assign.ts).                        *)
(***************************************************************************)

\* Mutant: admins may remove themselves.
Mut_RoleChangeBlocked(a, r, change) ==
  \/ ~MayManage(r[a])
  \/ change.role = "admin" /\ "admin" \notin r[a]

RoleChangeBlocked(a, r, change) ==
  \/ ~MayManage(r[a])
  \/ /\ change.role = "admin"
     /\ \/ "admin" \notin r[a]
        \/ /\ ~change.assign /\ "admin" \in r[change.user]
           /\ change.user = a \/ AdminsIn(r) \subseteq {change.user}
-------------------------------------------------------------------------------
(***************************************************************************)
(* The page.                                                               *)
(***************************************************************************)

\* The rows that useMembers loads.
Snapshot == [roles |-> roles, leads |-> leads]

\* useMembers, on a fresh page.
OpenPage(a) ==
  /\ job[a] = None /\ toggles < MaxToggles
  /\ page' = [page EXCEPT ![a] = Snapshot]
  /\ pending' = [pending EXCEPT ![a] = Nothing]
  /\ pendingSigs' = [pendingSigs EXCEPT ![a] = Nothing]
  /\ touched' = [touched EXCEPT ![a] = {}]
  /\ reloaded' = reloaded \ {a}
  /\ UNCHANGED <<rows, job, toggles, history>>

Desired(a, u)     == IF pending[a][u] = None THEN page[a].roles[u] ELSE pending[a][u]
DesiredSigs(a, u) == IF pendingSigs[a][u] = None THEN page[a].leads[u]
                                                  ELSE pendingSigs[a][u]

Flip(set, x) == IF x \in set THEN set \ {x} ELSE set \cup {x}

Unless(original, set) == IF set = original THEN None ELSE set

\* tryToggle: the click is refused by the rules, on the roles the page shows.
\* Clicks made while a save is under way are left out.
Toggle(a, u, role) ==
  LET assign == role \notin Desired(a, u)
      next   == Flip(Desired(a, u), role)
  IN /\ page[a] # None /\ job[a] = None /\ toggles < MaxToggles
     /\ ~RoleChangeBlocked(a, page[a].roles,
                           [user |-> u, role |-> role, assign |-> assign])
     /\ pending' = [pending EXCEPT ![a][u] = Unless(page[a].roles[u], next)]
     /\ pendingSigs' = IF role = "sig_leader" /\ ~assign
                       THEN [pendingSigs EXCEPT
                               ![a][u] = Unless(page[a].leads[u], {})]
                       ELSE pendingSigs
     /\ touched' = [touched EXCEPT ![a] = @ \cup {<<u, role>>}]
     /\ toggles' = toggles + 1
     /\ UNCHANGED <<rows, page, job, reloaded, history>>

\* The SIGs are shown when the role is wanted.
ShowSigs(a, u) == "sig_leader" \in Desired(a, u)

\* tryToggleSig.
ToggleSig(a, u, sig) ==
  /\ page[a] # None /\ job[a] = None /\ toggles < MaxToggles
  /\ ShowSigs(a, u)
  /\ pendingSigs' = [pendingSigs EXCEPT ![a][u] =
                       Unless(page[a].leads[u], Flip(DesiredSigs(a, u), sig))]
  /\ toggles' = toggles + 1
  /\ UNCHANGED <<rows, page, pending, job, touched, reloaded, history>>

\* The loaders run again after an action, under whatever is pending.
Reload(a) ==
  /\ page' = [page EXCEPT ![a] = Snapshot']
  /\ reloaded' = IF pending'[a] # Nothing \/ pendingSigs'[a] # Nothing
                 THEN reloaded \cup {a} ELSE reloaded \ {a}
-------------------------------------------------------------------------------
(***************************************************************************)
(* Saving.                                                                 *)
(***************************************************************************)

\* Mutant: the page sends all the roles it wants the member to have.
Mut_Changes(a) ==
  {c \in Change : pending[a][c.user] # None
                  /\ c.assign = (c.role \in pending[a][c.user])}

\* savePending.
Changes(a) ==
  {c \in Change : /\ pending[a][c.user] # None
                  /\ c.assign = (c.role \in pending[a][c.user])
                  /\ c.assign # (c.role \in page[a].roles[c.user])}

Picks(a) ==
  {p \in Pick :
     /\ p.sigs = IF "sig_leader" \in Desired(a, p.user)
                 THEN DesiredSigs(a, p.user) ELSE {}
     /\ p.sigs # page[a].leads[p.user]}

Accepted(a) == {c \in Changes(a) : ~RoleChangeBlocked(a, roles, c)}

\* useSaveRoleChanges: the request is authorized and checked on the roles it reads.
Check(a) ==
  /\ page[a] # None /\ job[a] = None /\ MayManage(roles[a])
  /\ LET accepted == Accepted(a)
         picks    == Picks(a)
     IN /\ accepted # {} \/ picks # {}
        /\ job' = [job EXCEPT ![a] = [seen |-> roles, accepted |-> accepted,
                                     picks |-> picks, ok |-> accepted = Changes(a)]]
  /\ UNCHANGED <<rows, client, toggles, history>>

\* Every change is blocked.
Refuse(a) ==
  /\ page[a] # None /\ job[a] = None /\ MayManage(roles[a])
  /\ Changes(a) # {} /\ Accepted(a) = {} /\ Picks(a) = {}
  /\ UNCHANGED <<rows, pending, pendingSigs>> /\ Reload(a)
  /\ UNCHANGED <<job, toggles, touched, history>>

\* The roles of u when the changes are made to r.
With(r, changes, u) ==
  {k \in Role : IF k \in r[u]
                THEN [user |-> u, role |-> k, assign |-> FALSE] \notin changes
                ELSE [user |-> u, role |-> k, assign |-> TRUE] \in changes}

\* Mutant: the picks are written whatever the roles have become.
Mut_NewLeads(j, u) ==
  IF \E p \in j.picks : p.user = u
  THEN (CHOOSE p \in j.picks : p.user = u).sigs
  ELSE leads[u]

\* Removing sig_leader clears the SIGs; picks count for those who will hold
\* the role, by the roles the action read.
NewLeads(j, u) ==
  IF \E p \in j.picks : p.user = u
  THEN IF "sig_leader" \in With(j.seen, j.accepted, u)
       THEN (CHOOSE p \in j.picks : p.user = u).sigs ELSE {}
  ELSE IF [user |-> u, role |-> "sig_leader", assign |-> FALSE] \in j.accepted
       THEN {} ELSE leads[u]

\* The transaction.
Write(a) ==
  /\ job[a] # None
  /\ roles' = [u \in User |-> With(roles, job[a].accepted, u)]
  /\ leads' = [u \in User |-> NewLeads(job[a], u)]
  /\ job' = [job EXCEPT ![a] = None]
  /\ crossed' = (crossed \/ /\ AdminsIn(roles) # AdminsIn(job[a].seen)
                            /\ AdminsIn(roles') # AdminsIn(roles))
  /\ outdated' = outdated \cup
                    {u \in User : leads'[u] # {} /\ roles[u] # job[a].seen[u]}
  /\ UNCHANGED <<active, listed, toggles>>

\* It is answered: what is pending is done with unless some of it was blocked.
ApplySave(a) ==
  /\ Write(a)
  /\ IF job[a].ok
     THEN /\ pending' = [pending EXCEPT ![a] = Nothing]
          /\ pendingSigs' = [pendingSigs EXCEPT ![a] = Nothing]
          /\ touched' = [touched EXCEPT ![a] = {}]
     ELSE UNCHANGED <<pending, pendingSigs, touched>>
  /\ Reload(a)

\* The answer is lost: the page stays as it is.
ApplyUnanswered(a) ==
  /\ Write(a)
  /\ UNCHANGED client

\* The transaction fails.
SaveFails(a) ==
  /\ job[a] # None
  /\ job' = [job EXCEPT ![a] = None]
  /\ UNCHANGED <<rows, client, toggles, history>>
-------------------------------------------------------------------------------
(***************************************************************************)
(* Status and alumni.                                                      *)
(***************************************************************************)

\* useSetMemberStatus, by an admin; the page is loaded again.  The status is
\* only ever read to find candidates among the graduated.
SetMemberStatus(a, u, deactivate) ==
  /\ page[a] # None /\ "admin" \in roles[a] /\ toggles < MaxToggles
  /\ active' = IF deactivate THEN active \ {u} ELSE active \cup (Graduated \cap {u})
  /\ UNCHANGED <<roles, leads, listed, pending, pendingSigs>> /\ Reload(a)
  /\ UNCHANGED <<job, toggles, touched, history>>

\* computeAlumniCandidates, for the page of alumni.
Candidates == {u \in active : "alumni" \notin roles[u]}

ListAlumni ==
  /\ toggles < MaxToggles
  /\ listed' = Candidates
  /\ UNCHANGED <<roles, leads, active, client, job, toggles, history>>

\* transitionToAlumni: nothing is checked again, and the page is loaded again.
ApproveAlumni(u) ==
  /\ u \in listed
  /\ roles' = [roles EXCEPT ![u] = (@ \ {"member"}) \cup {"alumni"}]
  /\ listed' = Candidates \ {u}
  /\ UNCHANGED <<leads, active, client, job, toggles, history>>
-------------------------------------------------------------------------------
Next ==
  \/ ListAlumni \/ \E u \in User : ApproveAlumni(u)
  \/ \E a \in User :
    \/ OpenPage(a) \/ Check(a) \/ Refuse(a)
    \/ ApplySave(a) \/ ApplyUnanswered(a) \/ SaveFails(a)
    \/ \E u \in User : \/ \E deactivate \in BOOLEAN : SetMemberStatus(a, u, deactivate)
                       \/ \E role \in Role : Toggle(a, u, role)
                       \/ \E sig \in Sig : ToggleSig(a, u, sig)

Spec == Init /\ [][Next]_vars
-------------------------------------------------------------------------------
(***************************************************************************)
(* Properties.                                                             *)
(***************************************************************************)

\* The variables stay in their domains.
TypeOK ==
  /\ roles \in [User -> SUBSET Role]
  /\ leads \in [User -> SUBSET Sig]
  /\ active \subseteq Graduated /\ listed \subseteq Graduated
  /\ page \in [User -> [roles : [User -> SUBSET Role], leads : [User -> SUBSET Sig]]
                       \cup {None}]
  /\ pending \in [User -> [User -> {None} \cup SUBSET Role]]
  /\ pendingSigs \in [User -> [User -> {None} \cup SUBSET Sig]]
  /\ job \in [User -> Job \cup {None}]
  /\ toggles \in 0 .. MaxToggles
  /\ touched \in [User -> SUBSET (User \X Role)]
  /\ reloaded \subseteq User /\ crossed \in BOOLEAN /\ outdated \subseteq User

\* The portal is never left without an admin (role-assign.ts:51-57), whatever
\* batches are saved from whatever outdated pages - unless the admins changed
\* between the check and the write of a save that changes them.
AdminRemains == crossed \/ AdminsIn(roles) # {}

\* A leader of a SIG holds the role of SIG leaders (admin/members/index.tsx:170
\* and 214), unless the leader's roles changed between the check and the write.
LeadersHoldRole ==
  \A u \in User : leads[u] # {} => "sig_leader" \in roles[u] \/ u \in outdated

\* A save changes only what its officer clicked on, whatever approvals and other
\* saves came after the page was loaded - unless the page was loaded again under
\* pending changes, which hold whole lists of roles.
SavesWhatWasClicked ==
  [][\A a \in User, u \in User, role \in Role :
       Write(a) /\ (role \in roles[u]) # (role \in roles'[u]) =>
         <<u, role>> \in touched[a] \/ a \in reloaded]_vars
-------------------------------------------------------------------------------
(***************************************************************************)
(* The inductive invariant behind the properties, part by part.            *)
(***************************************************************************)

\* Who has a change of admins accepted was an admin then, and stays one.
BatchesKeepTheirAdmin ==
  \A a \in User : job[a] # None =>
    \A c \in job[a].accepted : c.role = "admin" =>
      "admin" \in job[a].seen[a] /\ (~c.assign => c.user # a)

\* What is pending differs from the page only where the officer clicked.
PendingIsClicked ==
  \A a \in User \ reloaded, u \in User : page[a] # None /\ pending[a][u] # None =>
    \A k \in Role : (k \in pending[a][u]) # (k \in page[a].roles[u])
                      => <<u, k>> \in touched[a]

\* So do the changes of a save, while they are still pending.
BatchesAreClicked ==
  \A a \in User : job[a] # None =>
    \A c \in job[a].accepted : /\ pending[a][c.user] # None
                                /\ (a \in reloaded \/ <<c.user, c.role>> \in touched[a])

IInv == /\ TypeOK
        /\ BatchesKeepTheirAdmin /\ AdminRemains
        /\ LeadersHoldRole
        /\ PendingIsClicked /\ BatchesAreClicked
================================================================================
