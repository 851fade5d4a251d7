------------------------------ MODULE RolesProofs ------------------------------
(***************************************************************************)
(* Proofs about roles: first MemberRoles, who has which, for any members,  *)
(* roles, SIGs and bounds; then PermissionCache, what a role permits, for  *)
(* any replicas, matrix, times and bounds.                                 *)
(***************************************************************************)
EXTENDS MemberRoles, PermissionCache, TLAPS

LEMMA WithTyped ==
  ASSUME NEW r, NEW changes, NEW u
  PROVE  With(r, changes, u) \in SUBSET Role
BY DEF With

\* What a batch makes of a member depends on that member's roles only.
LEMMA WithLocal ==
  ASSUME NEW r, NEW s, NEW changes, NEW u, r[u] = s[u]
  PROVE  With(r, changes, u) = With(s, changes, u)
BY DEF With

\* A role that a batch takes or gives is in the batch.
LEMMA WithChanges ==
  ASSUME NEW r, NEW changes, NEW u, NEW k \in Role,
         (k \in r[u]) # (k \in With(r, changes, u))
  PROVE  IF k \in r[u]
         THEN [user |-> u, role |-> k, assign |-> FALSE] \in changes
         ELSE [user |-> u, role |-> k, assign |-> TRUE] \in changes
BY DEF With

LEMMA UnlessPending ==
  ASSUME NEW original, NEW set, Unless(original, set) # None
  PROVE  Unless(original, set) = set
BY DEF Unless

LEMMA DesiredTyped ==
  ASSUME TypeOK, NEW a \in User, NEW u \in User, page[a] # None
  PROVE  /\ Desired(a, u) \in SUBSET Role
         /\ DesiredSigs(a, u) \in SUBSET Sig
BY DEF Desired, DesiredSigs, TypeOK
-------------------------------------------------------------------------------
(***************************************************************************)
(* The variables stay in their domains.                                    *)
(***************************************************************************)

LEMMA InitTyped == Init => TypeOK
<1> SUFFICES ASSUME Init PROVE TypeOK
  OBVIOUS
<1>1. roles \in [User -> SUBSET Role] /\ toggles \in 0 .. MaxToggles
  BY RolesAssumption DEF Init
<1>2. /\ pending \in [User -> [User -> {None} \cup SUBSET Role]]
      /\ pendingSigs \in [User -> [User -> {None} \cup SUBSET Sig]]
  BY DEF Init, Nothing
<1> QED
  BY <1>1, <1>2 DEF Init, TypeOK

LEMMA ReloadTyped ==
  ASSUME TypeOK, NEW a \in User, Reload(a), roles' \in [User -> SUBSET Role],
         leads' \in [User -> SUBSET Sig]
  PROVE  /\ page' \in [User -> [roles : [User -> SUBSET Role],
                                leads : [User -> SUBSET Sig]] \cup {None}]
         /\ reloaded' \subseteq User
BY DEF Reload, Snapshot, TypeOK

LEMMA WriteTyped ==
  ASSUME TypeOK, NEW a \in User, Write(a)
  PROVE  /\ roles' \in [User -> SUBSET Role]
         /\ leads' \in [User -> SUBSET Sig]
         /\ job' \in [User -> Job \cup {None}]
         /\ crossed' \in BOOLEAN /\ outdated' \subseteq User
         /\ UNCHANGED <<active, listed, toggles>>
<1>1. job[a] \in Job
  BY DEF Write, TypeOK
<1>2. \A u \in User : NewLeads(job[a], u) \in SUBSET Sig
  <2> SUFFICES ASSUME NEW u \in User PROVE NewLeads(job[a], u) \in SUBSET Sig
    OBVIOUS
  <2>1. ASSUME \E p \in job[a].picks : p.user = u
        PROVE  (CHOOSE p \in job[a].picks : p.user = u).sigs \in SUBSET Sig
    <3>1. (CHOOSE p \in job[a].picks : p.user = u) \in job[a].picks
      BY <2>1
    <3> QED
      BY <1>1, <3>1 DEF Job, Pick
  <2> QED
    BY <2>1 DEF NewLeads, TypeOK
<1> QED
  BY <1>1, <1>2, WithTyped DEF Write, TypeOK

LEMMA ToggleTyped ==
  ASSUME TypeOK, NEW a \in User, NEW u \in User, NEW k \in Role, Toggle(a, u, k)
  PROVE  TypeOK'
<1>1. page[a] # None /\ Flip(Desired(a, u), k) \in SUBSET Role
  BY DesiredTyped DEF Toggle, Flip
<1>2. /\ Unless(page[a].roles[u], Flip(Desired(a, u), k)) \in {None} \cup SUBSET Role
      /\ Unless(page[a].leads[u], {}) \in {None} \cup SUBSET Sig
  BY <1>1 DEF Unless
<1>3. /\ pending' \in [User -> [User -> {None} \cup SUBSET Role]]
      /\ pendingSigs' \in [User -> [User -> {None} \cup SUBSET Sig]]
  BY <1>2 DEF Toggle, TypeOK
<1>4. /\ touched' \in [User -> SUBSET (User \X Role)]
      /\ toggles' \in 0 .. MaxToggles
  BY RolesAssumption DEF Toggle, TypeOK
<1> QED
  BY <1>3, <1>4 DEF Toggle, TypeOK, rows, history

LEMMA ToggleSigTyped ==
  ASSUME TypeOK, NEW a \in User, NEW u \in User, NEW g \in Sig, ToggleSig(a, u, g)
  PROVE  TypeOK'
<1>1. page[a] # None /\ Flip(DesiredSigs(a, u), g) \in SUBSET Sig
  BY DesiredTyped DEF ToggleSig, ShowSigs, Flip
<1>2. Unless(page[a].leads[u], Flip(DesiredSigs(a, u), g)) \in {None} \cup SUBSET Sig
  BY <1>1 DEF Unless
<1>3. pendingSigs' \in [User -> [User -> {None} \cup SUBSET Sig]]
  BY <1>2 DEF ToggleSig, ShowSigs, TypeOK
<1>4. toggles' \in 0 .. MaxToggles
  BY RolesAssumption DEF ToggleSig, ShowSigs, TypeOK
<1> QED
  BY <1>3, <1>4 DEF ToggleSig, ShowSigs, TypeOK, rows, history

LEMMA NextTyped == TypeOK /\ [Next]_vars => TypeOK'
<1> SUFFICES ASSUME TypeOK, [Next]_vars PROVE TypeOK'
  OBVIOUS
<1>1. ASSUME NEW a \in User, OpenPage(a) PROVE TypeOK'
  BY <1>1 DEF OpenPage, Snapshot, TypeOK, Nothing, rows, history
<1>2. ASSUME NEW a \in User, Check(a) PROVE TypeOK'
  <2>1. PICK accepted \in SUBSET Change, picks \in SUBSET Pick, ok \in BOOLEAN :
          job' = [job EXCEPT ![a] = [seen |-> roles, accepted |-> accepted,
                                     picks |-> picks, ok |-> ok]]
    BY <1>2 DEF Check, Accepted, Changes, Picks
  <2>2. [seen |-> roles, accepted |-> accepted, picks |-> picks, ok |-> ok] \in Job
    BY DEF Job, TypeOK
  <2> QED
    BY <1>2, <2>1, <2>2 DEF Check, TypeOK, rows, client, history
<1>3. ASSUME NEW a \in User, Refuse(a) PROVE TypeOK'
  BY <1>3, ReloadTyped DEF Refuse, TypeOK, rows, history
<1>4. ASSUME NEW a \in User, ApplySave(a) PROVE TypeOK'
  <2>1. /\ pending' \in [User -> [User -> {None} \cup SUBSET Role]]
        /\ pendingSigs' \in [User -> [User -> {None} \cup SUBSET Sig]]
        /\ touched' \in [User -> SUBSET (User \X Role)]
    <3>1. Nothing \in [User -> {None} \cup SUBSET Role]
          /\ Nothing \in [User -> {None} \cup SUBSET Sig]
      BY DEF Nothing
    <3>2. \/ /\ pending' = [pending EXCEPT ![a] = Nothing]
             /\ pendingSigs' = [pendingSigs EXCEPT ![a] = Nothing]
             /\ touched' = [touched EXCEPT ![a] = {}]
          \/ UNCHANGED <<pending, pendingSigs, touched>>
      BY <1>4 DEF ApplySave
    <3>3. pending' \in [User -> [User -> {None} \cup SUBSET Role]]
      BY <3>1, <3>2 DEF TypeOK
    <3>4. pendingSigs' \in [User -> [User -> {None} \cup SUBSET Sig]]
      BY <3>1, <3>2 DEF TypeOK
    <3>5. touched' \in [User -> SUBSET (User \X Role)]
      BY <3>2 DEF TypeOK
    <3> QED
      BY <3>3, <3>4, <3>5
  <2> QED
    BY <1>4, <2>1, WriteTyped, ReloadTyped DEF ApplySave, TypeOK
<1>5. ASSUME NEW a \in User, ApplyUnanswered(a) PROVE TypeOK'
  BY <1>5, WriteTyped DEF ApplyUnanswered, TypeOK, client
<1>6. ASSUME NEW a \in User, SaveFails(a) PROVE TypeOK'
  BY <1>6 DEF SaveFails, TypeOK, rows, client, history
<1>7. ASSUME NEW a \in User, NEW u \in User, NEW deactivate \in BOOLEAN,
             SetMemberStatus(a, u, deactivate)
      PROVE  TypeOK'
  BY <1>7, ReloadTyped DEF SetMemberStatus, TypeOK, history
<1>8. ASSUME NEW a \in User, NEW u \in User, NEW k \in Role, Toggle(a, u, k)
      PROVE  TypeOK'
  BY <1>8, ToggleTyped
<1>9. ASSUME NEW a \in User, NEW u \in User, NEW g \in Sig, ToggleSig(a, u, g)
      PROVE  TypeOK'
  BY <1>9, ToggleSigTyped
<1>10. ASSUME ListAlumni PROVE TypeOK'
  BY <1>10 DEF ListAlumni, Candidates, TypeOK, client, history
<1>11. ASSUME NEW u \in User, ApproveAlumni(u) PROVE TypeOK'
  BY <1>11, RolesAssumption
     DEF ApproveAlumni, Candidates, TypeOK, client, history
<1>12. ASSUME UNCHANGED vars PROVE TypeOK'
  BY <1>12 DEF TypeOK, vars, rows, client, history
<1> QED
  BY <1>1, <1>2, <1>3, <1>4, <1>5, <1>6, <1>7, <1>8, <1>9, <1>10, <1>11, <1>12
     DEF Next

\* Roles, pages, batches and histories stay in their domains.
THEOREM MemberRolesTyped == Spec => []TypeOK
BY InitTyped, NextTyped, PTL DEF Spec
-------------------------------------------------------------------------------
(***************************************************************************)
(* The last admin.                                                         *)
(***************************************************************************)

\* A check lets an admin through only for others' sake.
LEMMA CheckKeepsAdmin ==
  ASSUME IInv, NEW a \in User, Check(a)
  PROVE  BatchesKeepTheirAdmin'
<1> SUFFICES ASSUME NEW b \in User, job'[b] # None, NEW c \in job'[b].accepted,
                    c.role = "admin"
             PROVE  "admin" \in job'[b].seen[b] /\ (~c.assign => c.user # b)
  BY DEF BatchesKeepTheirAdmin
<1>1. PICK picks, ok :
        job' = [job EXCEPT ![a] = [seen |-> roles, accepted |-> Accepted(a),
                                   picks |-> picks, ok |-> ok]]
  BY DEF Check
<1>2. job \in [User -> Job \cup {None}]
  BY DEF IInv, TypeOK
<1>3. CASE b = a
  <2>1. c \in Accepted(a) /\ job'[b].seen = roles
    BY <1>1, <1>2, <1>3
  <2>2. ~RoleChangeBlocked(a, roles, c)
    BY <2>1 DEF Accepted
  <2>3. "admin" \in roles[a]
    BY <2>2 DEF RoleChangeBlocked
  <2> QED
    BY <1>3, <2>1, <2>2, <2>3 DEF RoleChangeBlocked
<1>4. CASE b # a
  BY <1>1, <1>2, <1>4 DEF IInv, BatchesKeepTheirAdmin
<1> QED
  BY <1>3, <1>4

LEMMA WriteKeepsAdmin ==
  ASSUME IInv, NEW a \in User, Write(a)
  PROVE  BatchesKeepTheirAdmin' /\ AdminRemains'
<1>1. /\ job[a] # None /\ job[a] \in Job /\ job \in [User -> Job \cup {None}]
      /\ roles \in [User -> SUBSET Role] /\ "admin" \in Role
  BY RolesAssumption DEF Write, IInv, TypeOK
<1>2. BatchesKeepTheirAdmin'
  BY <1>1 DEF Write, IInv, BatchesKeepTheirAdmin
<1>3. CASE AdminsIn(roles') = AdminsIn(roles)
  BY <1>2, <1>3 DEF Write, IInv, AdminRemains
<1>4. CASE AdminsIn(roles) # AdminsIn(job[a].seen) /\ AdminsIn(roles') # AdminsIn(roles)
  BY <1>2, <1>4 DEF Write, AdminRemains
<1>5. CASE AdminsIn(roles) = AdminsIn(job[a].seen) /\ AdminsIn(roles') # AdminsIn(roles)
  <2>1. PICK u \in User : ("admin" \in roles[u]) # ("admin" \in roles'[u])
    BY <1>5 DEF AdminsIn
  <2>2. roles'[u] = With(roles, job[a].accepted, u)
    BY DEF Write
  <2>3. \E c \in job[a].accepted : c.role = "admin"
    <3>1. \/ [user |-> u, role |-> "admin", assign |-> FALSE] \in job[a].accepted
          \/ [user |-> u, role |-> "admin", assign |-> TRUE] \in job[a].accepted
      BY <1>1, <2>1, <2>2, WithChanges
    <3> QED
      BY <3>1
  <2>4. "admin" \in job[a].seen[a]
    BY <1>1, <2>3 DEF IInv, BatchesKeepTheirAdmin
  <2>5. "admin" \in roles[a]
    BY <1>5, <2>4 DEF AdminsIn
  <2>6. [user |-> a, role |-> "admin", assign |-> FALSE] \notin job[a].accepted
    BY <1>1 DEF IInv, BatchesKeepTheirAdmin
  <2>7. "admin" \in roles'[a]
    BY <1>1, <2>5, <2>6 DEF Write, With
  <2> QED
    BY <1>2, <2>7 DEF AdminRemains, AdminsIn
<1> QED
  BY <1>2, <1>3, <1>4, <1>5

LEMMA ApprovalKeepsAdmin ==
  ASSUME IInv, NEW u \in User, ApproveAlumni(u)
  PROVE  AdminRemains'
<1>1. \A v \in User : "admin" \in roles[v] => "admin" \in roles'[v]
  BY DEF ApproveAlumni, IInv, TypeOK
<1> QED
  BY <1>1 DEF ApproveAlumni, IInv, AdminRemains, AdminsIn, history

LEMMA NextKeepsAdmin ==
  IInv /\ [Next]_vars => (BatchesKeepTheirAdmin /\ AdminRemains)'
<1> SUFFICES ASSUME IInv, [Next]_vars PROVE (BatchesKeepTheirAdmin /\ AdminRemains)'
  OBVIOUS
<1>1. ASSUME roles' = roles, crossed' = crossed PROVE AdminRemains'
  BY <1>1 DEF IInv, AdminRemains
<1>2. ASSUME job' = job PROVE BatchesKeepTheirAdmin'
  BY <1>2 DEF IInv, BatchesKeepTheirAdmin
<1>3. ASSUME NEW a \in User, Check(a) PROVE (BatchesKeepTheirAdmin /\ AdminRemains)'
  BY <1>1, <1>3, CheckKeepsAdmin DEF Check, rows, history
<1>4. ASSUME NEW a \in User, ApplySave(a) \/ ApplyUnanswered(a)
      PROVE  (BatchesKeepTheirAdmin /\ AdminRemains)'
  BY <1>4, WriteKeepsAdmin DEF ApplySave, ApplyUnanswered
<1>5. ASSUME NEW a \in User, SaveFails(a)
      PROVE  (BatchesKeepTheirAdmin /\ AdminRemains)'
  BY <1>1, <1>5 DEF SaveFails, rows, history, IInv, TypeOK, BatchesKeepTheirAdmin
<1>6. ASSUME NEW u \in User, ApproveAlumni(u)
      PROVE  (BatchesKeepTheirAdmin /\ AdminRemains)'
  BY <1>2, <1>6, ApprovalKeepsAdmin DEF ApproveAlumni
<1>7. ASSUME NEW a \in User, OpenPage(a) \/ Refuse(a)
      PROVE  (BatchesKeepTheirAdmin /\ AdminRemains)'
  BY <1>1, <1>2, <1>7 DEF OpenPage, Snapshot, Refuse, rows, history
<1>8. ASSUME NEW a \in User, NEW u \in User,
             \/ \E deactivate \in BOOLEAN : SetMemberStatus(a, u, deactivate)
             \/ \E k \in Role : Toggle(a, u, k)
             \/ \E g \in Sig : ToggleSig(a, u, g)
      PROVE  (BatchesKeepTheirAdmin /\ AdminRemains)'
  BY <1>1, <1>2, <1>8 DEF SetMemberStatus, Toggle, ToggleSig, ShowSigs, rows, history
<1>9. ASSUME ListAlumni \/ UNCHANGED vars
      PROVE  (BatchesKeepTheirAdmin /\ AdminRemains)'
  BY <1>1, <1>2, <1>9 DEF ListAlumni, vars, rows, history
<1> QED
  BY <1>3, <1>4, <1>5, <1>6, <1>7, <1>8, <1>9 DEF Next
-------------------------------------------------------------------------------
(***************************************************************************)
(* The leaders of SIGs.                                                    *)
(***************************************************************************)

LEMMA WriteKeepsLeaders ==
  ASSUME IInv, NEW a \in User, Write(a)
  PROVE  LeadersHoldRole'
<1> SUFFICES ASSUME NEW u \in User, leads'[u] # {}, u \notin outdated'
             PROVE  "sig_leader" \in roles'[u]
  BY DEF LeadersHoldRole
<1>1. /\ leads'[u] = NewLeads(job[a], u)
      /\ roles'[u] = With(roles, job[a].accepted, u)
      /\ roles[u] = job[a].seen[u] /\ u \notin outdated
  BY DEF Write
<1>2. CASE \E p \in job[a].picks : p.user = u
  <2>1. "sig_leader" \in With(job[a].seen, job[a].accepted, u)
    BY <1>1, <1>2 DEF NewLeads
  <2> QED
    BY <1>1, <2>1, WithLocal
<1>3. CASE ~ \E p \in job[a].picks : p.user = u
  <2>1. /\ [user |-> u, role |-> "sig_leader", assign |-> FALSE] \notin job[a].accepted
        /\ leads[u] # {}
    BY <1>1, <1>3 DEF NewLeads
  <2>2. "sig_leader" \in roles[u] /\ "sig_leader" \in Role
    BY <1>1, <2>1, RolesAssumption DEF IInv, LeadersHoldRole
  <2> QED
    BY <1>1, <2>1, <2>2 DEF With
<1> QED
  BY <1>2, <1>3

LEMMA NextKeepsLeaders == IInv /\ [Next]_vars => LeadersHoldRole'
<1> SUFFICES ASSUME IInv, [Next]_vars PROVE LeadersHoldRole'
  OBVIOUS
<1>1. ASSUME roles' = roles, leads' = leads, outdated' = outdated
      PROVE  LeadersHoldRole'
  BY <1>1 DEF IInv, LeadersHoldRole
<1>2. ASSUME NEW a \in User, ApplySave(a) \/ ApplyUnanswered(a) PROVE LeadersHoldRole'
  BY <1>2, WriteKeepsLeaders DEF ApplySave, ApplyUnanswered
<1>3. ASSUME NEW u \in User, ApproveAlumni(u) PROVE LeadersHoldRole'
  <2>1. \A v \in User : "sig_leader" \in roles[v] => "sig_leader" \in roles'[v]
    BY <1>3 DEF ApproveAlumni, IInv, TypeOK
  <2>2. leads' = leads /\ outdated' = outdated
    BY <1>3 DEF ApproveAlumni, history
  <2> QED
    BY <2>1, <2>2 DEF IInv, LeadersHoldRole
<1>4. ASSUME NEW a \in User, OpenPage(a) \/ Check(a) \/ Refuse(a) \/ SaveFails(a)
      PROVE  LeadersHoldRole'
  BY <1>1, <1>4 DEF OpenPage, Snapshot, Check, Refuse, SaveFails, rows, history
<1>5. ASSUME NEW a \in User, NEW u \in User,
             \/ \E deactivate \in BOOLEAN : SetMemberStatus(a, u, deactivate)
             \/ \E k \in Role : Toggle(a, u, k)
             \/ \E g \in Sig : ToggleSig(a, u, g)
      PROVE  LeadersHoldRole'
  BY <1>1, <1>5 DEF SetMemberStatus, Toggle, ToggleSig, ShowSigs, rows, history
<1>6. ASSUME ListAlumni \/ UNCHANGED vars PROVE LeadersHoldRole'
  BY <1>1, <1>6 DEF ListAlumni, vars, rows, history
<1> QED
  BY <1>2, <1>3, <1>4, <1>5, <1>6 DEF Next
-------------------------------------------------------------------------------
(***************************************************************************)
(* What was clicked.                                                       *)
(***************************************************************************)

Clicked == PendingIsClicked /\ BatchesAreClicked

LEMMA NothingPending == \A u \in User : Nothing[u] = None
BY DEF Nothing

LEMMA CheckClicked ==
  ASSUME IInv, NEW a \in User, Check(a)
  PROVE  Clicked'
<1>1. UNCHANGED client /\ page[a] # None
  BY DEF Check
<1>2. PendingIsClicked'
  BY <1>1 DEF client, IInv, PendingIsClicked
<1>3. PICK picks, ok :
        job' = [job EXCEPT ![a] = [seen |-> roles, accepted |-> Accepted(a),
                                   picks |-> picks, ok |-> ok]]
  BY DEF Check
<1>4. ASSUME NEW b \in User, job'[b] # None, NEW c \in job'[b].accepted
      PROVE  /\ pending[b][c.user] # None
             /\ b \in reloaded \/ <<c.user, c.role>> \in touched[b]
  <2>1. CASE b # a
    BY <1>3, <1>4, <2>1 DEF IInv, TypeOK, BatchesAreClicked
  <2>2. CASE b = a
    <3>1. c \in Changes(a)
      BY <1>3, <1>4, <2>2 DEF IInv, TypeOK, Accepted
    <3>2. /\ c.user \in User /\ c.role \in Role /\ pending[a][c.user] # None
          /\ (c.role \in pending[a][c.user]) # (c.role \in page[a].roles[c.user])
      BY <3>1 DEF Changes, Change
    <3> QED
      BY <1>1, <2>2, <3>2 DEF IInv, PendingIsClicked
  <2> QED
    BY <2>1, <2>2
<1> QED
  BY <1>1, <1>2, <1>4 DEF Clicked, BatchesAreClicked, client

LEMMA ToggleClicked ==
  ASSUME IInv, NEW a \in User, NEW u \in User, NEW k \in Role, Toggle(a, u, k)
  PROVE  Clicked'
<1>1. /\ page[a] # None /\ job[a] = None /\ UNCHANGED <<page, job, reloaded>>
      /\ pending' = [pending EXCEPT ![a][u] =
                       Unless(page[a].roles[u], Flip(Desired(a, u), k))]
      /\ touched' = [touched EXCEPT ![a] = @ \cup {<<u, k>>}]
  BY DEF Toggle
<1>2. /\ pending \in [User -> [User -> {None} \cup SUBSET Role]]
      /\ touched \in [User -> SUBSET (User \X Role)]
  BY DEF IInv, TypeOK
<1>3. \A b \in User \ {a} : pending'[b] = pending[b] /\ touched'[b] = touched[b]
  BY <1>1, <1>2
<1>4. BatchesAreClicked'
  BY <1>1, <1>3 DEF IInv, BatchesAreClicked
<1>5. ASSUME a \notin reloaded, NEW v \in User, pending'[a][v] # None, NEW r \in Role,
             (r \in pending'[a][v]) # (r \in page[a].roles[v])
      PROVE  <<v, r>> \in touched'[a]
  <2>1. touched'[a] = touched[a] \cup {<<u, k>>}
    BY <1>1, <1>2
  <2>2. CASE v # u
    <3>1. pending'[a][v] = pending[a][v]
      BY <1>1, <1>2, <2>2
    <3> QED
      BY <1>1, <1>5, <2>1, <3>1 DEF IInv, PendingIsClicked
  <2>3. CASE v = u /\ r # k
    <3>1. pending'[a][v] = Unless(page[a].roles[u], Flip(Desired(a, u), k))
      BY <1>1, <1>2, <2>3
    <3>2. (r \in pending'[a][v]) <=> (r \in Desired(a, u))
      BY <1>5, <2>3, <3>1, UnlessPending DEF Flip
    <3>3. pending[a][u] # None /\ (r \in pending[a][u]) # (r \in page[a].roles[u])
      BY <1>5, <2>3, <3>2 DEF Desired
    <3> QED
      BY <1>1, <1>5, <2>1, <2>3, <3>3 DEF IInv, PendingIsClicked
  <2>4. CASE v = u /\ r = k
    BY <2>1, <2>4
  <2> QED
    BY <2>2, <2>3, <2>4
<1>6. PendingIsClicked'
  BY <1>1, <1>3, <1>5 DEF IInv, PendingIsClicked
<1> QED
  BY <1>4, <1>6 DEF Clicked

LEMMA AnsweredClicked ==
  ASSUME IInv, NEW a \in User, ApplySave(a)
  PROVE  Clicked'
<1>1. /\ Reload(a) /\ job' = [job EXCEPT ![a] = None]
      /\ \/ /\ pending' = [pending EXCEPT ![a] = Nothing]
            /\ touched' = [touched EXCEPT ![a] = {}]
         \/ UNCHANGED <<pending, touched>>
  BY DEF ApplySave, Write
<1>2. /\ job \in [User -> Job \cup {None}] /\ reloaded \subseteq User
      /\ pending \in [User -> [User -> {None} \cup SUBSET Role]]
      /\ touched \in [User -> SUBSET (User \X Role)]
      /\ DOMAIN page = User
  BY DEF IInv, TypeOK
<1>3. \A b \in User \ {a} :
        /\ pending'[b] = pending[b] /\ touched'[b] = touched[b]
        /\ page'[b] = page[b] /\ job'[b] = job[b]
        /\ b \in reloaded <=> b \in reloaded'
  BY <1>1, <1>2 DEF Reload, Snapshot
<1>4. job'[a] = None
  BY <1>1, <1>2
<1>5. a \in reloaded' \/ pending'[a] = Nothing
  BY <1>1 DEF Reload, Snapshot
<1>6. BatchesAreClicked'
  <2> SUFFICES ASSUME NEW b \in User, job'[b] # None, NEW c \in job'[b].accepted
               PROVE  /\ pending'[b][c.user] # None
                      /\ b \in reloaded' \/ <<c.user, c.role>> \in touched'[b]
    BY DEF BatchesAreClicked
  <2>1. b # a /\ job'[b] = job[b]
    BY <1>3, <1>4
  <2> QED
    BY <1>3, <2>1 DEF IInv, BatchesAreClicked
<1>7. PendingIsClicked'
  <2> SUFFICES ASSUME NEW b \in User \ reloaded', NEW u \in User,
                      page'[b] # None, pending'[b][u] # None, NEW k \in Role,
                      (k \in pending'[b][u]) # (k \in page'[b].roles[u])
               PROVE  <<u, k>> \in touched'[b]
    BY DEF PendingIsClicked
  <2>1. b # a
    BY <1>5, NothingPending
  <2> QED
    BY <1>3, <2>1 DEF IInv, PendingIsClicked
<1> QED
  BY <1>6, <1>7 DEF Clicked

\* The page is loaded again and nothing else happens to it.
LEMMA ReloadClicked ==
  ASSUME IInv, NEW a \in User, Reload(a), UNCHANGED <<pending, touched, job>>
  PROVE  Clicked'
<1>1. DOMAIN page = User /\ reloaded \subseteq User
  BY DEF IInv, TypeOK
<1>2. \A b \in User \ {a} :
        page'[b] = page[b] /\ (b \in reloaded <=> b \in reloaded')
  BY <1>1 DEF Reload, Snapshot
<1>3. a \in reloaded' \/ pending[a] = Nothing
  BY DEF Reload, Snapshot
<1>4. PendingIsClicked'
  <2> SUFFICES ASSUME NEW b \in User \ reloaded', NEW u \in User,
                      page'[b] # None, pending'[b][u] # None, NEW k \in Role,
                      (k \in pending'[b][u]) # (k \in page'[b].roles[u])
               PROVE  <<u, k>> \in touched'[b]
    BY DEF PendingIsClicked
  <2>1. b # a
    BY <1>3, NothingPending
  <2> QED
    BY <1>2, <2>1 DEF IInv, PendingIsClicked
<1>5. BatchesAreClicked'
  <2> SUFFICES ASSUME NEW b \in User, job'[b] # None, NEW c \in job'[b].accepted
               PROVE  /\ pending'[b][c.user] # None
                      /\ b \in reloaded' \/ <<c.user, c.role>> \in touched'[b]
    BY DEF BatchesAreClicked
  <2>1. /\ pending[b][c.user] # None
        /\ b \in reloaded \/ <<c.user, c.role>> \in touched[b]
    BY DEF IInv, BatchesAreClicked
  <2>2. CASE b # a
    BY <1>2, <2>1, <2>2
  <2>3. CASE b = a
    <3>1. c.user \in User
      BY DEF IInv, TypeOK, Job, Change
    <3> QED
      BY <1>3, <2>1, <2>3, <3>1, NothingPending
  <2> QED
    BY <2>2, <2>3
<1> QED
  BY <1>4, <1>5 DEF Clicked

LEMMA OpenClicked ==
  ASSUME IInv, NEW a \in User, OpenPage(a)
  PROVE  Clicked'
<1>1. /\ job[a] = None /\ UNCHANGED job
      /\ pending' = [pending EXCEPT ![a] = Nothing]
      /\ page' = [page EXCEPT ![a] = [roles |-> roles, leads |-> leads]]
      /\ touched' = [touched EXCEPT ![a] = {}]
      /\ reloaded' = reloaded \ {a}
  BY DEF OpenPage, Snapshot
<1>2. DOMAIN page = User /\ DOMAIN pending = User /\ DOMAIN touched = User
  BY DEF IInv, TypeOK
<1>3. \A b \in User \ {a} :
        /\ pending'[b] = pending[b] /\ touched'[b] = touched[b]
        /\ page'[b] = page[b] /\ (b \in reloaded <=> b \in reloaded')
  BY <1>1, <1>2
<1>4. pending'[a] = Nothing
  BY <1>1, <1>2
<1>5. PendingIsClicked'
  <2> SUFFICES ASSUME NEW b \in User \ reloaded', NEW u \in User,
                      page'[b] # None, pending'[b][u] # None, NEW k \in Role,
                      (k \in pending'[b][u]) # (k \in page'[b].roles[u])
               PROVE  <<u, k>> \in touched'[b]
    BY DEF PendingIsClicked
  <2>1. b # a
    BY <1>4, NothingPending
  <2> QED
    BY <1>3, <2>1 DEF IInv, PendingIsClicked
<1>6. BatchesAreClicked'
  <2> SUFFICES ASSUME NEW b \in User, job'[b] # None, NEW c \in job'[b].accepted
               PROVE  /\ pending'[b][c.user] # None
                      /\ b \in reloaded' \/ <<c.user, c.role>> \in touched'[b]
    BY DEF BatchesAreClicked
  <2>1. b # a
    BY <1>1
  <2> QED
    BY <1>1, <1>3, <2>1 DEF IInv, BatchesAreClicked
<1> QED
  BY <1>5, <1>6 DEF Clicked

LEMMA NextClicked == IInv /\ [Next]_vars => Clicked'
<1> SUFFICES ASSUME IInv, [Next]_vars PROVE Clicked'
  OBVIOUS
<1>1. ASSUME UNCHANGED <<page, pending, touched, reloaded, job>> PROVE Clicked'
  BY <1>1 DEF IInv, Clicked, PendingIsClicked, BatchesAreClicked
<1>2. ASSUME UNCHANGED <<page, pending, touched, reloaded>>,
             NEW a \in User, job' = [job EXCEPT ![a] = None]
      PROVE  Clicked'
  BY <1>2 DEF IInv, TypeOK, Clicked, PendingIsClicked, BatchesAreClicked
<1>3. ASSUME NEW a \in User, Refuse(a) \/ \E u \in User, deactivate \in BOOLEAN :
                                            SetMemberStatus(a, u, deactivate)
      PROVE  Clicked'
  BY <1>3, ReloadClicked DEF Refuse, SetMemberStatus
<1>4. ASSUME NEW a \in User, ApplyUnanswered(a) \/ SaveFails(a) PROVE Clicked'
  BY <1>2, <1>4 DEF ApplyUnanswered, Write, SaveFails, client
<1>5. ASSUME NEW a \in User, NEW u \in User, NEW g \in Sig, ToggleSig(a, u, g)
      PROVE  Clicked'
  BY <1>1, <1>5 DEF ToggleSig, ShowSigs
<1>6. ASSUME ListAlumni \/ (\E u \in User : ApproveAlumni(u)) \/ UNCHANGED vars
      PROVE  Clicked'
  BY <1>1, <1>6 DEF ListAlumni, ApproveAlumni, client, vars
<1> QED
  BY <1>3, <1>4, <1>5, <1>6, CheckClicked, ToggleClicked, AnsweredClicked, OpenClicked
     DEF Next
-------------------------------------------------------------------------------
(***************************************************************************)
(* The theorems.                                                           *)
(***************************************************************************)

LEMMA InitIInv == Init => IInv
<1>1. Init => AdminRemains
  BY DEF Init, AdminRemains
<1>2. Init => LeadersHoldRole
  BY DEF Init, LeadersHoldRole
<1>3. Init => PendingIsClicked /\ BatchesAreClicked /\ BatchesKeepTheirAdmin
  BY DEF Init, PendingIsClicked, BatchesAreClicked, BatchesKeepTheirAdmin
<1> QED
  BY <1>1, <1>2, <1>3, InitTyped DEF IInv

LEMMA NextIInv == IInv /\ [Next]_vars => IInv'
<1>1. IInv => TypeOK
  BY DEF IInv
<1> QED
  BY <1>1, NextTyped, NextKeepsAdmin, NextKeepsLeaders, NextClicked DEF IInv, Clicked

THEOREM MemberRolesInvariant == Spec => []IInv
BY InitIInv, NextIInv, PTL DEF Spec

\* Whatever batches are saved from whatever outdated pages, an admin remains.
THEOREM AnAdminRemains == Spec => []AdminRemains
<1>1. IInv => AdminRemains
  BY DEF IInv
<1> QED
  BY <1>1, MemberRolesInvariant, PTL

\* Leaders of SIGs hold the role.
THEOREM LeadersAreLeaders == Spec => []LeadersHoldRole
<1>1. IInv => LeadersHoldRole
  BY DEF IInv
<1> QED
  BY <1>1, MemberRolesInvariant, PTL

\* A save changes nothing that its officer did not click on.
THEOREM OnlyClicksAreSaved == Spec => SavesWhatWasClicked
<1>1. ASSUME IInv, NEW a \in User, NEW u \in User, NEW role \in Role, Write(a),
             (role \in roles[u]) # (role \in roles'[u])
      PROVE  <<u, role>> \in touched[a] \/ a \in reloaded
  <2>1. job[a] # None /\ roles'[u] = With(roles, job[a].accepted, u)
    BY <1>1 DEF Write
  <2>2. \/ [user |-> u, role |-> role, assign |-> FALSE] \in job[a].accepted
        \/ [user |-> u, role |-> role, assign |-> TRUE] \in job[a].accepted
    BY <1>1, <2>1, WithChanges
  <2> QED
    BY <1>1, <2>1, <2>2 DEF IInv, BatchesAreClicked
<1>2. IInv /\ [Next]_vars =>
        [\A a \in User, u \in User, role \in Role :
           Write(a) /\ (role \in roles[u]) # (role \in roles'[u]) =>
             <<u, role>> \in touched[a] \/ a \in reloaded]_vars
  BY <1>1
<1> QED
  BY <1>2, MemberRolesInvariant, PTL DEF Spec, SavesWhatWasClicked
--------------------------------------------------------------------------------
(***************************************************************************)
(* PermissionCache: type correctness.                                      *)
(***************************************************************************)
\* The actions one by one.
LEMMA CacheSteps ==
  ASSUME CacheNext
  PROVE  \/ Tick
         \/ \E r \in Replica :
              \/ Listen(r) \/ ListenerError(r) \/ ReadGrants(r)
              \/ \E load \in loading[r] : FillCache(r, load)
              \/ Notified(r) \/ BumpLost(r) \/ Restart(r)
              \/ \E u \in User, g \in Toggled, on \in BOOLEAN : BeginToggle(r, u, g, on)
              \/ CommitToggle(r) \/ BumpRbac(r)
BY DEF CacheNext, ReplicaStep

LEMMA CacheInitTyped == CacheInit => CacheTypeOK
<1>1. Settled \in 0 .. Settled
  BY CacheAssumption DEF Settled
<1> QED
  BY <1>1, CacheAssumption DEF CacheInit, CacheTypeOK, Seed

LEMMA AgedTyped ==
  ASSUME NEW copy \in Copy \cup {None}
  PROVE  Aged(copy) \in Copy \cup {None}
BY CacheAssumption DEF Aged, Older, Copy

LEMMA OlderTyped ==
  ASSUME NEW load \in Load, load.age < MaxLoad
  PROVE  Older(load) \in Load
BY CacheAssumption DEF Older, Load

LEMMA CacheNextTyped ==
  ASSUME CacheTypeOK, [CacheNext]_cacheVars
  PROVE  CacheTypeOK'
<1> USE DEF CacheTypeOK
<1>1. CASE Tick
  <2>1. cache' \in [Replica -> Copy \cup {None}]
    BY <1>1, AgedTyped DEF Tick
  <2>2. loading' \in [Replica -> SUBSET Load]
    BY <1>1, OlderTyped DEF Tick
  <2>3. since' \in 0 .. Settled
    BY <1>1, CacheAssumption DEF Tick, Settled
  <2> QED
    BY <1>1, <2>1, <2>2, <2>3 DEF Tick
<1>2. ASSUME NEW r \in Replica, Listen(r) \/ ListenerError(r) \/ Notified(r) \/ BumpLost(r)
      PROVE  CacheTypeOK'
  BY <1>2 DEF Listen, ListenerError, Notified, BumpLost
<1>3. ASSUME NEW r \in Replica, ReadGrants(r)
      PROVE  CacheTypeOK'
  <2>1. [rows |-> grants, age |-> 0] \in Load
    BY CacheAssumption DEF Load
  <2> QED
    BY <1>3, <2>1 DEF ReadGrants
<1>4. ASSUME NEW r \in Replica, NEW load \in loading[r], FillCache(r, load)
      PROVE  CacheTypeOK'
  <2>1. [byRole |-> load.rows, age |-> 0] \in Copy
    BY CacheAssumption DEF Copy, Load
  <2> QED
    BY <1>4, <2>1 DEF FillCache
<1>5. ASSUME NEW r \in Replica, Restart(r)
      PROVE  CacheTypeOK'
  BY <1>5 DEF Restart
<1>6. ASSUME NEW r \in Replica, NEW u \in User, NEW g \in Toggled, NEW on \in BOOLEAN,
             BeginToggle(r, u, g, on)
      PROVE  CacheTypeOK'
  <2>0. g \in Grant
    BY CacheAssumption
  <2>1. [grant |-> g, on |-> on, committed |-> FALSE] \in Edit
    BY <2>0 DEF Edit
  <2>2. edits' \in 0 .. MaxEdits
    BY <1>6, CacheAssumption DEF BeginToggle
  <2> QED
    BY <1>6, <2>1, <2>2 DEF BeginToggle
<1>7. ASSUME NEW r \in Replica, CommitToggle(r)
      PROVE  CacheTypeOK'
  <2>1. edit[r] \in Edit
    BY <1>7 DEF CommitToggle
  <2>2. grants' \subseteq Grant
    BY <1>7, <2>1 DEF CommitToggle, Edit
  <2>3. edit' \in [Replica -> Edit \cup {None}]
    BY <1>7, <2>1 DEF CommitToggle, Edit
  <2>4. since' \in 0 .. Settled
    BY <1>7, CacheAssumption DEF CommitToggle, Settled
  <2> QED
    BY <1>7, <2>2, <2>3, <2>4 DEF CommitToggle
<1>8. ASSUME NEW r \in Replica, BumpRbac(r)
      PROVE  CacheTypeOK'
  BY <1>8 DEF BumpRbac, Reset
<1>9. CASE UNCHANGED cacheVars
  BY <1>9 DEF cacheVars
<1> QED
  BY <1>1, <1>2, <1>3, <1>4, <1>5, <1>6, <1>7, <1>8, <1>9, CacheSteps

THEOREM CacheTyped == CacheSpec => []CacheTypeOK
BY CacheInitTyped, CacheNextTyped, PTL DEF CacheSpec
-------------------------------------------------------------------------------
(***************************************************************************)
(* Ages.                                                                   *)
(***************************************************************************)

\* The steps that neither write the matrix nor let time pass, and that leave
\* a copy and a load as they are, or drop them.
Drops == /\ grants' = grants /\ since' = since
         /\ \A r \in Replica : /\ cache'[r] \in {cache[r], None}
                               /\ loading'[r] \subseteq loading[r]

LEMMA StepDrops ==
  ASSUME CacheTypeOK, NEW r \in Replica,
         \/ Listen(r) \/ ListenerError(r) \/ Notified(r) \/ BumpLost(r) \/ Restart(r)
         \/ BumpRbac(r)
         \/ \E u \in User, g \in Toggled, on \in BOOLEAN : BeginToggle(r, u, g, on)
         \/ UNCHANGED cacheVars
  PROVE  Drops
<1> USE DEF Drops, CacheTypeOK
<1>1. CASE Listen(r) \/ ListenerError(r) \/ Notified(r) \/ BumpLost(r)
  BY <1>1 DEF Listen, ListenerError, Notified, BumpLost
<1>2. CASE Restart(r) \/ BumpRbac(r)
  BY <1>2 DEF Restart, BumpRbac, Reset
<1>3. CASE \E u \in User, g \in Toggled, on \in BOOLEAN : BeginToggle(r, u, g, on)
  BY <1>3 DEF BeginToggle
<1>4. CASE UNCHANGED cacheVars
  BY <1>4 DEF cacheVars
<1> QED
  BY <1>1, <1>2, <1>3, <1>4

\* A load whose rows are out of date is at least as old as the last change, and
\* so is a copy, a load's time included.
LEMMA NextAgesTell ==
  ASSUME CacheTypeOK, AgesTell, [CacheNext]_cacheVars
  PROVE  AgesTell'
<1> USE DEF AgesTell, CacheTypeOK
<1>1. CASE Tick
  <2> SUFFICES ASSUME NEW r \in Replica
               PROVE  /\ \A load \in loading'[r] :
                            load.rows # grants => since' <= load.age
                      /\ cache'[r] # None /\ cache'[r].byRole # grants
                           => since' <= cache'[r].age + MaxLoad
    BY <1>1 DEF Tick
  <2>1. since \in Nat /\ since' \in Nat /\ since' <= since + 1 /\ since' <= Settled
    BY <1>1, CacheAssumption DEF Tick, Settled
  <2>2. ASSUME NEW load \in loading'[r], load.rows # grants
        PROVE  since' <= load.age
    <3>1. PICK old \in loading[r] : load = Older(old)
      BY <1>1, <2>2 DEF Tick
    <3>2. old \in Load /\ load.rows = old.rows /\ load.age = old.age + 1
      BY <3>1 DEF Older, Load
    <3>3. since <= old.age
      BY <2>2, <3>2
    <3> HIDE DEF AgesTell, CacheTypeOK
    <3> QED
      BY <2>1, <3>2, <3>3, CacheAssumption DEF Load, Settled
  <2>3. ASSUME cache'[r] # None, cache'[r].byRole # grants
        PROVE  since' <= cache'[r].age + MaxLoad
    <3>1. cache'[r] = Aged(cache[r])
      BY <1>1 DEF Tick
    <3>2. cache[r] \in Copy
      BY <2>3, <3>1 DEF Aged
    <3>3. CASE cache[r].age = TTL
      BY <2>1, <3>1, <3>2, <3>3, CacheAssumption DEF Aged, Settled
    <3>4. CASE cache[r].age # TTL /\ cache[r] # None
      <4>1. cache'[r].byRole = cache[r].byRole /\ cache'[r].age = cache[r].age + 1
        BY <3>1, <3>2, <3>4 DEF Aged, Older, Copy
      <4>2. since <= cache[r].age + MaxLoad
        BY <2>3, <3>4, <4>1
      <4> HIDE DEF AgesTell, CacheTypeOK
      <4> QED
        BY <2>1, <3>2, <4>1, <4>2, CacheAssumption DEF Copy, Settled
    <3> QED
      BY <2>3, <3>1, <3>3, <3>4 DEF Aged
  <2> QED
    BY <2>2, <2>3
<1>2. CASE Drops
  BY <1>2 DEF Drops
<1>3. ASSUME NEW q \in Replica, ReadGrants(q)
      PROVE  AgesTell'
  BY <1>3 DEF ReadGrants
<1>4. ASSUME NEW q \in Replica, NEW load \in loading[q], FillCache(q, load)
      PROVE  AgesTell'
  <2>1. load \in Load
    OBVIOUS
  <2>2. load.rows # grants => since <= 0 + MaxLoad
    BY <2>1, CacheAssumption DEF Load, Settled
  <2> QED
    BY <1>4, <2>2 DEF FillCache
<1>5. ASSUME NEW q \in Replica, CommitToggle(q)
      PROVE  AgesTell'
  <2>1. CASE grants' = grants
    BY <1>5, <2>1 DEF CommitToggle
  <2>2. CASE since' = 0
    <3>1. \A r \in Replica : \A load \in loading[r] : 0 <= load.age
      BY DEF Load
    <3>2. \A r \in Replica : cache[r] # None => 0 <= cache[r].age + MaxLoad
      BY CacheAssumption DEF Copy
    <3> QED
      BY <1>5, <2>2, <3>1, <3>2 DEF CommitToggle
  <2> QED
    BY <1>5, <2>1, <2>2 DEF CommitToggle
<1>6. CASE UNCHANGED cacheVars
  BY <1>6 DEF cacheVars
<1> QED
  BY <1>1, <1>2, <1>3, <1>4, <1>5, <1>6, CacheSteps, StepDrops
-------------------------------------------------------------------------------
(***************************************************************************)
(* Notifications.                                                          *)
(***************************************************************************)
LEMMA NextNotified ==
  ASSUME CacheTypeOK, NotifiedIsFresh, [CacheNext]_cacheVars
  PROVE  NotifiedIsFresh'
<1> USE DEF NotifiedIsFresh, CacheTypeOK
<1>1. CASE Tick
  <2>1. \A r \in Replica :
          cache'[r] # None => cache[r] # None /\ cache'[r].byRole = cache[r].byRole
    BY <1>1 DEF Tick, Aged, Older, Copy
  <2> QED
    BY <1>1, <2>1 DEF Tick
<1>2. ASSUME NEW q \in Replica,
             Listen(q) \/ ListenerError(q) \/ ReadGrants(q) \/ Notified(q) \/ BumpLost(q)
      PROVE  NotifiedIsFresh'
  BY <1>2 DEF Listen, ListenerError, ReadGrants, Notified, BumpLost
<1>3. ASSUME NEW q \in Replica, NEW load \in loading[q], FillCache(q, load)
      PROVE  NotifiedIsFresh'
  <2>1. cache'[q].byRole = load.rows
    BY <1>3 DEF FillCache
  <2> QED
    BY <1>3, <2>1 DEF FillCache
<1>4. ASSUME NEW q \in Replica, NEW u \in User, NEW g \in Toggled, NEW on \in BOOLEAN,
             BeginToggle(q, u, g, on)
      PROVE  NotifiedIsFresh'
  BY <1>4 DEF BeginToggle
<1>5. ASSUME NEW q \in Replica, CommitToggle(q)
      PROVE  NotifiedIsFresh'
  <2>1. edit'[q] \in Edit /\ edit'[q].committed
    BY <1>5 DEF CommitToggle, Edit
  <2>2. edit'[q] # None
    BY <2>1, CacheAssumption
  <2> QED
    BY <2>1, <2>2
\* The editing replica drops its copy; every other one listens, and will be
\* notified, or does not, and missed the edit.
<1>6. ASSUME NEW q \in Replica, BumpRbac(q)
      PROVE  NotifiedIsFresh'
  <2>1. cache'[q] = None
    BY <1>6 DEF BumpRbac, Reset
  <2>2. \A r \in Replica \ {q} : r \in bumps' \cup missed'
    BY <1>6 DEF BumpRbac
  <2> QED
    BY <2>1, <2>2
<1>7. ASSUME NEW q \in Replica, Restart(q)
      PROVE  NotifiedIsFresh'
  <2>1. cache'[q] = None
    BY <1>7 DEF Restart
  <2>2. CASE edit[q] # None /\ edit[q].committed
    BY <1>7, <2>1, <2>2 DEF Restart
  <2>3. CASE ~(edit[q] # None /\ edit[q].committed)
    BY <1>7, <2>1, <2>3 DEF Restart
  <2> QED
    BY <2>2, <2>3
<1>8. CASE UNCHANGED cacheVars
  BY <1>8 DEF cacheVars
<1> QED
  BY <1>1, <1>2, <1>3, <1>4, <1>5, <1>6, <1>7, <1>8, CacheSteps
-------------------------------------------------------------------------------
(***************************************************************************)
(* What administrators keep.                                               *)
(***************************************************************************)
LEMMA CriticalIsProtected ==
  ASSUME NEW g \in Critical
  PROVE  Protected(g)
BY DEF Critical, Protected

LEMMA NextCritical ==
  ASSUME CacheTypeOK, CriticalIsKept, [CacheNext]_cacheVars
  PROVE  CriticalIsKept'
<1> USE DEF CriticalIsKept, CacheTypeOK
<1>1. CASE Tick
  <2>1. \A r \in Replica :
          cache'[r] # None => cache[r] # None /\ cache'[r].byRole = cache[r].byRole
    BY <1>1 DEF Tick, Aged, Older, Copy
  <2>2. \A r \in Replica : \A load \in loading'[r] :
          \E old \in loading[r] : load.rows = old.rows
    BY <1>1 DEF Tick, Older, Load
  <2> QED
    BY <1>1, <2>1, <2>2 DEF Tick
<1>2. ASSUME NEW q \in Replica,
             Listen(q) \/ ListenerError(q) \/ ReadGrants(q) \/ Notified(q) \/ BumpLost(q)
      PROVE  CriticalIsKept'
  BY <1>2 DEF Listen, ListenerError, ReadGrants, Notified, BumpLost
<1>3. ASSUME NEW q \in Replica, NEW load \in loading[q], FillCache(q, load)
      PROVE  CriticalIsKept'
  BY <1>3 DEF FillCache
<1>4. ASSUME NEW q \in Replica, NEW u \in User, NEW g \in Toggled, NEW on \in BOOLEAN,
             BeginToggle(q, u, g, on)
      PROVE  CriticalIsKept'
  BY <1>4, CriticalIsProtected DEF BeginToggle
<1>5. ASSUME NEW q \in Replica, CommitToggle(q)
      PROVE  CriticalIsKept'
  <2>1. edit[q] \in Edit /\ (edit[q].on \/ edit[q].grant \notin Critical)
    BY <1>5 DEF CommitToggle
  <2>2. Critical \subseteq grants'
    BY <1>5, <2>1 DEF CommitToggle
  <2>3. edit'[q].on = edit[q].on /\ edit'[q].grant = edit[q].grant
    BY <1>5, <2>1 DEF CommitToggle, Edit
  <2> QED
    BY <1>5, <2>1, <2>2, <2>3 DEF CommitToggle
<1>6. ASSUME NEW q \in Replica, BumpRbac(q) \/ Restart(q)
      PROVE  CriticalIsKept'
  BY <1>6 DEF BumpRbac, Reset, Restart
<1>7. CASE UNCHANGED cacheVars
  BY <1>7 DEF cacheVars
<1> QED
  BY <1>1, <1>2, <1>3, <1>4, <1>5, <1>6, <1>7, CacheSteps
-------------------------------------------------------------------------------
LEMMA CacheInitInv == CacheInit => CacheInv
<1>1. Critical \subseteq Seed
  BY CacheAssumption DEF Critical, Seed, Grant
<1>2. CacheInit => AgesTell /\ NotifiedIsFresh /\ CriticalIsKept
  BY <1>1 DEF CacheInit, AgesTell, NotifiedIsFresh, CriticalIsKept
<1> QED
  BY <1>2, CacheInitTyped DEF CacheInv

THEOREM CacheInvariant == CacheSpec => []CacheInv
<1>1. CacheInv /\ [CacheNext]_cacheVars => CacheInv'
  BY CacheNextTyped, NextAgesTell, NextNotified, NextCritical DEF CacheInv
<1> QED
  BY <1>1, CacheInitInv, PTL DEF CacheSpec

\* For any time to live and any replicas, edits, loads and lost notifications:
\* once the time of a load and a copy has passed, nobody uses an old matrix.
THEOREM ChangesReachEveryReplica == CacheSpec => []ChangesApply
<1>1. CacheInv => ChangesApply
  <2> SUFFICES ASSUME CacheInv, since = Settled, NEW r \in Replica, Usable(r)
               PROVE  cache[r].byRole = grants
    BY DEF ChangesApply
  <2>1. cache[r] \in Copy /\ cache[r].age < TTL
    BY DEF Usable, CacheInv, CacheTypeOK
  <2>2. ~(since <= cache[r].age + MaxLoad)
    BY <2>1, CacheAssumption DEF Copy, Settled
  <2> QED
    BY <2>2 DEF CacheInv, AgesTell, Usable
<1> QED
  BY <1>1, CacheInvariant, PTL

\* An old copy has its reason, for any replicas.
THEOREM NotificationsDropOldCopies == CacheSpec => []NotifiedIsFresh
<1>1. CacheInv => NotifiedIsFresh
  BY DEF CacheInv
<1> QED
  BY <1>1, CacheInvariant, PTL

\* Whatever is edited, on whatever copies: the edits of administrators are
\* accepted, and their page opens as long as the matrix gives them roles.read.
THEOREM AdminsKeepEditing == CacheSpec => []AdminsMayEdit
<1>1. CacheInv /\ ChangesApply => AdminsMayEdit
  <2> SUFFICES ASSUME CacheInv, ChangesApply, NEW u \in Admins, NEW r \in Replica,
                      Usable(r)
               PROVE  /\ MayEdit(r, u)
                      /\ since = Settled /\ <<"admin", "roles.read">> \in grants
                           => MayOpen(r, u)
    BY DEF AdminsMayEdit
  <2>1. \A p : <<"admin", p>> \in cache[r].byRole => p \in Permissions(r, u)
    BY DEF Admins, Permissions
  <2>2. <<"admin", "admin.access">> \in cache[r].byRole
        /\ <<"admin", "roles.manage">> \in cache[r].byRole
    BY DEF CacheInv, CriticalIsKept, Usable, Critical
  <2>3. ASSUME since = Settled, <<"admin", "roles.read">> \in grants
        PROVE  <<"admin", "roles.read">> \in cache[r].byRole
    BY <2>3 DEF ChangesApply
  <2> QED
    BY <2>1, <2>2, <2>3 DEF MayEdit, MayOpen, Permitted
<1> QED
  BY <1>1, CacheInvariant, ChangesReachEveryReplica, PTL
===============================================================================
