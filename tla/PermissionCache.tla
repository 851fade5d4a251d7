---------------------------- MODULE PermissionCache ----------------------------
(***************************************************************************)
(* The matrix of roles and permissions, edited on the roles page           *)
(* (routes/(member)/dashboard/admin/roles), and the copy of it that every  *)
(* replica of the portal keeps in memory (lib/rbac/index.ts).              *)
(*                                                                         *)
(* A copy is dropped when Postgres delivers the notification of an edit,   *)
(* and it is not used beyond its time to live.  A notification can be      *)
(* lost, a load can finish after an edit it did not see, and a replica can *)
(* stop between an edit and its notification.                              *)
(***************************************************************************)
EXTENDS RoleKeys, Naturals, FiniteSets

CONSTANTS Replica,     \* replicas of the portal
          Permission,  \* keys of permissions
          RolesOf,     \* RolesOf[u]: the roles of u
          Toggled,     \* bound on the grants that are edited
          TTL,         \* time to live of a copy, in ticks
          MaxLoad,     \* ticks a load takes at most
          MaxLoads,    \* bound on loads of a replica at a time
          MaxEdits     \* bound on edits of the matrix

Grant == Role \X Permission

\* An edit: of one grant, to be on or off.
Edit == [grant : Grant, on : BOOLEAN, committed : BOOLEAN]

Admins == {u \in User : "admin" \in RolesOf[u]}

ASSUME CacheAssumption ==
  /\ {"admin", "officer"} \subseteq Role
  /\ {"admin.access", "roles.read", "roles.manage"} \subseteq Permission
  /\ RolesOf \in [User -> SUBSET Role]
  /\ Toggled \subseteq Grant
  /\ TTL \in Nat \ {0} /\ MaxLoad \in Nat /\ MaxLoads \in Nat /\ MaxEdits \in Nat
  /\ None \notin Edit

VARIABLES grants,     \* role_permissions
          cache,      \* cache[r]: r's copy and its age
          loading,    \* loading[r]: the loads of r, each with the rows it read
          listening,  \* replicas whose connection listens on channel rbac
          bumps,      \* replicas with a notification to handle
          edit,       \* edit[r]: the edit r is making
          edits,      \* how many were begun
          since,      \* ticks since the matrix last changed, up to Settled
          missed,     \* replicas that will not hear of an edit after their load
          late        \* replicas whose copy was out of date when they stored it

cacheVars == <<grants, cache, loading, listening, bumps, edit, edits, since,
               missed, late>>

\* A change is old news after this many ticks.
Settled == TTL + MaxLoad

\* The seeds: an administrator has every permission.  Of what other roles have,
\* the roles page asks for one.
Seed == {g \in Grant : g[1] = "admin" \/ g = <<"officer", "admin.access">>}

CacheInit ==
  /\ grants = Seed
  /\ cache = [r \in Replica |-> None]
  /\ loading = [r \in Replica |-> {}]
  /\ listening = {}
  /\ bumps = {}
  /\ edit = [r \in Replica |-> None]
  /\ edits = 0
  /\ since = Settled
  /\ missed = {}
  /\ late = {}
-------------------------------------------------------------------------------
(***************************************************************************)
(* Resolving permissions.                                                  *)
(***************************************************************************)

\* Mutant: the copy is kept until a notification drops it.
Mut_Usable(r) == cache[r] # None

Usable(r) == cache[r] # None /\ cache[r].age < TTL

\* unionPermissions; the memberships are read each time.
Permissions(r, u) == {g[2] : g \in {h \in cache[r].byRole : h[1] \in RolesOf[u]}}

\* requirePermission, for a request to r.
Permitted(r, u, keys) == Usable(r) /\ keys \subseteq Permissions(r, u)

\* The roles page, with the gate of the pages around it (admin/layout.tsx) and
\* the permission its loader asks for; to edit takes another.
MayOpen(r, u) == Permitted(r, u, {"admin.access", "roles.read"})
MayEdit(r, u) == Permitted(r, u, {"admin.access", "roles.manage"})

\* ensureListener: the connection listens, at some time after a resolve.
Listen(r) ==
  /\ r \notin listening
  /\ listening' = listening \cup {r}
  /\ UNCHANGED <<grants, cache, loading, bumps, edit, edits, since, missed, late>>

\* The connection reports an error: the copy is dropped.
ListenerError(r) ==
  /\ r \in listening
  /\ listening' = listening \ {r}
  /\ cache' = [cache EXCEPT ![r] = None]
  /\ bumps' = bumps \ {r}
  /\ missed' = missed \ {r} /\ late' = late \ {r}
  /\ UNCHANGED <<grants, loading, edit, edits, since>>

\* rolePermissionSets, without a usable copy: the database reads the rows.
\* Requests that arrive during a load begin loads of their own.
ReadGrants(r) ==
  /\ ~Usable(r) /\ Cardinality(loading[r]) < MaxLoads
  /\ loading' = [loading EXCEPT ![r] = @ \cup {[rows |-> grants, age |-> 0]}]
  /\ UNCHANGED <<grants, cache, listening, bumps, edit, edits, since, missed, late>>

\* The rows arrive and become the copy, whatever happened to it meanwhile.
FillCache(r, load) ==
  /\ cache' = [cache EXCEPT ![r] = [byRole |-> load.rows, age |-> 0]]
  /\ loading' = [loading EXCEPT ![r] = @ \ {load}]
  /\ IF load.rows = grants
     THEN late' = late \ {r} /\ missed' = missed \ {r}
     ELSE late' = late \cup {r} /\ UNCHANGED missed
  /\ UNCHANGED <<grants, listening, bumps, edit, edits, since>>

Notified(r) ==
  /\ r \in bumps
  /\ bumps' = bumps \ {r}
  /\ cache' = [cache EXCEPT ![r] = None]
  /\ missed' = missed \ {r} /\ late' = late \ {r}
  /\ UNCHANGED <<grants, loading, listening, edit, edits, since>>

\* The connection broke without a word.
BumpLost(r) ==
  /\ r \in bumps
  /\ bumps' = bumps \ {r}
  /\ missed' = missed \cup {r}
  /\ UNCHANGED <<grants, cache, loading, listening, edit, edits, since, late>>
-------------------------------------------------------------------------------
(***************************************************************************)
(* Editing the matrix (useToggleGrant).                                    *)
(***************************************************************************)

\* Mutant: the lockout protection is gone.
Mut_Protected(g) == FALSE

Protected(g) == g \in {<<"admin", "admin.access">>, <<"admin", "roles.manage">>}

\* The request is authorized by the replica's copy, and the role exists.  The
\* page it comes from may have been opened long ago, by somebody who could not
\* open it any more: the server does not ask.
BeginToggle(r, u, g, on) ==
  /\ MayEdit(r, u)
  /\ on \/ ~Protected(g)
  /\ edit[r] = None /\ edits < MaxEdits
  /\ edit' = [edit EXCEPT ![r] = [grant |-> g, on |-> on, committed |-> FALSE]]
  /\ edits' = edits + 1
  /\ UNCHANGED <<grants, cache, loading, listening, bumps, since, missed, late>>

CommitToggle(r) ==
  /\ edit[r] # None /\ ~edit[r].committed
  /\ grants' = IF edit[r].on THEN grants \cup {edit[r].grant}
                             ELSE grants \ {edit[r].grant}
  /\ since' = IF grants' = grants THEN since ELSE 0
  /\ edit' = [edit EXCEPT ![r].committed = TRUE]
  /\ UNCHANGED <<cache, loading, listening, bumps, edits, missed, late>>

\* Mutant: the editing replica leaves its own copy to its listener.
Mut_Reset(r) == cache

Reset(r) == [cache EXCEPT ![r] = None]

\* bumpRbac.
BumpRbac(r) ==
  /\ edit[r] # None /\ edit[r].committed
  /\ cache' = Reset(r)
  /\ bumps' = bumps \cup listening
  /\ missed' = (missed \cup (Replica \ listening)) \ {r}
  /\ late' = late \ {r}
  /\ edit' = [edit EXCEPT ![r] = None]
  /\ UNCHANGED <<grants, loading, listening, edits, since>>

\* The portal stops, and starts with nothing in memory.
Restart(r) ==
  /\ cache' = [cache EXCEPT ![r] = None]
  /\ loading' = [loading EXCEPT ![r] = {}]
  /\ edit' = [edit EXCEPT ![r] = None]
  /\ listening' = listening \ {r}
  /\ bumps' = bumps \ {r}
  /\ missed' = IF edit[r] # None /\ edit[r].committed
               THEN Replica \ {r} ELSE missed \ {r}
  /\ late' = late \ {r}
  /\ UNCHANGED <<grants, edits, since>>
-------------------------------------------------------------------------------
Older(x) == [x EXCEPT !.age = @ + 1]

Aged(copy) == IF copy = None \/ copy.age = TTL THEN copy ELSE Older(copy)

\* Time passes; a load does not take longer than MaxLoad.
Tick ==
  /\ \A r \in Replica : \A load \in loading[r] : load.age < MaxLoad
  /\ cache' = [r \in Replica |-> Aged(cache[r])]
  /\ loading' = [r \in Replica |-> {Older(load) : load \in loading[r]}]
  /\ since' = IF since = Settled THEN since ELSE since + 1
  /\ UNCHANGED <<grants, listening, bumps, edit, edits, missed, late>>

ReplicaStep(r) ==
  \/ Listen(r) \/ ListenerError(r) \/ ReadGrants(r)
  \/ \E load \in loading[r] : FillCache(r, load)
  \/ Notified(r) \/ BumpLost(r) \/ Restart(r)
  \/ \E u \in User, g \in Toggled, on \in BOOLEAN : BeginToggle(r, u, g, on)
  \/ CommitToggle(r) \/ BumpRbac(r)

CacheNext == Tick \/ \E r \in Replica : ReplicaStep(r)

CacheSpec == CacheInit /\ [][CacheNext]_cacheVars
-------------------------------------------------------------------------------
(***************************************************************************)
(* Properties.                                                             *)
(***************************************************************************)

\* "Changes apply within seconds on every replica" (admin/roles/index.tsx:98):
\* whatever notifications are lost and however loads overlap edits, nobody is
\* authorized by an old matrix once the time of one load and one copy has
\* passed.
ChangesApply ==
  since = Settled => \A r \in Replica : Usable(r) => cache[r].byRole = grants

\* The notification does its work (lib/rbac/index.ts:10): an old copy is one
\* whose notification is still to come or got lost, or whose load overlapped
\* the edit.
NotifiedIsFresh ==
  \A r \in Replica : cache[r] # None /\ cache[r].byRole # grants =>
    \/ r \in bumps \cup missed \cup late
    \/ \E q \in Replica : edit[q] # None /\ edit[q].committed

\* "The admin role can never lose admin.access or roles.manage"
\* (admin/roles/index.tsx:47), in no order of edits, each authorized by a copy
\* that may be old: where a copy is in use the edits of an administrator are
\* accepted, and the page opens for them unless roles.read was taken.
AdminsMayEdit ==
  \A u \in Admins, r \in Replica : Usable(r) =>
    /\ MayEdit(r, u)
    /\ since = Settled /\ <<"admin", "roles.read">> \in grants => MayOpen(r, u)

\* What the lockout protection (admin/roles/index.tsx:47, 56) is there for: as
\* long as there are administrators somebody who may edit the matrix can open
\* the page.
MatrixInReach ==
  \A r \in Replica : Usable(r) /\ Admins # {} =>
    \E u \in User : MayOpen(r, u) /\ MayEdit(r, u)
-------------------------------------------------------------------------------
(***************************************************************************)
(* The inductive invariant behind the properties, part by part.            *)
(***************************************************************************)

Copy == [byRole : SUBSET Grant, age : 0 .. TTL]
Load == [rows : SUBSET Grant, age : 0 .. MaxLoad]

\* The variables stay in their domains.
CacheTypeOK ==
  /\ grants \subseteq Grant
  /\ cache \in [Replica -> Copy \cup {None}]
  /\ loading \in [Replica -> SUBSET Load]
  /\ edit \in [Replica -> Edit \cup {None}]
  /\ edits \in 0 .. MaxEdits
  /\ since \in 0 .. Settled
  /\ listening \cup bumps \cup missed \cup late \subseteq Replica

\* The matrix changed after a load read other rows, and after a copy was read,
\* which took a load and was then kept for its age.
AgesTell ==
  \A r \in Replica :
    /\ \A load \in loading[r] : load.rows # grants => since <= load.age
    /\ cache[r] # None /\ cache[r].byRole # grants => since <= cache[r].age + MaxLoad

\* What an administrator needs for edits to be accepted.
Critical == {"admin"} \X {"admin.access", "roles.manage"}

\* It is in the matrix and wherever the matrix was read, and no edit takes it.
CriticalIsKept ==
  /\ Critical \subseteq grants
  /\ \A r \in Replica :
       /\ \A load \in loading[r] : Critical \subseteq load.rows
       /\ cache[r] # None => Critical \subseteq cache[r].byRole
       /\ edit[r] # None => edit[r].on \/ edit[r].grant \notin Critical

CacheInv == CacheTypeOK /\ AgesTell /\ NotifiedIsFresh /\ CriticalIsKept
================================================================================
