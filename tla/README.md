# Verification of the ACM member portal

TLA+ models of the parts of the portal where several actors, failures and
restarts meet: TLC checks them on small instances, TLAPS proves the central
properties for every instance. The modules are translated from the source; the
documentation of the repository is used only for what the program *should* do.

- [The system](#the-system) — inventory of components, their state and hazards
- [What is modelled](#what-is-modelled) — modules and how they correspond to the code
- [Runs](#runs) — questions, bounds, fairness, results
- [Proofs](#proofs) — what holds for every instance, and why
- [Disagreements with the documentation](#disagreements-with-the-documentation)
- [Limits](#limits) — only model-checked, abstracted, not modelled
- [Plan](#plan) — what was built in which order, and what is left

## The system

The portal is a web application (Qwik City, several replicas) over one Postgres
database. A separate worker process, also replicated, drains an outbox table. Both
call a small .NET service, the *Windows API*, which is the only writer of the Active
Directory (AD). After a change the service asks Entra Connect to synchronize.

    applicant --> signup --approve--> provisioning_events --claim--> worker --+
                                            |                                |
                     officer <--reveal/confirm--+--- portal ---------------->+
                                            |                                v
                     member  --activate----->                         Windows API
                                                                      gate | queue.json
                                                                           v
                                                             AD, then Entra Connect

| component | state | operations | what is hard | what makes it correct |
|---|---|---|---|---|
| Provisioning outbox and worker (`lib/provisioning/outbox.ts`, `worker/provisioning.ts`) | a row per signup: status, attempts, claim token, delivery receipt | enqueue, claim, reclaim after a lease, drain, fail, retry | replicas past their lease, crashes between two writes, lost answers of the API and of SMTP | one external operation per row; a receipt is true; an owed password is never forgotten; bounded calls; every event settles |
| Account creation (`windows-api/AdAccountCreation.cs`, `AdAccountCreationGate.cs`) | the account: phase, owner, password, must-change flag | create, replay, reissue | failure between writes, calls that outlive their client | accounts of others and accounts in use are not written |
| Manual delivery (`lib/provisioning/manual-delivery.ts`) | the same row, a reveal token | reveal, confirm | concurrent officers, stale panels, lost responses | what is confirmed is the password in force |
| Activation and passwords (`lib/provisioning/activate-account.ts`, `change-password.ts`, `windows-api/AdAccountActivation.cs`) | attempt counters, a receipt per event, the account | count attempts, activate, change a password | the directory succeeds and the receipt is lost; calls that outlive the portal's timeout | who is told to try again has the old password; an activation has its receipt, or its member was told to ask |
| Entra queue (`windows-api/EntraSyncQueue.cs`, `EntraSyncWorker.cs`) | jobs in memory and in a file | enqueue, take, finish, restart | a change during a run, crashes, failed saves, starvation | no noted change is forgotten; the file loads; no starvation |
| Signups, usernames, profiles (`lib/signups`, `lib/profiles`, `drizzle/0010`) | submissions, username claims, users | create, edit, approve, deny, save, first-user bootstrap | check then act over several tables | a username has one owner; the first user becomes an administrator |
| Profile synchronization (`lib/profiles/save.ts`, `lib/provisioning/ad-sync.ts`) | the username in the database and in the directory | save, then call the directory | the database is committed first; the account is named by a username that may have changed | the two names agree; nobody reaches another's account |
| Permissions (`lib/rbac`, `admin/roles`) | the matrix, a copy per replica | resolve, grant, revoke, notify | lost notifications, loads that overlap edits | revoked permissions end; administrators can edit the matrix |
| Members and SIGs (`admin/members`, `lib/dashboard/load.ts`, `lib/alumni`) | roles, SIG leaders, member status, pages in browsers | toggle, save a batch, approve alumni | guards on earlier reads, pages out of date, two saves at once | an administrator remains; leaders hold their role; a save changes what was clicked |
| Forms (`admin/forms`, `components/admin/field-editor.tsx`, `lib/forms`) | versions of the signup form, answers | edit, save draft, publish, answer, correct | two publishers, a form replaced while it is answered | the published form is served; answers fit the version stored with them |
| Discord (`routes/signup/discord`, `lib/auth.ts`, `lib/auth-bootstrap.ts`) | a cookie, a pending signup, `user.discord_id`, rows of `account` | authorise, sign up, log in, link, unlink | checked in one request, written in another; two records of one fact | one holder; the records agree |
| Migrations (`lib/db`) | applied files | apply under an advisory lock | one step at a start | every file once |
| Content, dashboards, mail, UI, deployment | | | single writes, queries, presentation | not modelled |

`PROJECT.json` lists every component with its sources, and the hazards with the line
where each bites.

## What is modelled

| module | what it is |
|---|---|
| `DirectoryAccount` | one AD account and the operations of the Windows API on it, write by write, with every place where they can stop |
| `EmailDelivery` | outbox, worker replicas, API gate, SMTP, members; instances in `MCEmailDelivery` |
| `ManualDelivery` | reveal and confirm, the same directory; instances in `MCManualDelivery` |
| `CredentialDelivery` | abstract specification: what a signup is promised, whatever way its password is delivered |
| `EntraSyncQueue` | queue, file, worker and restarts of the synchronization; instances in `MCEntraSyncQueue` |
| `UsernameClaims` | submissions, reviews, profiles, first logins and the triggers behind them; instances in `MCUsernameClaims` |
| `UsernameRegistry` | abstract specification: who may have which username |
| `MemberIdentity` | activations, password changes and profile saves of members against one directory; instances in `MCMemberIdentity` |
| `PermissionCache` | the permission matrix, the copies of it in the replicas and their notifications; instances in `MCPermissionCache` |
| `MemberRoles` | officers' pages, batches of role changes, SIG leaders, alumni; instances in `MCMemberRoles` |
| `SignupForms` | editor, versions and publications of the form, and the answers given to it |
| `DiscordLinks` | a Discord account from the visitor's cookie to the member's profile |
| `MCSignupIntake` | composes the last two, the halves of a signup, and has their instances |
| `RoleKeys` | the constants that `PermissionCache` and `MemberRoles` share |
| `DirectoryAccountProofs` | lemmas on the outcomes of a directory call |
| `EmailDeliveryProofs`, `ManualDeliveryProofs` | inductive invariants, safety and action properties, implementation of `CredentialDelivery` |
| `EntraSyncQueueProofs` | inductive invariant and safety properties |
| `UsernameClaimsProofs` | inductive invariant, safety properties, implementation of `UsernameRegistry` |
| `RolesProofs` | inductive invariants and properties of `MemberRoles` and of `PermissionCache` |
| `MemberIdentityProofs` | inductive invariant, safety and action properties |
| `SignupIntakeProofs` | inductive invariants and properties of `DiscordLinks` and of `SignupForms` |

`EmailDelivery` and `ManualDelivery` extend `DirectoryAccount` and both implement
`CredentialDelivery` under a refinement mapping.

### DirectoryAccount

An account is `phase` (absent; incomplete: an object still disabled or without a
password; ready), `owned` (its description
carries the event's marker), `password` (whose: a token, *Chosen* by the member,
*Unknown*) and `mustChange` (`pwdLastSet = 0`). `Create` returns the set of outcomes of
`AdAccountCreation.Create`: a fresh account, one left behind by a failure and a
failed clean-up, a replay that leaves an account alone, a reissue, and a reissue that
set the password and failed before it required its change. `SetPassword` restarts
`pwdLastSet`; this is AD's behaviour, which `Enable` (it rewrites `pwdLastSet = 0` after
every `SetPassword`) relies on.

### EmailDelivery

| in the model | in the code |
|---|---|
| `row[e]` | the `provisioning_events` row; tokens are numbered per event |
| `job[w]`, `pc[w]` | the row as the worker claimed it, and where in `drainOnce` it is |
| `Locked(e)` | `SELECT ... FOR UPDATE` of `withProvisioningClaim`, held during the API call and the SMTP exchange |
| `gate[e]` | the semaphore of `AdAccountCreationGate`, with the call that holds it |
| `ClaimNext` | `claimNext`, with `SKIP LOCKED`, the lease, and the increment at a reclaim |
| `OpenDirectoryCall`, `DirectoryStarts`, `DirectoryEnds`, `DirectoryTimesOut` | the first transaction; the API goes on after its client gave up |
| `OpenMail`, `SendCredentialEmail` | the second transaction; the mail may go out and its receipt be lost |
| `Finish`, `Fail`, `Reap` | `markProvisioned`, the catch block, the crash-loop guard |
| `DatabaseError`, `Crash` | an exception of the database at each step, the death of a process |

The worker acts on the row as it was when it claimed it (`job[w].delivery`,
`job[w].attempts`): the model keeps that copy, because the properties are about its
being out of date.

### ManualDelivery

There is no row lock here: each reveal writes a new token into the row and every later
update compares it. `shown[e]` holds the tokens that reached an officer's browser; a
response can be lost after the row was made ready. Panels stay open, so an officer may
try to confirm any token that was shown. A reveal still alive when its five-minute
claim runs out is a *stall*; every call a reveal makes has a timeout of 30 seconds, so
a stall takes a process that is paused for minutes. `ConfirmedIsCurrent` is stated for
events that met none, the two action properties for all.

### CredentialDelivery

Per event: a phase (new, open, stopped, done), a receipt (null, pending, delivered), the
password in force and the one the member was told. Its actions say what any
implementation may do: issue a password while undelivered, tell the member, note the
receipt only when what was told is in force, confirm and complete. A completed event
whose receipt says pending does not exist, and after delivery only the member changes
the password. The two delivery models show that workers, leases, retries and panels add
nothing to that.

### EntraSyncQueue

| in the model | in the code |
|---|---|
| `jobs`, `disk` | the dictionary and `queue.json`; `Save` renames a flushed file, memory follows |
| `due`, `older` | `NextAttempt <= now`, and its order |
| `api[r]` | a request between the change in AD and `Notify` |
| `run` | the job a worker took, and (for the properties) which changes its run covers |
| `ids` | the fresh `Guid` of every request |
| `Finish` | remove or put off, unless a newer request replaced the job |
| `Stop`, `Start` | service stop at any moment; the constructor and what it refuses |

`changed[k]`, `noted[k]` and `synced[k]` count changes of the directory under a key: how
many were made, up to which one a request was saved, up to which one a run covered. A
run is credited only with what was in the directory when it began, so crediting is
never too generous.

### UsernameClaims and UsernameRegistry

| in the model | in the code |
|---|---|
| `sub[s]`, `usr[x]` | rows of `signup_submissions` and `user`; `usr[x].phase` says how far the first login came |
| `claims[n]` | the row of `username_claims`; both fields NULL stands for no row |
| `WriteSignup`, `WriteUser` | an INSERT, UPDATE or DELETE with its trigger and the unique index, or no step where one of them raises |
| `CheckSubmission`, `StartEdit`, `CheckProfile` | what a request reads before its write; an edit already holds the lock of its row |
| `CreatePendingSignup`, `SaveSignupEdits`, `SaveProfile` | the write and its commit |
| `ApproveSignup`, `DenySignup` | one transaction; `queued[s]` is the username in the provisioning event |
| `CreateUser`, `BootstrapUser`, `BootstrapLost` | the insert of a first login, then the hook's transaction, which commits or rolls back |
| `DeleteUser`, `DeleteSignup` | the operator's clean-up of test accounts (`windows-api/README.md:511-518`) |
| `Abort` | a request that ends without a write |

Every request may abort at any time, so a write that the triggers refuse needs no action
of its own. `bootstrapUser` writes the claim before it writes the user, and only this
order lets an existing account into an approved signup's claim; `Attached` is the claims
in between. `UsernameRegistry` has neither claims nor requests: applicants ask for free
names, members take free names, and only `Join` lets two share one. The refinement
mapping reads the names from `sub` and `usr`, not from the claims, so it would notice
claims that go astray.

### MemberIdentity

| in the model | in the code |
|---|---|
| `name[m]`, `sam[m]` | `user.username` and the `sAMAccountName` of the member's account |
| `changed`, `receipts` | members who replaced the temporary password; `account_activations` |
| `job[h]` | a request that the portal handles: what it read, whether it is `calling`, what the answer means |
| `BeginPasswordChange`, `ReadProfile` | the request up to its call, or to the transaction of a save |
| `BeginActivation`, `LockEvent` | the statement that finds no receipt and then waits for the lock of the event; it does not look again, so a second activation may follow the first |
| `WriteProfile`, `RefuseProfile` | the transaction of `saveProfile`, which commits *before* the directory is called |
| `DirectoryActs`, `DirectoryRefuses`, `GiveUp`, `LateCall` | the call: it takes effect or not, is answered, fails or is not answered; the portal gives up after 30 seconds and it goes on |
| `ActivationVerdict`, `PasswordVerdict`, `SaveVerdict` | how the three doors read the same answers: they differ in what an error means |
| `EndActivation`, `EndPasswordChange`, `EndSave`, `Crash` | the receipt and what the member is told; the portal stops |

A call names the account by the username that the portal had when it read it, so the
directory acts on whoever has that name by then (`Found`). `took`, `unsure`, `warned`
and `overlapped` are history, for the properties.

### PermissionCache

| in the model | in the code |
|---|---|
| `grants`, `cache[r]`, `loading[r]` | `role_permissions`, the copy of a replica with its age, the loads under way with the rows they read |
| `ReadGrants`, `FillCache` | `rolePermissionSets` before and after its `await`; whatever arrived in between is overwritten |
| `Listen`, `Notified`, `ListenerError`, `BumpLost` | `ensureListener` and what the connection may do |
| `MayOpen`, `MayEdit` | what the page asks for (`admin.access` of the layout, `roles.read` of its loader) and what its action asks for (`admin.access`, `roles.manage`) |
| `BeginToggle`, `CommitToggle`, `BumpRbac` | `useToggleGrant`: authorized by the copy, committed, notified afterwards; the page may have been opened long before |
| `Tick` | time, in units in which copies expire and loads are bounded |

### MemberRoles

| in the model | in the code |
|---|---|
| `page[a]`, `pending[a]`, `pendingSigs[a]` | the rows an officer's page was loaded with and the unsaved state on it: whole lists of roles and of SIGs per member |
| `OpenPage`, `Toggle`, `ToggleSig` | `useMembers`, `tryToggle` with the rules on the roles the page shows, `tryToggleSig` |
| `Changes`, `Picks` | the requests that `savePending` derives from the page |
| `Check`, `Refuse` | the action up to its transaction: every change is checked on roles read once |
| `ApplySave`, `ApplyUnanswered`, `SaveFails` | the transaction, with its answer (which empties the pending changes if nothing was blocked), without, or rolled back |
| `Reload` | the page's loader, which runs again after every action and leaves pending changes alone |
| `SetMemberStatus`, `ListAlumni`, `ApproveAlumni` | status changes and `lib/alumni/suggestions.ts`, which write roles beside the batches |

### SignupForms

| in the model | in the code |
|---|---|
| `forms`, `Served` | `form_schemas` and the version `loadPublishedSignupForm` finds |
| `editor`, `AddField`, `RemoveField`, `MoveField`, `UpdateField` | `field-editor.tsx`; a new question's key is its place in the list |
| `ReadDraft`, `FindPublished`, `CommitPublication` | the statements of `usePublishSchema`, which see different states of the table |
| `Rule`, `Compiles`, `Accepts`, `Fits` | `lib/forms/zod-compiler.ts`, reduced to what keys, kinds, options and marks decide |
| `BeginSubmit`, `EndSubmit`, `BeginStore`, `EndStore` | a signup and a profile: validated on the form of the moment, written later |
| `SaveSignupEdits`, `Decide`, `BootstrapProfile` | corrections on the version *stored with the signup*, the decision, the hand-over |

Visitors post from any version that was published once: their page may still be open.

### DiscordLinks

| in the model | in the code |
|---|---|
| `cookie[p]`, `signup[p]`, `linked[p]`, `accounts` | the signed cookie, `signup_submissions`, `user.discord_id`, the rows of `account` that the authentication library keeps |
| `Taken` | `discordIdTaken`: another member or a pending signup |
| `DiscordCallback`, `BeginSignup`, `EndSignup`, `SignUpWithout`, `DecideSignup` | the check at the callback, again at submission, the insertion under its index, the decision |
| `BeginLogin`, `EndLogin` | `bootstrapUser`, its check and its writes |
| `LinkSocial`, `AfterCreate`, `EndLinking` | the library's row, the hook's check, and its write after it asked Discord for the name |
| `BreakLinking` | the hook does not end, by an error of the database or with the process; the library's row stays |
| `UnlinkDiscord` | both records are removed |

`crossed` and `parted` are history: Discord accounts that a race has marked, and members
whose two records may differ because they linked a second Discord account or a hook did
not end. Unlinking takes a member out of `parted`.

## Runs

| run | instance | checks |
|---|---|---|
| `safety` | 1 event, 2 workers, 3 attempts, 2 faults, 1 retry | `TypeOK`; one external operation (`OneExternalOperation`); receipts are true (`MailedIsCurrent`); owed passwords (`OwedIsNotCompleted`); `CallsAreBounded`; `DeliveredIsFinal`; `UsedAccountsAreKept`; `StaleWorkersAreHarmless`; refinement `KeepsThePromise` |
| `liveness` | 2 events, 1 worker | `EveryEventSettles` |
| `undelivered` | as `safety`, smaller | `CompletionDelivers` is violated, see below |
| `manual_safety` | 1 event, 3 requests, 4 reveals, 2 faults, 1 stall | `TypeOK`, `ConfirmedIsCurrent`, `ReplacedRevealsAreHarmless`, `UsedAccountsAreKept`; refinement `KeepsThePromise` of `CredentialDelivery` while no stall happened |
| `sync` | 3 keys, one of them healthy, 2 requests, room for 2 jobs, 2 changes a key (1 under the third), 1 fault | `TypeOK`, `NoChangeForgotten`, `RestartSucceeds`; `NotedIsSynced` |
| `usernames` | 2 signups, 2 accounts, 3 names, 2 requests, all records deletable | `TypeOK`, `ClaimsAreExact`, `AccountIsReserved`, `OneFounder`; refinement `KeepsRegistry` |
| `founder` | 1 signup, 2 accounts, nothing deletable | `FirstUserIsAdmin` is violated, see below |
| `rbac` | 2 replicas, an administrator and an officer, 2 edits, 2 loads a replica, copies live 2 ticks | revoked permissions end (`ChangesApply`); an old copy has its reason (`NotifiedIsFresh`); the edits of administrators stay accepted (`AdminsMayEdit`) |
| `lockout` | as `rbac`, 1 replica | `MatrixInReach` is violated, see below |
| `members` | 2 members, 3 roles, 1 SIG, 2 clicks | `AdminRemains`, `LeadersHoldRole`, `SavesWhatWasClicked` |
| `identity` | 2 members (one new), 4 names, 2 requests at a time, 1 late call | `RejectionsAreSafe`, `ActivationsAreAccounted`, `NamesAgree`, `OwnAccountOnly` |
| `intake` | forms: 2 officers, 3 versions, 2 edits; Discord: 3 people, 2 accounts | `PublishedIsServed`, `AnswersFitTheirSchema`; `OneHolder`, `AccountsAgree` |

Why the bounds are enough. Events share nothing but the workers (a row, an account and a
gate each), so one event shows the safety properties; two workers give every pair of a
stale and a current claim, and with two faults a third claim while two old ones live.
Three attempts make the difference between a failure, a reclaim and the crash-loop
guard visible at the limit; the real limit is a constant of the proofs. Three handlers
and four reveals leave two replaced reveals behind a current one. Room for
two jobs out of three keys makes the queue fill up; two changes under a key put one
before and one during a run, and the third key needs only one to take up room. Two signups, two accounts and two requests give every pair
of rivals for a name, of either kind, and the third name lets both of a pair move; a
record that was deleted can be created again, so histories are not bounded.
The bounds on the environment (`MaxFaults`, `MaxRetries`,
`MaxReveals`, `MaxStalls`, `MaxChanges`, `MaxEdits`, `MaxToggles`, `MaxTouches`,
`MaxVersions`, `MaxLate`, `Toggled`, and `MaxLoads` a replica) are guards of the actions that use
them up.

- *Permissions.* Two edits, on one replica or on two, with two loads on each, give a load
  that began before both, between them and after; a time to live of two ticks and loads
  of at most one keep "expired", "fresh" and "old but usable" apart. Of what the roles page
  asks for, two grants are edited (`Toggled`): one that the lockout protection keeps,
  (admin, `roles.manage`), and one that it does not, (admin, `roles.read`).
- *Members.* Everyone begins with the role of SIG leaders, which saves the clicks that
  would only prepare a case, and in this instance alumni manage members, so that a member
  who is no administrator has changes refused. Two clicks, of one officer or one each,
  give two saves that cross, a batch of which one half is blocked and a page under
  pending changes. When the clicks are used up no page is loaded again; what was
  pending can still be saved.
- *Identity.* Two spare names let two members give up and take each other's names; one
  late call is enough for it to meet every later request. A save that outlives the
  portal is left out and no save begins once names are not trusted (`Trusted`), since the
  properties claim nothing of names after that.
- *Intake.* Neither half reads what the other writes, so each behaviour moves one half
  and the states add up (`half`). The form first published asks one question under the
  key of a second, as the editor leaves it when the first is removed, so that the
  question added next repeats a key. Nothing is edited that cannot be saved any more.
  Three versions are what two officers need to publish different drafts over a third.
  Three people give a member, an applicant and a rival for one Discord account; a person
  has one open signup at a time.

Symmetry is used for interchangeable workers, handlers, requests, replicas, officers,
people, signups, accounts and names, and in no run that checks liveness.
Deadlock checking is off because the system may stop: every event
settled, nothing queued, no fault left.

Fairness. Email: a worker's loop polls again every five seconds and each of its waits
has a timeout (weak fairness of its steps), a directory call that was started ends, and
a claimable event is claimed — per event, because `claimNext` takes the row that has
been due longest. Approvals, retries and members are not fair. Entra: the worker's steps
and the restart are weakly fair; a back-off passes (strong fairness, since the model has
no time in the instant between two iterations of the worker's loop); for *healthy* keys
a run that is tried again and again succeeds. Nothing is assumed of the other keys.

## Proofs

TLAPS checks every theorem for any sets of events, workers and requests, any finite set
of queue keys and any bounds; the assumptions are the named `ASSUME`s of the modules
(`BoundsAssumption`, `QueueAssumption`, `RolesAssumption`, `CacheAssumption`,
`IdentityAssumption`, `LinksAssumption`, `FormsAssumption`). They give the bounds and the
initial data their type, keep the value that stands for null apart from the data, and
name what the code itself names: the roles `admin` and `officer`, the permissions
`admin.access`, `roles.read` and `roles.manage`, usernames of signups that differ. TLC evaluates them in every run.

Every safety and action property that a passing run checks is a theorem here. The inductive
invariants were checked with TLC on the instances of the runs before they were proved,
and each is a conjunction of named parts in the module it is about. A theorem speaks of
the specification of its module (`CacheSpec`, `LinksSpec`, `FormsSpec`, `Spec`); the run
`intake` checks the last two side by side.

**EmailDelivery** (`EmailDeliveryProofs`). `InvariantHolds` proves `Spec => []IInv`. The
properties alone are not inductive; `IInv` adds what they rest on:

- `Tokens`: no two claims share a token, so a comparison with the row's identifies one worker;
- `LockKeepsClaim`: a row locked by an operation is still its worker's. This is why the
  lock, and not the token check before it, carries `OneExternalOperation`;
- `OwnerView`: what the owner remembers of the row is true, although it read it long ago;
- `CallsAreCounted`: a call that was made is, or will be, counted as an attempt;
- `CredentialInFlight`: from the answer of the API to the receipt of the mail the gate is
  empty and the password in force is the one being mailed. It excludes the late directory
  call: the API serializes calls per account, so the answer a worker waits for comes
  after every earlier call has ended.

One lemma per group of actions shows that a step preserves its part. From `IInv` follow
`TypeCorrect`, `OneOperationAtATime`, `ReceiptsAreTrue`, `NothingOwedCompletes`,
`CallsStayBounded`.

**Its refinement** (`EmailDeliveryProofs`). The initial states map to initial states and
each step to a step of `CredentialDelivery` or a stutter, one step per action of `Next`;
also `UsedAccountsSurvive`, `DeliveryIsFinal` and `StaleWorkersCannotWrite`.

**ManualDelivery** (`ManualDeliveryProofs`). No lock orders
reveals here, so the invariant has to say what the tokens order:

- `Tokens`: tokens grow, and a reveal in progress has not been shown yet;
- `OwedUntilConfirmed`: an unconfirmed row carries the token of the last reveal;
- `RevealsAreCurrent`: without a stall a reveal in progress owns its row, because the
  next claim has to wait until it ended or its five minutes are over;
- `CallsAreLater`: a call in the gate, even one whose reveal is dead, has a later token
  than anything shown; when it ends it can only replace a password nobody has confirmed;
- `CredentialHeld`: from the answer of the API to the confirmation the gate is empty and
  the password in force is that of the row, or the member's;
- `ChosenIsUsed`, `ForeignIsUntold`: what a member chose, and accounts of others, are
  recognisable as such by the next call.

The parts that need calm are stated for events without a stall, so `ManualInvariant`
holds with stalls. `ManualRefinement` is `Spec => KeepsThePromise`, which speaks of steps
before any stall: with a stall the promise can be broken (two reveals at once, the older call last).
`RevealsKeepUsedAccounts` and `ReplacedRevealsCannotWrite` need no such premise.

**EntraSyncQueue** (`EntraSyncQueueProofs`). The invariant adds `MemoryIsSaved` (memory
and file agree while the service is up), `JobsAreKnown` and `RunCoversItsJob`: as long as
the job in the file has the id of the one that runs, that run covers everything noted
under its key. That is what the new id per request buys, and the step that would fail
without it is the removal in `Finish`. `FileLoads` needs the cardinality of the key set:
a job is added only under a known key or while there is room.

**UsernameClaims** (`UsernameClaimsProofs`). `IInv` is the conjunction of the checked
properties and `EditsArePending`: the row of an edit in progress is still pending, since
the lock keeps approval, denial and deletion away. `SignupWriteIsExact` and
`UserWriteIsExact` are the argument about the triggers: from exact claims a write leads
to exact claims. The second is stated for claims that are exact *or* already hold the
account under its new name (`Prepared`), which is what the bootstrap hands to the
trigger. The other lemmas say which row each action writes. `ImplementsRegistry` shows,
action by action, that a committed write is `Ask`, `Approve`, `Drop`, `Take`, `Join`,
`Leave` or a stutter; that the name is free comes from `ClaimsAreExact` and the guard in
the trigger, never from the earlier reads.

**MemberRoles** (`RolesProofs`). `MemberRolesInvariant` proves `IInv`, for any
members, roles and SIGs. It adds to the properties

- `BatchesKeepTheirAdmin`: who has a change of administrators accepted was one when it
  was checked, and is not removed by it. A batch may remove any number of
  administrators, each of which looked like one of several; what is left is the officer
  who saves. This, and not the rule about the last administrator, is why one check per
  change is enough for a whole batch;
- `PendingIsClicked`, `BatchesAreClicked`: the pending lists differ from the page only
  where the officer clicked, and the batch is the difference to the *page*. Sending the
  lists, or the difference to the database, would undo what others did meanwhile.

`AnAdminRemains`, `LeadersAreLeaders` and `OnlyClicksAreSaved` follow, with the exceptions
the properties name.

**PermissionCache** (`RolesProofs`). `CacheInvariant` proves `CacheSpec => []CacheInv`.
`since` counts the ticks since the last edit.

- `AgesTell`: a copy or a load that differs from the matrix is at least as old as the
  last edit; a copy is at most `MaxLoad` younger than the rows in it, because its age
  starts at the end of the load. `ChangesReachEveryReplica` is then arithmetic: what is
  older than `TTL + MaxLoad` is not used. Notifications play no part in it;
- `NotifiedIsFresh` is inductive beside it, and says what the notifications do;
- `CriticalIsKept`: `admin.access` and `roles.manage` of administrators are in the matrix
  and in every copy and load, and no edit under way takes them. The guard looks at the
  edit alone, never at a copy, so old copies cannot defeat it. `AdminsKeepEditing`
  follows: their edits are accepted. That they can also *open* the page takes
  `roles.read`, which nothing protects: the theorem says so, and the run `lockout` shows
  what comes of it.

**MemberIdentity** (`MemberIdentityProofs`). `IdentityInvariant` has two halves. One is
about what members are told:

- `TookIsTold`: an activation that took effect has its receipt, or its member was told to
  ask, or a request under way will tell one of the two;
- `LateIsTold`: when the portal gives up on a call that goes on, its member is told that
  the outcome is uncertain. This is what makes a late success harmless;
- `ToldIsTrue`: no receipt, and no success under way, without an activation.

The other is about names and is stated under `Trusted` (no save warned its member, none
overlapped another of the same member), as the properties are:

- `OneAccountPerName`: the directory keeps `sAMAccountName` unique; it holds always;
- `SaveAgrees`: what a save read is still true when it writes, and what it wrote is
  where the directory is on its way to. `OneSave` is why nobody else moves it;
- `NewAreUnchanged`: before the first login the name is that of the signup.

`NobodyReachesAnother` combines them: the name a request carries is its own member's name
in the directory at the moment of the call, and nobody else has it, even if two members
gave up and took each other's names. Late calls are activations and password changes,
which change no name.

**DiscordLinks** (`SignupIntakeProofs`). `LinksInvariant` separates what the database
guarantees from what the code checks:

- `HeldApart`: two members never share a Discord account, nor two pending signups, since
  each has a unique index. A member *and* a signup share one only if it is in `crossed`;
- `ChecksHold`: what a request found free stays free until somebody takes it, and taking
  what another has found free is what `crossed` records. So outside `crossed` the check
  does its work although the write comes later, and `OneHolderEach` follows;
- `HookedAlone`: while the hook of a new row runs, its member has no other row, unless
  the member is in `parted`; a hook that breaks puts its member there, an unlinking, which
  leaves no row at all, takes it out again;
- `Stages`: who has no user row has no account, no link and no hook.

The lemmas `NobodyTakes` and `SomebodyTakes` say what an action that takes no account, or
one, leaves of the checks; every action is an instance of one of them.

**SignupForms** (`SignupIntakeProofs`). `FormsInvariant` proves `FormsSpec => []FormsInv`:

- `EverythingFits`: not only stored answers fit their version, also those validated and
  not written yet. It holds because no operation rewrites the questions of a version in
  place: publishing changes a status, saving adds a version (lemmas on versions that are
  kept). A correction and a profile merge old answers with new ones, and `AnsweredFits` and
  `MergedFits` show that such a union still fits: rules look at one key at a time;
- `PublicationsKnow`: a publication that no other has overtaken has read exactly the
  published versions, so archiving them leaves only its own.

`Served` is a maximum, and that one exists is not trivial for TLAPS: the proof goes through
the well-foundedness of `<` on the naturals, applied to the distances from the number of
versions.

## Disagreements with the documentation

**Delivery.** `windows-api/README.md:126-127` says that an event awaiting delivery that receives no
password "remains failed and requires an administrator to verify delivery". The run
`undelivered` shows a completed event whose member was never mailed a password: the first
call creates the account and its answer is lost, so the receipt stays null; a later
reissue sets a password and fails before it requires its change; the next call finds an
account that looks used, returns no password, and since the receipt does not say pending
the row becomes provisioned (`worker/provisioning.ts:54-57, 102`).

**The first administrator.** The comment of `bootstrapUser` (`lib/auth-bootstrap.ts:26-30`)
calls the bootstrap race-safe because an advisory lock serializes its checks, and says
that the first user becomes administrator. The lock does not cover the insert of the
user, which commits before the hook runs. The run `founder` inserts two users and then
bootstraps both: each counts two rows, both become members, and since the count never
returns to one, no later login makes an administrator. (When the bootstrap of a lone
first user rolls back, the portal is left without one as well; the property excludes that.)

**The lockout.** `useToggleGrant` promises lockout protection: "the admin role can never lose
admin.access or roles.manage" (`admin/roles/index.tsx:47`, and the error text at 56). It
keeps that promise (`AdminsMayEdit`, proved), and misses what it is for. The page is loaded
by `useRbacMatrix`, which requires `roles.read` (line 15), and (admin, `roles.read`) can be
revoked like any other grant; with the seeds nobody else has it. In the run `lockout` one
administrator does that, and from then on nobody can open the page on which it could be
undone: a 403 for all. The action itself asks for `roles.manage` alone, so a page that
is still open, or a form posted without one, can grant `roles.read` again.

## Limits

*Only model-checked.* Liveness: `EveryEventSettles` and `NotedIsSynced` rest on fairness,
which is beyond TLAPS. Everything else that a passing run checks is also proved.

*Abstractions.* Time is a choice: a deadline may have passed or not, and a live claim
that outlives its lease costs a fault. A commit that fails is modelled at the commit. A
request that waits at the gate is cancelled with its client, a started one runs to its
end; requests delayed inside the network are excluded. An API process that dies looks to
its client like an error or a timeout, which the outcomes of `Create` contain. Direct AD
clients other than the API are excluded, as `windows-api/README.md` demands. There is one
outbox row per submission, as the code creates them, so the clauses about alternative
rows are not modelled. The development stub of the API and local logins, audit rows,
wording and log entries are left out. In `UsernameClaims` a transaction is one step: the
triggers' conflicting writes meet on one row of `username_claims`, whose lock orders
them; which approved signup a NetID leads to is any one or none; a deadlock or
serialization error is an `Abort`. The disk is trusted once a rename returned. The
limit of activation attempts (`activate-account.ts:26-58`) is one more refusal before the
call. The permission checks of one request (the layout's and the action's) are one step.
The NetID that stands in for a username of members without one (`save.ts:196`,
`api/password/index.ts:72`) is left out: in `MemberIdentity` everybody signed up and has
one. So is the rule on graduation years (`zod-compiler.ts:130-144`), which is the same in
every version of the form. The state of the OAuth exchange is external; what it leads to is that a visitor
holds a cookie for any Discord account. Answers are words, options or blanks; base
fields, the same in every version, are left out.

*What the exceptions of the properties stand for.* Some properties hold but for a case
they name; it is possible in the code, and nothing repairs it by itself:

- two saves of roles that cross, each of which removes the administrators that the
  other one's check still saw, can leave none (`crossed`; `admin/members/index.tsx:123`);
  one that reads the roles before another's write can name leaders without the role
  (`outdated`);
- a page that loads its rows again under pending changes compares whole lists with the
  new rows: the next save undoes what others did (`reloaded`);
- two saves of one member that overlap, or one that the directory did not see, leave the
  portal and the directory with different names (`Trusted`). The second warns its member,
  the first warns nobody. From then on a save names the account by a username that may
  by now be another member's, and the change goes to that account;
- two publications that overlap can both stay published (`mixed`); the higher version is
  served, whichever was published last (`admin/forms/index.tsx:99`);
- a Discord account found free by two requests ends on a member *and* on a pending signup
  (`crossed`; `auth.ts:169`, `signup/index.tsx:124`), because the two indexes are on
  different tables. If the hook's write is refused by its index the row of `account`
  stays, and the profile offers to link what is linked;
- a second Discord account that is refused clears the first from the user and leaves its
  row (`auth.ts:175`), and a hook that does not end leaves the row of the new one without
  `user.discord_id` (`parted`; `auth.ts:166-221`). Unlinking repairs both, but the profile
  offers it only to who shows a Discord account.

*What the models show beside the properties.* A password change that the directory
answered with an error is reported as not changed although it may have been. An optional
choice cannot be left blank at signup or in the profile, since the page posts an empty
word that is none of the options; only the officers' correction drops it. A choice
published without options makes every later signup and profile save fail. The editor
gives a new question the key of its place, so after a removal it may repeat a key, and
of two questions with one key the later makes the rule
(`components/admin/field-editor.tsx:147`). A profile that is saved loses the answers to
retired questions; a correction of a signup keeps them. A signup that was approved but
never logged in holds no claim on its Discord account.

*Not modelled.*

- Migrations (`lib/db/migrate.ts`): an advisory lock of Postgres and a table of applied
  files; what races before the lock is Postgres's own catalogue, and a model of it would
  restate Postgres. The delivery models assume a migrated schema.
- Announcements and resources: each write is one row, and no other write depends on it.
- Status, logs and dashboards, and the pages that only show a member: queries.
- The alumni digest (`worker/alumni-cron.ts`): a mail to the officers every night, with
  no state.
- Mail templates and transport, user interface, deployment: formatting, presentation and
  configuration. What the worker makes of SMTP's answers is in `EmailDelivery`.
- Profile updates and organizational units of the Windows API beyond the rename in
  `MemberIdentity`: fields without a rule between them.

*Known ends of the road.* A member who renames away from the name of an approved signup
cannot come back: the name stays reserved by that signup, and only an insert may share
it. A member who is handed a password changes it before the
officer confirms, and another reveal follows: the API issues no password for an account
in use, the row is failed and cannot be confirmed. The code asks an administrator to
verify; no operation closes such an event. A synchronization job of a deleted account
stays in the queue for ever, and such jobs take up its room.

## Plan

Built, in this order:

1. `EmailDelivery`, `DirectoryAccount`, `CredentialDelivery`: safety, refinement proved.
2. `ManualDelivery`: safety, refinement proved.
3. `EntraSyncQueue`: safety proved.
4. `UsernameClaims`, `UsernameRegistry`: safety, refinement proved.
5. `PermissionCache`: safety proved.
6. `MemberRoles`: safety proved.
7. `MemberIdentity`: activation, passwords and the names of the directory, safety proved.
8. `SignupForms`, `DiscordLinks`: checked together in `intake`, safety of each proved.

What would come next: the two halves of a signup composed by a theorem, so that what is
proved of `FormsSpec` and `LinksSpec` is stated of the specification that `intake`
checks; steps towards the liveness properties that need no fairness (a measure that every
step of a worker decreases); and, if the Windows API grows another writer, its
organizational units.
