----------------------------- MODULE DiscordLinks ------------------------------
(***************************************************************************)
(* Discord accounts and whom they belong to.  A visitor authorises one     *)
(* before signing up and keeps it in a signed cookie (routes/signup/       *)
(* discord); the signup carries it; the first login hands it to the member *)
(* (lib/auth-bootstrap.ts), who may also link and unlink one on the        *)
(* profile page (lib/auth.ts, routes/(member)/dashboard/profile).          *)
(*                                                                         *)
(* The portal keeps it twice: user.discord_id and a row of account, which  *)
(* the authentication library manages.  Whether a Discord account is taken *)
(* is read before it is written, in requests of their own.                 *)
(***************************************************************************)
EXTENDS Naturals, FiniteSets

CONSTANTS Person,   \* people, who sign up and become members
          Discord,  \* Discord accounts; anyone may be logged in to any of them
          Nobody    \* no Discord account, no request

\* The rows of signup_submissions, and what the after-hook of a new row of
\* account has found out.
Rows  == [status : {"none", "pending", "approved"}, discord : Discord \cup {Nobody}]
Hooks == [discord : Discord, free : BOOLEAN]

ASSUME LinksAssumption == Nobody \notin Person \cup Discord \cup Hooks

VARIABLES cookie,   \* cookie[p]: the Discord account p's browser carries
          applying,  \* applying[p]: p's signup, its Discord account found free
          signup,   \* signup[p]: status and Discord account of p's signup
          member,   \* people with a row in user
          linked,   \* linked[p]: user.discord_id
          accounts, \* rows of account, <<person, Discord account>>
          login,    \* login[p]: p's first login, after its check
          linking,  \* linking[p]: the after-hook of p's new row of account
          crossed,  \* Discord accounts written while another had found them free
          parted    \* members whose two records may have come apart

linksVars == <<cookie, applying, signup, member, linked, accounts, login,
               linking, crossed, parted>>

NoSignup == [status |-> "none", discord |-> Nobody]

LinksInit == /\ cookie = [p \in Person |-> Nobody]
             /\ applying = [p \in Person |-> Nobody]
             /\ signup = [p \in Person |-> NoSignup]
             /\ member = {}
             /\ linked = [p \in Person |-> Nobody]
             /\ accounts = {}
             /\ login = [p \in Person |-> Nobody]
             /\ linking = [p \in Person |-> Nobody]
             /\ crossed = {}
             /\ parted = {}
--------------------------------------------------------------------------------
\* The unique indexes: user_discord_id_key, signup_submissions_pending_..._key.
LinkedTo(d)  == {p \in Person : linked[p] = d}
PendingOn(d) == {p \in Person : signup[p].status = "pending"
                                /\ signup[p].discord = d}

\* Mutant: a pending signup does not count.
Mut_Taken(d, p) == LinkedTo(d) \ {p} # {}

\* discordIdTaken: by another member, or by a pending signup.
Taken(d, p) == LinkedTo(d) \ {p} # {} \/ PendingOn(d) # {}

\* Requests that have found d free and have not written yet.
Checked(d) == {p \in Person : applying[p] = d \/ login[p] = d
                              \/ linking[p] = [discord |-> d, free |-> TRUE]}

\* A write of d by p crosses the checks of the others.
Crosses(d, p) == crossed' = IF d # Nobody /\ Checked(d) \ {p} # {}
                            THEN crossed \cup {d} ELSE crossed

\* insertDiscordAccount: onConflictDoNothing on the Discord account.
WithAccount(p, d) == IF \E q \in Person : <<q, d>> \in accounts
                     THEN accounts ELSE accounts \cup {<<p, d>>}
--------------------------------------------------------------------------------
(***************************************************************************)
(* Before and at signing up.                                               *)
(***************************************************************************)

\* exchangeDiscordCode and fetchDiscordIdentity: the Discord account that the
\* browser is logged in to, whichever it is.
Authorised == Discord

\* The callback: any other end of the authorisation leaves the cookie alone.
DiscordCallback(p, d) ==
  /\ signup[p].status = "none"
  /\ ~Taken(d, Nobody)
  /\ cookie' = [cookie EXCEPT ![p] = d]
  /\ UNCHANGED <<applying, signup, member, linked, accounts, login, linking,
                 crossed, parted>>

\* useClearSignupDiscord, also while a signup of another tab is under way.
ClearSignupDiscord(p) ==
  /\ cookie[p] # Nobody
  /\ cookie' = [cookie EXCEPT ![p] = Nobody]
  /\ UNCHANGED <<applying, signup, member, linked, accounts, login, linking,
                 crossed, parted>>

\* signSignupDiscordCookie, verifySignupDiscordCookie: a cookie is good for an
\* hour, then as good as none.
Verified(p) == {cookie[p], Nobody}

\* useSubmitSignup, up to the insertion: the Discord account is checked again.
BeginSignup(p) ==
  /\ signup[p].status = "none" /\ applying[p] = Nobody
  /\ \E d \in Verified(p) \ {Nobody} :
       /\ ~Taken(d, Nobody)
       /\ applying' = [applying EXCEPT ![p] = d]
  /\ UNCHANGED <<cookie, signup, member, linked, accounts, login, linking,
                 crossed, parted>>

Row(status, d) == [status |-> status, discord |-> d]

\* createPendingSignup: the index of pending signups may refuse it.
EndSignup(p) ==
  LET d == applying[p] IN
  /\ d # Nobody
  /\ applying' = [applying EXCEPT ![p] = Nobody]
  /\ IF PendingOn(d) # {}
     THEN UNCHANGED <<cookie, signup, crossed>>
     ELSE /\ signup' = [signup EXCEPT ![p] = Row("pending", d)]
          /\ cookie' = [cookie EXCEPT ![p] = Nobody]
          /\ Crosses(d, p)
  /\ UNCHANGED <<member, linked, accounts, login, linking, parted>>

\* A signup without a Discord account.
SignUpWithout(p) ==
  /\ signup[p].status = "none" /\ Nobody \in Verified(p) /\ applying[p] = Nobody
  /\ signup' = [signup EXCEPT ![p] = Row("pending", Nobody)]
  /\ cookie' = [cookie EXCEPT ![p] = Nobody]
  /\ UNCHANGED <<applying, member, linked, accounts, login, linking,
                 crossed, parted>>

\* useApproveSignup, useDenySignup: who was denied may sign up again.
DecideSignup(p) ==
  /\ signup[p].status = "pending"
  /\ \/ signup' = [signup EXCEPT ![p].status = "approved"]
     \/ signup' = [signup EXCEPT ![p] = NoSignup]
  /\ UNCHANGED <<cookie, applying, member, linked, accounts, login, linking,
                 crossed, parted>>
--------------------------------------------------------------------------------
(***************************************************************************)
(* The first login (bootstrapUser), a transaction at READ COMMITTED.       *)
(***************************************************************************)

\* Its check; a lock lets one first login at a time.  A taken Discord account
\* is dropped without a word.
BeginLogin(p) ==
  /\ signup[p].status = "approved" /\ p \notin member
  /\ \A q \in Person : login[q] = Nobody
  /\ IF signup[p].discord = Nobody \/ Taken(signup[p].discord, p)
     THEN member' = member \cup {p} /\ UNCHANGED login
     ELSE login' = [login EXCEPT ![p] = signup[p].discord] /\ UNCHANGED member
  /\ UNCHANGED <<cookie, applying, signup, linked, accounts, linking, crossed,
                 parted>>

\* Its writes.  The index of members may refuse them: then the member has no
\* Discord account, and no profile either.
EndLogin(p) ==
  LET d == login[p] IN
  /\ d # Nobody
  /\ login' = [login EXCEPT ![p] = Nobody]
  /\ member' = member \cup {p}
  /\ IF LinkedTo(d) # {}
     THEN UNCHANGED <<linked, accounts, crossed>>
     ELSE /\ linked' = [linked EXCEPT ![p] = d]
          /\ accounts' = WithAccount(p, d)
          /\ Crosses(d, p)
  /\ UNCHANGED <<cookie, applying, signup, linking, parted>>
--------------------------------------------------------------------------------
(***************************************************************************)
(* Linking on the profile page.                                            *)
(***************************************************************************)

\* The library creates the row of account, unless the Discord account has one.
\* A page that still offers the button may be used when one is linked already.
LinkSocial(p, d) ==
  /\ p \in member /\ linking[p] = Nobody
  /\ \A q \in Person : <<q, d>> \notin accounts
  /\ accounts' = accounts \cup {<<p, d>>}
  /\ linking' = [linking EXCEPT ![p] = [discord |-> d, free |-> FALSE]]
  /\ parted' = IF linked[p] # Nobody \/ \E a \in accounts : a[1] = p
               THEN parted \cup {p} ELSE parted
  /\ UNCHANGED <<cookie, applying, signup, member, linked, login, crossed>>

\* Mutant: the row of account stays.
Mut_Refused(p, d) == /\ linked' = [linked EXCEPT ![p] = Nobody]
                     /\ UNCHANGED accounts

\* databaseHooks.account.create.after: a Discord account of somebody else is
\* given up again.
Refused(p, d) == /\ linked' = [linked EXCEPT ![p] = Nobody]
                 /\ accounts' = accounts \ {<<p, d>>}

AfterCreate(p) ==
  /\ linking[p] # Nobody /\ ~linking[p].free
  /\ LET d == linking[p].discord IN
     IF Taken(d, p)
     THEN /\ linking' = [linking EXCEPT ![p] = Nobody]
          /\ Refused(p, d)
     ELSE /\ linking' = [linking EXCEPT ![p].free = TRUE]
          /\ UNCHANGED <<linked, accounts>>
  /\ UNCHANGED <<cookie, applying, signup, member, login, crossed, parted>>

\* After it has asked Discord for the name it writes the member's row; the
\* index of members may refuse that.
EndLinking(p) ==
  /\ linking[p] # Nobody /\ linking[p].free
  /\ LET d == linking[p].discord IN
     IF LinkedTo(d) \ {p} # {}
     THEN UNCHANGED <<linked, crossed>>
     ELSE linked' = [linked EXCEPT ![p] = d] /\ Crosses(d, p)
  /\ linking' = [linking EXCEPT ![p] = Nobody]
  /\ UNCHANGED <<cookie, applying, signup, member, accounts, login, parted>>

\* A hook that does not end: the database fails or the portal stops, and the
\* library's row is committed already.  The row of a Discord account that was
\* refused may be gone and the member's row still be as it was.
BreakLinking(p) ==
  /\ linking[p] # Nobody
  /\ LET d == linking[p].discord IN
     \/ UNCHANGED accounts
     \/ ~linking[p].free /\ Taken(d, p) /\ accounts' = accounts \ {<<p, d>>}
  /\ linking' = [linking EXCEPT ![p] = Nobody]
  /\ parted' = parted \cup {p}
  /\ UNCHANGED <<cookie, applying, signup, member, linked, login, crossed>>

\* clearDiscordFromUser removes all, whatever the library said before.
WithoutAccounts(p) == {a \in accounts : a[1] # p}

\* useUnlinkDiscord, which a page that is out of date offers too.
UnlinkDiscord(p) ==
  /\ p \in member
  /\ accounts' = WithoutAccounts(p)
  /\ linked' = [linked EXCEPT ![p] = Nobody]
  /\ parted' = parted \ {p}
  /\ UNCHANGED <<cookie, applying, signup, member, login, linking, crossed>>
--------------------------------------------------------------------------------
LinksNext == \E p \in Person :
  \/ \E d \in Authorised : DiscordCallback(p, d) \/ LinkSocial(p, d)
  \/ ClearSignupDiscord(p) \/ BeginSignup(p) \/ EndSignup(p) \/ SignUpWithout(p)
  \/ DecideSignup(p) \/ BeginLogin(p) \/ EndLogin(p)
  \/ AfterCreate(p) \/ EndLinking(p) \/ BreakLinking(p) \/ UnlinkDiscord(p)

LinksSpec == LinksInit /\ [][LinksNext]_linksVars
--------------------------------------------------------------------------------
(***************************************************************************)
(* Properties.                                                             *)
(***************************************************************************)

\* A Discord account is on one pending signup or one member, not on two, unless
\* one took it while the other had found it free.
OneHolder == \A d \in Discord \ crossed :
               Cardinality(LinkedTo(d)) + Cardinality(PendingOn(d)) <= 1

\* The two records agree: a row of account stands for the Discord account its
\* member shows, except while its hook runs.  Else the profile page offers to
\* link what the library holds for linked, and nothing can be unlinked.  They may
\* come apart when a second Discord account is linked or a hook does not end, and
\* agree again from the next unlinking on.
AccountsAgree ==
  \A p \in Person \ parted, d \in Discord \ crossed :
    <<p, d>> \in accounts => linked[p] = d \/ linking[p] # Nobody
--------------------------------------------------------------------------------
(***************************************************************************)
(* The inductive invariant behind the properties, part by part.            *)
(***************************************************************************)

\* The variables stay in their domains.
LinksTypeOK ==
  LET Holding == [Person -> Discord \cup {Nobody}]
  IN /\ cookie \in Holding /\ applying \in Holding
     /\ linked \in Holding /\ login \in Holding
     /\ signup \in [Person -> Rows]
     /\ linking \in [Person -> Hooks \cup {Nobody}]
     /\ member \cup parted \subseteq Person /\ crossed \subseteq Discord
     /\ accounts \subseteq Person \X Discord

\* The way of a person: a signup, its first login, and what a member has.
Stages ==
  \A p \in Person :
    /\ applying[p] # Nobody => signup[p].status = "none"
    /\ login[p] # Nobody => signup[p].status = "approved" /\ p \notin member
    /\ p \in member => signup[p].status = "approved"
    /\ p \notin member => /\ linked[p] = Nobody /\ linking[p] = Nobody
                          /\ \A d \in Discord : <<p, d>> \notin accounts

\* What the unique indexes keep apart, and what only the checks do.
HeldApart ==
  \A d \in Discord :
    /\ \A p, q \in LinkedTo(d) : p = q
    /\ \A p, q \in PendingOn(d) : p = q
    /\ d \notin crossed => LinkedTo(d) = {} \/ PendingOn(d) = {}

\* What was found free is free until somebody crosses it.
ChecksHold == \A d \in Discord \ crossed : \A p \in Checked(d) : ~Taken(d, p)

\* While the hook of a row runs, its member has no other.
HookedAlone ==
  \A p \in Person \ parted, d \in Discord :
    <<p, d>> \in accounts /\ linking[p] # Nobody => linking[p].discord = d

LinksInv == LinksTypeOK /\ Stages /\ HeldApart /\ ChecksHold /\ HookedAlone
              /\ AccountsAgree
================================================================================
