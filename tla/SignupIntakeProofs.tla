--------------------------- MODULE SignupIntakeProofs --------------------------
(***************************************************************************)
(* Proofs about the two halves of a signup, DiscordLinks and SignupForms,  *)
(* for any people, Discord accounts, officers and forms.                   *)
(***************************************************************************)
EXTENDS SignupForms, DiscordLinks, FiniteSetTheorems, SequenceTheorems,
        WellFoundedInduction, TLAPS

(***************************************************************************)
(* DiscordLinks: the variables stay in their domains.                      *)
(***************************************************************************)

LEMMA LinksTypedStart == LinksInit => LinksTypeOK
<1>1. NoSignup \in Rows
  BY DEF NoSignup, Rows
<1> QED
  BY <1>1 DEF LinksInit, LinksTypeOK

LEMMA LinksTypedStep == LinksTypeOK /\ [LinksNext]_linksVars => LinksTypeOK'
<1> SUFFICES ASSUME LinksTypeOK, [LinksNext]_linksVars PROVE LinksTypeOK'
  OBVIOUS
<1>1. ASSUME NEW p \in Person, NEW d \in Discord, DiscordCallback(p, d)
      PROVE  LinksTypeOK'
  BY <1>1 DEF DiscordCallback, LinksTypeOK
<1>2. ASSUME NEW p \in Person, NEW d \in Discord, LinkSocial(p, d)
      PROVE  LinksTypeOK'
  <2>1. [discord |-> d, free |-> FALSE] \in Hooks
    BY DEF Hooks
  <2>2. linking' \in [Person -> Hooks \cup {Nobody}]
    BY <1>2, <2>1 DEF LinkSocial, LinksTypeOK
  <2>3. accounts' \subseteq Person \X Discord /\ parted' \subseteq Person
    BY <1>2 DEF LinkSocial, LinksTypeOK
  <2> QED
    BY <1>2, <2>2, <2>3 DEF LinkSocial, LinksTypeOK
<1>3. ASSUME NEW p \in Person, ClearSignupDiscord(p) PROVE LinksTypeOK'
  BY <1>3 DEF ClearSignupDiscord, LinksTypeOK
<1>4. ASSUME NEW p \in Person, BeginSignup(p) PROVE LinksTypeOK'
  <2>1. \A d \in Verified(p) : d \in Discord \cup {Nobody}
    BY DEF Verified, LinksTypeOK
  <2> QED
    BY <1>4, <2>1 DEF BeginSignup, LinksTypeOK
<1>5. ASSUME NEW p \in Person, EndSignup(p) PROVE LinksTypeOK'
  <2>1. applying[p] \in Discord
    BY <1>5 DEF EndSignup, LinksTypeOK
  <2>2. Row("pending", applying[p]) \in Rows
    BY <2>1 DEF Row, Rows
  <2>3. /\ signup' \in [Person -> Rows]
        /\ cookie' \in [Person -> Discord \cup {Nobody}]
        /\ crossed' \subseteq Discord
    BY <1>5, <2>1, <2>2 DEF EndSignup, Crosses, LinksTypeOK
  <2>4. applying' \in [Person -> Discord \cup {Nobody}]
    BY <1>5 DEF EndSignup, LinksTypeOK
  <2> QED
    BY <1>5, <2>3, <2>4 DEF EndSignup, LinksTypeOK
<1>6. ASSUME NEW p \in Person, SignUpWithout(p) PROVE LinksTypeOK'
  <2>1. Row("pending", Nobody) \in Rows
    BY DEF Row, Rows
  <2> QED
    BY <1>6, <2>1 DEF SignUpWithout, LinksTypeOK
<1>7. ASSUME NEW p \in Person, DecideSignup(p) PROVE LinksTypeOK'
  <2>1. signup \in [Person -> Rows] /\ signup[p] \in Rows
    BY DEF LinksTypeOK
  <2>2. NoSignup \in Rows /\ [signup[p] EXCEPT !.status = "approved"] \in Rows
    BY <2>1 DEF NoSignup, Rows
  <2>3. signup' \in [Person -> Rows]
    BY <1>7, <2>1, <2>2 DEF DecideSignup
  <2>4. UNCHANGED <<cookie, applying, member, linked, accounts, login, linking,
                    crossed, parted>>
    BY <1>7 DEF DecideSignup
  <2> QED
    BY <2>3, <2>4 DEF LinksTypeOK
<1>8. ASSUME NEW p \in Person, BeginLogin(p) PROVE LinksTypeOK'
  <2>1. signup[p].discord \in Discord \cup {Nobody}
    BY DEF LinksTypeOK, Rows
  <2> QED
    BY <1>8, <2>1 DEF BeginLogin, LinksTypeOK
<1>9. ASSUME NEW p \in Person, EndLogin(p) PROVE LinksTypeOK'
  <2>1. login[p] \in Discord
    BY <1>9 DEF EndLogin, LinksTypeOK
  <2>2. accounts' \subseteq accounts \cup {<<p, login[p]>>}
    BY <1>9 DEF EndLogin, WithAccount
  <2>3. accounts' \subseteq Person \X Discord
    BY <2>1, <2>2 DEF LinksTypeOK
  <2>4. crossed' \subseteq Discord
    BY <1>9, <2>1 DEF EndLogin, Crosses, LinksTypeOK
  <2> QED
    BY <1>9, <2>1, <2>3, <2>4 DEF EndLogin, LinksTypeOK
<1>10. ASSUME NEW p \in Person, AfterCreate(p) PROVE LinksTypeOK'
  <2>1. linking[p] \in Hooks
    BY <1>10 DEF AfterCreate, LinksTypeOK
  <2>2. [linking[p] EXCEPT !.free = TRUE] \in Hooks
    BY <2>1 DEF Hooks
  <2>3. linking' \in [Person -> Hooks \cup {Nobody}]
    BY <1>10, <2>2 DEF AfterCreate, LinksTypeOK
  <2>4. linked' \in [Person -> Discord \cup {Nobody}] /\ accounts' \subseteq Person \X Discord
    BY <1>10 DEF AfterCreate, Refused, LinksTypeOK
  <2> QED
    BY <1>10, <2>3, <2>4 DEF AfterCreate, LinksTypeOK
<1>11. ASSUME NEW p \in Person, EndLinking(p) PROVE LinksTypeOK'
  <2>1. linking[p].discord \in Discord
    BY <1>11 DEF EndLinking, Hooks, LinksTypeOK
  <2>2. linked' \in [Person -> Discord \cup {Nobody}] /\ crossed' \subseteq Discord
    BY <1>11, <2>1 DEF EndLinking, Crosses, LinksTypeOK
  <2> QED
    BY <1>11, <2>2 DEF EndLinking, LinksTypeOK
<1>12. ASSUME NEW p \in Person, UnlinkDiscord(p) PROVE LinksTypeOK'
  <2>1. accounts' \subseteq Person \X Discord
    BY <1>12 DEF UnlinkDiscord, WithoutAccounts, LinksTypeOK
  <2> QED
    BY <1>12, <2>1 DEF UnlinkDiscord, LinksTypeOK
<1>13. ASSUME NEW p \in Person, BreakLinking(p) PROVE LinksTypeOK'
  <2>1. accounts' \subseteq Person \X Discord /\ parted' \subseteq Person
    BY <1>13 DEF BreakLinking, LinksTypeOK
  <2> QED
    BY <1>13, <2>1 DEF BreakLinking, LinksTypeOK
<1>14. CASE UNCHANGED linksVars
  BY <1>14 DEF linksVars, LinksTypeOK
<1> QED
  BY <1>1, <1>2, <1>3, <1>4, <1>5, <1>6, <1>7, <1>8, <1>9, <1>10, <1>11, <1>12, <1>13, <1>14
     DEF LinksNext, Authorised
--------------------------------------------------------------------------------
(***************************************************************************)
(* DiscordLinks: stages.                                                   *)
(***************************************************************************)

LEMMA StagesStart == LinksInit => Stages
BY DEF LinksInit, Stages, NoSignup

LEMMA StagesStep == LinksTypeOK /\ Stages /\ [LinksNext]_linksVars => Stages'
<1> SUFFICES ASSUME LinksTypeOK, Stages, [LinksNext]_linksVars PROVE Stages'
  OBVIOUS
<1>1. CASE UNCHANGED <<applying, signup, member, linked, accounts, login, linking>>
  BY <1>1 DEF Stages
<1>2. ASSUME NEW p \in Person, NEW d \in Discord, LinkSocial(p, d) PROVE Stages'
  BY <1>2 DEF LinkSocial, Stages, LinksTypeOK
<1>3. ASSUME NEW p \in Person, BeginSignup(p) PROVE Stages'
  BY <1>3 DEF BeginSignup, Stages, LinksTypeOK
<1>4. ASSUME NEW p \in Person, EndSignup(p) PROVE Stages'
  <2>1. /\ signup[p].status = "none" /\ applying'[p] = Nobody
        /\ \A q \in Person \ {p} : applying'[q] = applying[q] /\ signup'[q] = signup[q]
        /\ UNCHANGED <<member, linked, accounts, login, linking>>
    BY <1>4 DEF EndSignup, Stages, LinksTypeOK
  <2> QED
    BY <2>1 DEF Stages
<1>5. ASSUME NEW p \in Person, SignUpWithout(p) PROVE Stages'
  BY <1>5 DEF SignUpWithout, Stages, LinksTypeOK
<1>6. ASSUME NEW p \in Person, DecideSignup(p) PROVE Stages'
  <2>1. /\ signup[p].status = "pending"
        /\ \A q \in Person \ {p} : signup'[q] = signup[q]
        /\ UNCHANGED <<applying, member, linked, accounts, login, linking>>
    BY <1>6 DEF DecideSignup, LinksTypeOK
  <2> QED
    BY <2>1 DEF Stages
<1>7. ASSUME NEW p \in Person, BeginLogin(p) PROVE Stages'
  <2>1. CASE login' = login
    BY <1>7, <2>1 DEF BeginLogin, Stages, LinksTypeOK
  <2>2. CASE member' = member
    BY <1>7, <2>2 DEF BeginLogin, Stages, LinksTypeOK
  <2> QED
    BY <1>7, <2>1, <2>2 DEF BeginLogin
<1>8. ASSUME NEW p \in Person, EndLogin(p) PROVE Stages'
  <2>1. /\ login[p] # Nobody /\ login'[p] = Nobody /\ member' = member \cup {p}
        /\ \A q \in Person \ {p} : login'[q] = login[q] /\ linked'[q] = linked[q]
        /\ UNCHANGED <<applying, signup, linking>>
    BY <1>8 DEF EndLogin, LinksTypeOK
  <2>2. accounts' \subseteq accounts \cup {<<p, login[p]>>}
    BY <1>8 DEF EndLogin, WithAccount
  <2> QED
    BY <2>1, <2>2 DEF Stages
<1>9. ASSUME NEW p \in Person, AfterCreate(p) PROVE Stages'
  <2>1. /\ linking[p] # Nobody
        /\ \A q \in Person \ {p} : linking'[q] = linking[q] /\ linked'[q] = linked[q]
        /\ accounts' \subseteq accounts
        /\ UNCHANGED <<applying, signup, member, login>>
    BY <1>9 DEF AfterCreate, Refused, LinksTypeOK
  <2> QED
    BY <2>1 DEF Stages
<1>10. ASSUME NEW p \in Person, EndLinking(p) PROVE Stages'
  <2>1. /\ linking[p] # Nobody
        /\ \A q \in Person \ {p} : linking'[q] = linking[q] /\ linked'[q] = linked[q]
        /\ UNCHANGED <<applying, signup, member, login, accounts>>
    BY <1>10 DEF EndLinking, LinksTypeOK
  <2> QED
    BY <2>1 DEF Stages
<1>11. ASSUME NEW p \in Person, UnlinkDiscord(p) PROVE Stages'
  <2>1. /\ p \in member
        /\ \A q \in Person \ {p} : linked'[q] = linked[q]
        /\ accounts' \subseteq accounts
        /\ UNCHANGED <<applying, signup, member, login, linking>>
    BY <1>11 DEF UnlinkDiscord, WithoutAccounts, LinksTypeOK
  <2> QED
    BY <2>1 DEF Stages
<1>12. ASSUME NEW p \in Person, BreakLinking(p) PROVE Stages'
  <2>1. /\ linking[p] # Nobody
        /\ \A q \in Person \ {p} : linking'[q] = linking[q]
        /\ accounts' \subseteq accounts
        /\ UNCHANGED <<applying, signup, member, linked, login>>
    BY <1>12 DEF BreakLinking, LinksTypeOK
  <2> QED
    BY <2>1 DEF Stages
<1> QED
  BY <1>1, <1>2, <1>3, <1>4, <1>5, <1>6, <1>7, <1>8, <1>9, <1>10, <1>11, <1>12
     DEF LinksNext, Authorised, linksVars, DiscordCallback, ClearSignupDiscord
--------------------------------------------------------------------------------
(***************************************************************************)
(* DiscordLinks: who holds a Discord account, and who has found it free.   *)
(***************************************************************************)

Held == HeldApart /\ ChecksHold

\* Nobody takes a Discord account in this step, and whoever finds one free is
\* right.
LEMMA NobodyTakes ==
  ASSUME Held,
         \A d \in Discord : /\ LinkedTo(d)' \subseteq LinkedTo(d)
                            /\ PendingOn(d)' \subseteq PendingOn(d)
                            /\ \A p \in Checked(d)' \ Checked(d) : ~Taken(d, p),
         crossed' = crossed
  PROVE  Held'
<1>1. HeldApart'
  BY DEF Held, HeldApart
<1>2. ASSUME NEW d \in Discord \ crossed, NEW p \in Checked(d)' PROVE ~Taken(d, p)'
  <2>1. ~Taken(d, p)
    BY <1>2 DEF Held, ChecksHold
  <2> QED
    BY <1>2, <2>1 DEF Taken
<1>3. ChecksHold'
  BY <1>2 DEF ChecksHold
<1> QED
  BY <1>1, <1>3 DEF Held

\* Somebody who has found a Discord account free takes it, for a signup or as a
\* member, and lets go of the others.
LEMMA SomebodyTakes ==
  ASSUME Held, NEW p \in Person, NEW d \in Discord, p \in Checked(d), Nobody \notin Discord,
         Crosses(d, p), crossed' \subseteq Discord,
         Checked(d)' \subseteq Checked(d) \ {p},
         \A e \in Discord \ {d} : /\ LinkedTo(e)' \subseteq LinkedTo(e)
                                  /\ PendingOn(e)' \subseteq PendingOn(e)
                                  /\ Checked(e)' \subseteq Checked(e),
         \/ /\ LinkedTo(d)' \subseteq {p}
            /\ PendingOn(d)' \subseteq PendingOn(d)
         \/ /\ PendingOn(d)' \subseteq {p}
            /\ LinkedTo(d)' \subseteq LinkedTo(d) \ {p}
  PROVE  Held'
<1>1. crossed \subseteq crossed' /\ (d \notin crossed' => Checked(d) \ {p} = {})
  BY DEF Crosses
<1>2. d \notin crossed' => LinkedTo(d) \subseteq {p} /\ PendingOn(d) = {}
  BY <1>1 DEF Held, ChecksHold, Taken
<1>3. HeldApart'
  <2> SUFFICES ASSUME NEW e \in Discord
               PROVE  /\ \A q, r \in LinkedTo(e)' : q = r
                      /\ \A q, r \in PendingOn(e)' : q = r
                      /\ e \notin crossed' => LinkedTo(e)' = {} \/ PendingOn(e)' = {}
    BY DEF HeldApart
  <2>1. CASE e = d
    BY <1>1, <1>2, <2>1 DEF Held, HeldApart
  <2>2. CASE e # d
    BY <1>1, <2>2 DEF Held, HeldApart
  <2> QED
    BY <2>1, <2>2
<1>4. ASSUME NEW e \in Discord \ crossed', NEW q \in Checked(e)' PROVE ~Taken(e, q)'
  <2>1. e # d
    BY <1>1, <1>4
  <2>2. ~Taken(e, q)
    BY <1>1, <1>4, <2>1 DEF Held, ChecksHold
  <2> QED
    BY <1>4, <2>1, <2>2 DEF Taken
<1>5. ChecksHold'
  BY <1>4 DEF ChecksHold
<1> QED
  BY <1>3, <1>5 DEF Held

LEMMA HeldStart == LinksInit => Held
<1> SUFFICES ASSUME LinksInit PROVE Held
  OBVIOUS
<1>1. Nobody \notin Discord
      /\ \A d \in Discord, free \in BOOLEAN : Nobody # [discord |-> d, free |-> free]
  BY LinksAssumption DEF Hooks
<1>2. \A p \in Person : /\ linked[p] = Nobody /\ applying[p] = Nobody
                        /\ login[p] = Nobody /\ linking[p] = Nobody
                        /\ signup[p].status = "none"
  BY DEF LinksInit, NoSignup
<1>3. \A d \in Discord : LinkedTo(d) = {} /\ PendingOn(d) = {} /\ Checked(d) = {}
  BY <1>1, <1>2 DEF LinkedTo, PendingOn, Checked
<1> QED
  BY <1>3 DEF Held, HeldApart, ChecksHold

LEMMA HeldStep ==
  LinksTypeOK /\ LinksTypeOK' /\ Stages /\ Held /\ [LinksNext]_linksVars => Held'
<1> SUFFICES ASSUME LinksTypeOK, LinksTypeOK', Stages, Held, [LinksNext]_linksVars
             PROVE  Held'
  OBVIOUS
<1>0. Nobody \notin Discord /\ Nobody \notin Person
      /\ \A d \in Discord, free \in BOOLEAN : Nobody # [discord |-> d, free |-> free]
  BY LinksAssumption DEF Hooks
<1>1. CASE UNCHANGED <<applying, signup, linked, login, linking, crossed>>
  BY <1>1, NobodyTakes DEF LinkedTo, PendingOn, Checked
<1>2. ASSUME NEW p \in Person, NEW d \in Discord, LinkSocial(p, d) PROVE Held'
  <2>1. /\ linking'[p] = [discord |-> d, free |-> FALSE]
        /\ \A q \in Person \ {p} : linking'[q] = linking[q]
        /\ UNCHANGED <<applying, signup, linked, login, crossed>>
    BY <1>2 DEF LinkSocial, LinksTypeOK
  <2>2. \A e \in Discord : LinkedTo(e)' = LinkedTo(e) /\ PendingOn(e)' = PendingOn(e)
    BY <2>1 DEF LinkedTo, PendingOn
  <2>3. \A e \in Discord : [discord |-> d, free |-> FALSE] # [discord |-> e, free |-> TRUE]
    OBVIOUS
  <2>4. \A e \in Discord : Checked(e)' \subseteq Checked(e)
    BY <2>1, <2>3 DEF Checked
  <2> QED
    BY <2>1, <2>2, <2>4, NobodyTakes
<1>3. ASSUME NEW p \in Person, BeginSignup(p) PROVE Held'
  <2>0. PICK d \in Verified(p) \ {Nobody} :
          ~Taken(d, Nobody) /\ applying' = [applying EXCEPT ![p] = d]
    BY <1>3 DEF BeginSignup
  <2>1. d \in Discord /\ ~Taken(d, Nobody) /\ applying' = [applying EXCEPT ![p] = d]
    BY <2>0 DEF Verified, LinksTypeOK
  <2>2. /\ applying'[p] = d /\ \A q \in Person \ {p} : applying'[q] = applying[q]
        /\ UNCHANGED <<signup, linked, login, linking, crossed>>
    BY <1>3, <2>1 DEF BeginSignup, LinksTypeOK
  <2>3. \A e \in Discord : LinkedTo(e)' = LinkedTo(e) /\ PendingOn(e)' = PendingOn(e)
    BY <2>2 DEF LinkedTo, PendingOn
  <2>4. LinkedTo(d) = {} /\ PendingOn(d) = {}
    BY <1>0, <2>1 DEF Taken, LinkedTo
  <2>5. \A e \in Discord \ {d} : Checked(e)' \subseteq Checked(e)
    BY <2>2 DEF Checked
  <2>6. \A q \in Person : ~Taken(d, q)
    BY <2>4 DEF Taken
  <2>7. Checked(d)' \subseteq Person
    BY DEF Checked
  <2> QED
    BY <2>2, <2>3, <2>5, <2>6, <2>7, NobodyTakes
<1>4. ASSUME NEW p \in Person, EndSignup(p) PROVE Held'
  <2>0. PICK d \in Discord : d = applying[p]
    BY <1>4 DEF EndSignup, LinksTypeOK
  <2>1. /\ applying'[p] = Nobody
        /\ \A q \in Person \ {p} : applying'[q] = applying[q]
        /\ UNCHANGED <<linked, login, linking>>
    BY <1>4 DEF EndSignup, LinksTypeOK
  <2>2. p \notin member /\ login[p] = Nobody /\ linked[p] = Nobody /\ linking[p] = Nobody
    BY <1>4 DEF EndSignup, Stages
  <2>3. \A e \in Discord : LinkedTo(e)' = LinkedTo(e) /\ p \notin LinkedTo(e)
    BY <1>0, <2>1, <2>2 DEF LinkedTo
  <2>4. \A e \in Discord : Checked(e)' \subseteq Checked(e) \ {p}
    BY <1>0, <2>1, <2>2 DEF Checked
  <2>5. CASE UNCHANGED <<signup, crossed>>
    BY <2>3, <2>4, <2>5, NobodyTakes DEF PendingOn
  <2>6. CASE /\ PendingOn(d) = {} /\ signup' = [signup EXCEPT ![p] = Row("pending", d)]
             /\ Crosses(d, p)
    <3>1. /\ signup'[p].discord = d
          /\ \A q \in Person \ {p} : signup'[q] = signup[q]
      BY <2>6 DEF Row, LinksTypeOK
    <3>2. PendingOn(d)' \subseteq {p}
          /\ \A e \in Discord \ {d} : PendingOn(e)' \subseteq PendingOn(e)
      BY <2>6, <3>1 DEF PendingOn
    <3>3. p \in Checked(d) /\ crossed' \subseteq Discord
      BY <2>0 DEF Checked, LinksTypeOK
    <3> QED
      BY <1>0, <2>1, <2>3, <2>4, <2>6, <3>2, <3>3, SomebodyTakes
  <2> QED
    BY <1>4, <2>0, <2>5, <2>6 DEF EndSignup
<1>5. ASSUME NEW p \in Person, SignUpWithout(p) PROVE Held'
  <2>1. /\ signup'[p].discord = Nobody
        /\ \A q \in Person \ {p} : signup'[q] = signup[q]
        /\ UNCHANGED <<applying, linked, login, linking, crossed>>
    BY <1>5 DEF SignUpWithout, Row, LinksTypeOK
  <2>2. \A e \in Discord : /\ LinkedTo(e)' = LinkedTo(e) /\ Checked(e)' = Checked(e)
                           /\ PendingOn(e)' \subseteq PendingOn(e)
    BY <1>0, <2>1 DEF LinkedTo, Checked, PendingOn
  <2> QED
    BY <2>1, <2>2, NobodyTakes
<1>6. ASSUME NEW p \in Person, DecideSignup(p) PROVE Held'
  <2>1. /\ signup'[p].status # "pending"
        /\ \A q \in Person \ {p} : signup'[q] = signup[q]
        /\ UNCHANGED <<applying, linked, login, linking, crossed>>
    BY <1>6 DEF DecideSignup, NoSignup, LinksTypeOK, Rows
  <2>2. \A e \in Discord : /\ LinkedTo(e)' = LinkedTo(e) /\ Checked(e)' = Checked(e)
                           /\ PendingOn(e)' \subseteq PendingOn(e)
    BY <2>1 DEF LinkedTo, Checked, PendingOn
  <2> QED
    BY <2>1, <2>2, NobodyTakes
<1>7. ASSUME NEW p \in Person, BeginLogin(p), login' = [login EXCEPT ![p] = signup[p].discord],
             ~Taken(signup[p].discord, p)
      PROVE  Held'
  <2> DEFINE d == signup[p].discord
  <2>1. /\ login'[p] = d /\ \A q \in Person \ {p} : login'[q] = login[q]
        /\ UNCHANGED <<applying, signup, linked, linking, crossed>>
    BY <1>7 DEF BeginLogin, LinksTypeOK
  <2>2. \A e \in Discord : LinkedTo(e)' = LinkedTo(e) /\ PendingOn(e)' = PendingOn(e)
    BY <2>1 DEF LinkedTo, PendingOn
  <2>3. \A e \in Discord : \A q \in Checked(e)' \ Checked(e) : q = p /\ e = d
    BY <2>1 DEF Checked
  <2> QED
    BY <1>7, <2>1, <2>2, <2>3, NobodyTakes
<1>8. ASSUME NEW p \in Person, EndLogin(p) PROVE Held'
  <2>0. PICK d \in Discord : d = login[p]
    BY <1>8 DEF EndLogin, LinksTypeOK
  <2>1. /\ login'[p] = Nobody
        /\ \A q \in Person \ {p} : login'[q] = login[q]
        /\ UNCHANGED <<applying, signup, linking>>
    BY <1>8 DEF EndLogin, LinksTypeOK
  <2>2. applying[p] = Nobody /\ linked[p] = Nobody /\ linking[p] = Nobody
    BY <1>8 DEF EndLogin, Stages
  <2>3. \A e \in Discord : PendingOn(e)' = PendingOn(e)
    BY <2>1 DEF PendingOn
  <2>4. \A e \in Discord : Checked(e)' \subseteq Checked(e) \ {p}
    BY <1>0, <2>1, <2>2 DEF Checked
  <2>5. CASE UNCHANGED <<linked, crossed>>
    BY <2>3, <2>4, <2>5, NobodyTakes DEF LinkedTo
  <2>6. CASE /\ LinkedTo(d) = {} /\ linked' = [linked EXCEPT ![p] = d]
             /\ Crosses(d, p)
    <3>1. linked'[p] = d /\ \A q \in Person \ {p} : linked'[q] = linked[q]
      BY <2>6 DEF LinksTypeOK
    <3>2. LinkedTo(d)' \subseteq {p}
          /\ \A e \in Discord \ {d} : LinkedTo(e)' \subseteq LinkedTo(e)
      BY <2>6, <3>1 DEF LinkedTo
    <3>3. p \in Checked(d) /\ crossed' \subseteq Discord
      BY <2>0 DEF Checked, LinksTypeOK
    <3> QED
      BY <1>0, <2>1, <2>3, <2>4, <2>6, <3>2, <3>3, SomebodyTakes
  <2> QED
    BY <1>8, <2>0, <2>5, <2>6 DEF EndLogin
<1>9. ASSUME NEW p \in Person, AfterCreate(p) PROVE Held'
  <2> DEFINE d == linking[p].discord
  <2>1. /\ linking[p] \in Hooks /\ d \in Discord /\ ~linking[p].free
        /\ UNCHANGED <<applying, signup, login, crossed>>
    BY <1>9 DEF AfterCreate, Hooks, LinksTypeOK
  <2>2. \A e \in Discord : PendingOn(e)' = PendingOn(e)
    BY <2>1 DEF PendingOn
  <2>3. CASE Taken(d, p)
    <3>1. /\ linking'[p] = Nobody /\ \A q \in Person \ {p} : linking'[q] = linking[q]
          /\ linked'[p] = Nobody /\ \A q \in Person \ {p} : linked'[q] = linked[q]
      BY <1>9, <2>3 DEF AfterCreate, Refused, LinksTypeOK
    <3>2. \A e \in Discord : LinkedTo(e)' \subseteq LinkedTo(e)
                             /\ Checked(e)' \subseteq Checked(e)
      BY <1>0, <2>1, <3>1 DEF LinkedTo, Checked
    <3> QED
      BY <2>1, <2>2, <3>2, NobodyTakes
  <2>4. CASE ~Taken(d, p)
    <3>1. /\ linking' = [linking EXCEPT ![p].free = TRUE] /\ linked' = linked
      BY <1>9, <2>4 DEF AfterCreate
    <3>2. linking'[p].discord = d /\ \A q \in Person \ {p} : linking'[q] = linking[q]
      BY <2>1, <3>1 DEF Hooks, LinksTypeOK
    <3>3. \A e \in Discord : LinkedTo(e)' = LinkedTo(e)
      BY <3>1 DEF LinkedTo
    <3>4. \A e \in Discord : \A q \in Checked(e)' \ Checked(e) : q = p /\ e = d
      BY <2>1, <3>2 DEF Checked
    <3> QED
      BY <2>1, <2>2, <2>4, <3>3, <3>4, NobodyTakes
  <2> QED
    BY <2>3, <2>4
<1>10. ASSUME NEW p \in Person, EndLinking(p) PROVE Held'
  <2>0. PICK d \in Discord : d = linking[p].discord
    BY <1>10 DEF EndLinking, Hooks, LinksTypeOK
  <2>1. /\ linking[p] \in Hooks /\ linking[p].free
        /\ linking'[p] = Nobody /\ \A q \in Person \ {p} : linking'[q] = linking[q]
        /\ UNCHANGED <<applying, signup, login>>
    BY <1>10 DEF EndLinking, Hooks, LinksTypeOK
  <2>2. applying[p] = Nobody /\ login[p] = Nobody
    BY <1>10 DEF EndLinking, Stages
  <2>3. \A e \in Discord : PendingOn(e)' = PendingOn(e)
    BY <2>1 DEF PendingOn
  <2>4. \A e \in Discord : Checked(e)' \subseteq Checked(e) \ {p}
    BY <1>0, <2>1, <2>2 DEF Checked
  <2>5. CASE UNCHANGED <<linked, crossed>>
    BY <2>3, <2>4, <2>5, NobodyTakes DEF LinkedTo
  <2>6. CASE /\ LinkedTo(d) \ {p} = {} /\ linked' = [linked EXCEPT ![p] = d]
             /\ Crosses(d, p)
    <3>1. linked'[p] = d /\ \A q \in Person \ {p} : linked'[q] = linked[q]
      BY <2>6 DEF LinksTypeOK
    <3>2. LinkedTo(d)' \subseteq {p}
          /\ \A e \in Discord \ {d} : LinkedTo(e)' \subseteq LinkedTo(e)
      BY <2>6, <3>1 DEF LinkedTo
    <3>3. linking[p] = [discord |-> d, free |-> TRUE]
      BY <2>0, <2>1 DEF Hooks
    <3>4. p \in Checked(d) /\ crossed' \subseteq Discord
      BY <3>3 DEF Checked, LinksTypeOK
    <3> QED
      BY <1>0, <2>1, <2>3, <2>4, <2>6, <3>2, <3>4, SomebodyTakes
  <2> QED
    BY <1>10, <2>0, <2>5, <2>6 DEF EndLinking
<1>11. ASSUME NEW p \in Person, UnlinkDiscord(p) PROVE Held'
  <2>1. /\ linked'[p] = Nobody /\ \A q \in Person \ {p} : linked'[q] = linked[q]
        /\ UNCHANGED <<applying, signup, login, linking, crossed>>
    BY <1>11 DEF UnlinkDiscord, LinksTypeOK
  <2>2. \A e \in Discord : /\ LinkedTo(e)' \subseteq LinkedTo(e) /\ Checked(e)' = Checked(e)
                           /\ PendingOn(e)' = PendingOn(e)
    BY <1>0, <2>1 DEF LinkedTo, Checked, PendingOn
  <2> QED
    BY <2>1, <2>2, NobodyTakes
<1>12. ASSUME NEW p \in Person, BreakLinking(p) PROVE Held'
  <2>1. /\ linking'[p] = Nobody /\ \A q \in Person \ {p} : linking'[q] = linking[q]
        /\ UNCHANGED <<applying, signup, login, linked, crossed>>
    BY <1>12 DEF BreakLinking, LinksTypeOK
  <2>2. \A e \in Discord : /\ LinkedTo(e)' = LinkedTo(e) /\ PendingOn(e)' = PendingOn(e)
                           /\ Checked(e)' \subseteq Checked(e)
    BY <1>0, <2>1 DEF LinkedTo, Checked, PendingOn
  <2> QED
    BY <2>1, <2>2, NobodyTakes
<1> QED
  BY <1>1, <1>2, <1>3, <1>4, <1>5, <1>6, <1>7, <1>8, <1>9, <1>10, <1>11, <1>12
     DEF LinksNext, Authorised, linksVars, DiscordCallback, ClearSignupDiscord, BeginLogin
--------------------------------------------------------------------------------
(***************************************************************************)
(* DiscordLinks: the two records of what a member holds.                   *)
(***************************************************************************)

Agree == HookedAlone /\ AccountsAgree

LEMMA AgreeStart == LinksInit => Agree
BY DEF LinksInit, Agree, HookedAlone, AccountsAgree

LEMMA AgreeStep ==
  LinksTypeOK /\ LinksTypeOK' /\ Stages /\ Held /\ Agree /\ [LinksNext]_linksVars
    => Agree'
<1> SUFFICES ASSUME LinksTypeOK, LinksTypeOK', Stages, Held, Agree,
                    [LinksNext]_linksVars
             PROVE  Agree'
  OBVIOUS
<1>1. CASE UNCHANGED <<linked, accounts, linking, parted>> /\ crossed \subseteq crossed'
  BY <1>1 DEF Agree, HookedAlone, AccountsAgree
<1>2. ASSUME NEW p \in Person, EndSignup(p)
      PROVE  UNCHANGED <<linked, accounts, linking, parted>> /\ crossed \subseteq crossed'
  BY <1>2 DEF EndSignup, Crosses
<1>3. ASSUME NEW p \in Person, NEW d \in Discord, LinkSocial(p, d) PROVE Agree'
  <2>1. /\ linking'[p] = [discord |-> d, free |-> FALSE] /\ linking'[p] # Nobody
        /\ \A q \in Person \ {p} : linking'[q] = linking[q]
        /\ UNCHANGED <<linked, crossed>>
    <3>1. [discord |-> d, free |-> FALSE] \in Hooks
      BY DEF Hooks
    <3> QED
      BY <1>3, <3>1, LinksAssumption DEF LinkSocial, LinksTypeOK
  <2>2. accounts' = accounts \cup {<<p, d>>} /\ parted \subseteq parted'
    BY <1>3 DEF LinkSocial
  <2>3. p \notin parted' => \A e \in Discord : <<p, e>> \notin accounts
    BY <1>3 DEF LinkSocial
  <2>4. \A q \in Person \ {p}, e \in Discord : <<q, e>> \in accounts' <=> <<q, e>> \in accounts
    BY <2>2
  <2>5. p \notin parted' => \A e \in Discord : <<p, e>> \in accounts' => e = d
    BY <2>2, <2>3
  <2> QED
    BY <2>1, <2>2, <2>4, <2>5 DEF Agree, HookedAlone, AccountsAgree
<1>4. ASSUME NEW p \in Person, EndLogin(p) PROVE Agree'
  <2>1. /\ linking[p] = Nobody /\ \A e \in Discord : <<p, e>> \notin accounts
        /\ UNCHANGED <<linking, parted>> /\ crossed \subseteq crossed'
    BY <1>4 DEF EndLogin, Stages, Crosses
  <2>2. CASE UNCHANGED <<linked, accounts>>
    BY <2>1, <2>2 DEF Agree, HookedAlone, AccountsAgree
  <2>3. CASE linked' = [linked EXCEPT ![p] = login[p]] /\ accounts' = WithAccount(p, login[p])
    <3>1. linked'[p] = login[p] /\ \A q \in Person \ {p} : linked'[q] = linked[q]
      BY <2>3 DEF LinksTypeOK
    <3>2. accounts' \subseteq accounts \cup {<<p, login[p]>>}
      BY <2>3 DEF WithAccount
    <3>3. \A e \in Discord : <<p, e>> \in accounts' => e = login[p]
      BY <2>1, <3>2
    <3>4. \A q \in Person \ {p}, e \in Discord : <<q, e>> \in accounts' => <<q, e>> \in accounts
      BY <3>2
    <3> QED
      BY <2>1, <3>1, <3>3, <3>4 DEF Agree, HookedAlone, AccountsAgree
  <2> QED
    BY <1>4, <2>2, <2>3 DEF EndLogin
<1>5. ASSUME NEW p \in Person, AfterCreate(p) PROVE Agree'
  <2>0. PICK d \in Discord : d = linking[p].discord
    BY <1>5 DEF AfterCreate, Hooks, LinksTypeOK
  <2>1. linking[p] \in Hooks /\ linking[p] # Nobody /\ UNCHANGED <<crossed, parted>>
    BY <1>5 DEF AfterCreate, LinksTypeOK
  <2>2. CASE Taken(d, p)
    <3>1. /\ \A q \in Person \ {p} : linking'[q] = linking[q] /\ linked'[q] = linked[q]
          /\ linking'[p] = Nobody
          /\ accounts' = accounts \ {<<p, d>>}
      BY <1>5, <2>0, <2>2 DEF AfterCreate, Refused, LinksTypeOK
    <3>2. p \notin parted => \A e \in Discord : <<p, e>> \notin accounts'
      BY <2>0, <2>1, <3>1 DEF Agree, HookedAlone
    <3>3. \A q \in Person \ {p}, e \in Discord : <<q, e>> \in accounts' => <<q, e>> \in accounts
      BY <3>1
    <3> QED
      BY <2>1, <3>1, <3>2, <3>3 DEF Agree, HookedAlone, AccountsAgree
  <2>3. CASE ~Taken(d, p)
    <3>1. /\ linking' = [linking EXCEPT ![p].free = TRUE] /\ UNCHANGED <<linked, accounts>>
      BY <1>5, <2>0, <2>3 DEF AfterCreate
    <3>2. /\ linking'[p].discord = d /\ linking'[p] \in Hooks
          /\ \A q \in Person \ {p} : linking'[q] = linking[q]
      BY <2>0, <2>1, <3>1 DEF Hooks, LinksTypeOK
    <3>3. linking[p].discord = d /\ linking'[p] # Nobody
      BY <2>0, <3>2, LinksAssumption
    <3> QED
      BY <2>1, <3>1, <3>2, <3>3 DEF Agree, HookedAlone, AccountsAgree
  <2> QED
    BY <2>2, <2>3
<1>6. ASSUME NEW p \in Person, EndLinking(p) PROVE Agree'
  <2>0. PICK d \in Discord : d = linking[p].discord
    BY <1>6 DEF EndLinking, Hooks, LinksTypeOK
  <2>1. /\ linking[p] \in Hooks /\ linking[p] # Nobody /\ linking[p].free
        /\ linking'[p] = Nobody /\ \A q \in Person \ {p} : linking'[q] = linking[q]
        /\ UNCHANGED <<accounts, parted>>
    BY <1>6 DEF EndLinking, LinksTypeOK
  <2>2. p \notin parted => \A e \in Discord : <<p, e>> \in accounts => e = d
    BY <2>0, <2>1 DEF Agree, HookedAlone
  <2>3. CASE LinkedTo(d) \ {p} # {} /\ UNCHANGED <<linked, crossed>>
    <3>1. linking[p] = [discord |-> d, free |-> TRUE]
      BY <2>0, <2>1 DEF Hooks
    <3>2. p \in Checked(d)
      BY <3>1 DEF Checked
    <3>3. d \in crossed
      BY <2>3, <3>2 DEF Held, ChecksHold, Taken
    <3> QED
      BY <2>1, <2>2, <2>3, <3>3 DEF Agree, HookedAlone, AccountsAgree
  <2>4. CASE linked' = [linked EXCEPT ![p] = d] /\ Crosses(d, p)
    <3>1. /\ linked'[p] = d /\ \A q \in Person \ {p} : linked'[q] = linked[q]
          /\ crossed \subseteq crossed'
      BY <2>4 DEF Crosses, LinksTypeOK
    <3> QED
      BY <2>1, <2>2, <3>1 DEF Agree, HookedAlone, AccountsAgree
  <2> QED
    BY <1>6, <2>0, <2>3, <2>4 DEF EndLinking
<1>7. ASSUME NEW p \in Person, UnlinkDiscord(p) PROVE Agree'
  <2>1. /\ \A q \in Person \ {p} : linked'[q] = linked[q]
        /\ UNCHANGED <<linking, crossed>> /\ parted \ {p} \subseteq parted'
    BY <1>7 DEF UnlinkDiscord, LinksTypeOK
  <2>2. /\ accounts' \subseteq accounts
        /\ \A d \in Discord : <<p, d>> \notin accounts'
    BY <1>7 DEF UnlinkDiscord, WithoutAccounts
  <2> QED
    BY <2>1, <2>2 DEF Agree, HookedAlone, AccountsAgree
<1>8. ASSUME NEW p \in Person, BreakLinking(p) PROVE Agree'
  <2>1. /\ UNCHANGED <<linked, crossed>> /\ parted' = parted \cup {p}
        /\ \A q \in Person \ {p} : linking'[q] = linking[q]
        /\ accounts' \subseteq accounts
    BY <1>8 DEF BreakLinking, LinksTypeOK
  <2> QED
    BY <2>1 DEF Agree, HookedAlone, AccountsAgree
<1> QED
  BY <1>1, <1>2, <1>3, <1>4, <1>5, <1>6, <1>7, <1>8
     DEF LinksNext, Authorised, linksVars, DiscordCallback, ClearSignupDiscord,
         BeginSignup, SignUpWithout, DecideSignup, BeginLogin
--------------------------------------------------------------------------------
(***************************************************************************)
(* DiscordLinks: the theorems.                                             *)
(***************************************************************************)

\* The portal's records of Discord accounts stay in their domains.
THEOREM LinksTyped == LinksSpec => []LinksTypeOK
<1>1. LinksInit => LinksTypeOK
  BY LinksTypedStart
<1>2. LinksTypeOK /\ [LinksNext]_linksVars => LinksTypeOK'
  BY LinksTypedStep
<1> QED
  BY <1>1, <1>2, PTL DEF LinksSpec

\* The invariant: the indexes keep apart what they can, and who has found a
\* Discord account free still does unless it is crossed.
THEOREM LinksInvariant == LinksSpec => []LinksInv
<1>1. LinksInit => LinksInv
  BY LinksTypedStart, StagesStart, HeldStart, AgreeStart DEF LinksInv, Held, Agree
<1>2. LinksInv /\ [LinksNext]_linksVars => LinksInv'
  <2>1. LinksInv /\ [LinksNext]_linksVars => LinksTypeOK' /\ Stages'
    BY LinksTypedStep, StagesStep DEF LinksInv
  <2>2. LinksInv /\ [LinksNext]_linksVars => Held'
    BY <2>1, HeldStep DEF LinksInv, Held
  <2>3. LinksInv /\ [LinksNext]_linksVars => Agree'
    BY <2>1, AgreeStep DEF LinksInv, Held, Agree
  <2> QED
    BY <2>1, <2>2, <2>3 DEF LinksInv, Held, Agree
<1> QED
  BY <1>1, <1>2, PTL DEF LinksSpec

\* A set whose members are all equal has one or none.
LEMMA AtMostOne ==
  ASSUME NEW S, \A x, y \in S : x = y
  PROVE  /\ S = {} => Cardinality(S) = 0
         /\ S # {} => Cardinality(S) = 1
<1>1. ASSUME S # {} PROVE Cardinality(S) = 1
  <2>1. PICK x \in S : S = {x}
    BY <1>1
  <2> QED
    BY <2>1, FS_Singleton
<1> QED
  BY <1>1, FS_EmptySet

\* A Discord account is on one pending signup or one member unless somebody took
\* it while another had found it free.
THEOREM OneHolderEach == LinksSpec => []OneHolder
<1>1. LinksInv => OneHolder
  <2> SUFFICES ASSUME LinksInv, NEW d \in Discord \ crossed
               PROVE  Cardinality(LinkedTo(d)) + Cardinality(PendingOn(d)) <= 1
    BY DEF OneHolder
  <2>1. /\ \A p, q \in LinkedTo(d) : p = q
        /\ \A p, q \in PendingOn(d) : p = q
        /\ LinkedTo(d) = {} \/ PendingOn(d) = {}
    BY DEF LinksInv, HeldApart
  <2>2. /\ LinkedTo(d) = {} => Cardinality(LinkedTo(d)) = 0
        /\ LinkedTo(d) # {} => Cardinality(LinkedTo(d)) = 1
        /\ PendingOn(d) = {} => Cardinality(PendingOn(d)) = 0
        /\ PendingOn(d) # {} => Cardinality(PendingOn(d)) = 1
    BY <2>1, AtMostOne
  <2> QED
    BY <2>1, <2>2
<1> QED
  BY <1>1, LinksInvariant, PTL

\* A row of account stands for the Discord account its member shows, except while
\* its hook runs.
THEOREM RecordsAgree == LinksSpec => []AccountsAgree
<1>1. LinksInv => AccountsAgree
  BY DEF LinksInv
<1> QED
  BY <1>1, LinksInvariant, PTL
--------------------------------------------------------------------------------
(***************************************************************************)
(* SignupForms: numbers of versions, and answers that fit.                 *)
(***************************************************************************)

\* The order of numbers, as a set of pairs: every set of numbers has a first.
Below == {pair \in Nat \X Nat : pair[1] < pair[2]}

LEMMA BelowIsWellFounded == IsWellFoundedOn(Below, Nat)
<1>1. IsWellFoundedOn(OpToRel(<, Nat), Nat)
  BY NatLessThanWellFounded
<1>2. OpToRel(<, Nat) = Below
  BY DEF OpToRel, Below
<1> QED
  BY <1>1, <1>2

\* A set of versions that is not empty has a latest one.
LEMMA LatestVersion ==
  ASSUME NEW n \in Nat, NEW S, S \subseteq 1 .. n, S # {}
  PROVE  Max(S) \in S /\ \A v \in S : Max(S) >= v
<1> DEFINE T == {k \in Nat : n - k \in S}
<1>1. \A v \in S : v \in 1 .. n
  OBVIOUS
<1>2. T \subseteq Nat /\ T # {}
  <2>1. PICK v \in S : TRUE
    OBVIOUS
  <2>2. n - v \in Nat /\ n - (n - v) = v
    BY <1>1, <2>1
  <2> QED
    BY <2>2
<1>3. PICK t \in T : \A u \in T : <<u, t>> \notin Below
  BY <1>2, BelowIsWellFounded, WFMin
<1>4. n - t \in S
  OBVIOUS
<1>5. ASSUME NEW v \in S PROVE n - t >= v
  <2>1. n - v \in Nat /\ n - (n - v) = v /\ v \in Nat /\ t \in Nat
    BY <1>1
  <2>2. n - v \in T
    BY <2>1
  <2>3. ~(n - v < t)
    BY <1>3, <2>1, <2>2 DEF Below
  <2> QED
    BY <2>1, <2>3
<1> QED
  BY <1>4, <1>5 DEF Max

LEMMA KeysAreNumbers ==
  ASSUME NEW fields \in Seq(Field)
  PROVE  Keys(fields) \subseteq Nat
<1>1. \A i \in DOMAIN fields : fields[i] \in Field
  BY LenProperties, ElementOfSeq
<1> QED
  BY <1>1 DEF Keys, Field

\* Answers, of which some may be absent.
Answers(answers) == DOMAIN answers \subseteq Nat /\ answers \in [DOMAIN answers -> Answer]

\* What is dropped was not asked: the answers that are left fit as well.
LEMMA AnsweredFits ==
  ASSUME NEW fields \in Seq(Field), NEW posted, posted \in [DOMAIN posted -> Answer],
         Fits(fields, posted)
  PROVE  Answers(Answered(fields, posted)) /\ Fits(fields, Answered(fields, posted))
<1> DEFINE kept == Answered(fields, posted)
<1>1. /\ DOMAIN kept = Keys(fields) \cap DOMAIN posted
      /\ \A k \in DOMAIN kept : kept[k] = posted[k]
      /\ kept = [k \in DOMAIN kept |-> kept[k]]
  BY DEF Answered
<1>2. Answers(kept)
  BY <1>1, KeysAreNumbers DEF Answers
<1>3. Fits(fields, kept)
  <2> HIDE DEF kept
  <2> QED
    BY <1>1 DEF Fits
<1> QED
  BY <1>2, <1>3

\* The merge of an edit into what was stored: answers to questions that are gone.
Merged(fields, old, input) ==
  [k \in (DOMAIN old \ Keys(fields)) \cup DOMAIN input |->
     IF k \in DOMAIN input THEN input[k] ELSE old[k]]

LEMMA MergedFits ==
  ASSUME NEW fields \in Seq(Field), NEW old, Answers(old), NEW input, Answers(input),
         Fits(fields, input)
  PROVE  Answers(Merged(fields, old, input)) /\ Fits(fields, Merged(fields, old, input))
<1> DEFINE merged == Merged(fields, old, input)
<1>1. /\ DOMAIN merged = (DOMAIN old \ Keys(fields)) \cup DOMAIN input
      /\ \A k \in DOMAIN merged : merged[k] = IF k \in DOMAIN input THEN input[k] ELSE old[k]
      /\ merged = [k \in DOMAIN merged |-> merged[k]]
  BY DEF Merged
<1> HIDE DEF merged
<1>2. Answers(merged)
  <2>1. \A k \in DOMAIN merged : merged[k] \in Answer
    BY <1>1 DEF Answers
  <2>2. DOMAIN merged \subseteq Nat
    BY <1>1 DEF Answers
  <2> QED
    BY <1>1, <2>1, <2>2 DEF Answers
<1>3. Fits(fields, merged)
  <2>1. \A k \in Keys(fields) : k \in DOMAIN merged <=> k \in DOMAIN input
    BY <1>1
  <2>2. \A k \in DOMAIN input : merged[k] = input[k]
    BY <1>1
  <2> QED
    BY <2>1, <2>2 DEF Fits
<1> QED
  BY <1>2, <1>3 DEF merged

LEMMA NormalizedAnswers ==
  ASSUME NEW fields \in Seq(Field), NEW posted \in [Keys(fields) -> Answer]
  PROVE  Answers(Normalized(fields, posted))
<1> DEFINE input == Normalized(fields, posted)
<1>1. /\ DOMAIN input \subseteq Keys(fields)
      /\ \A k \in DOMAIN input : input[k] = posted[k]
      /\ input = [k \in DOMAIN input |-> input[k]]
  BY DEF Normalized
<1> HIDE DEF input
<1>2. \A k \in DOMAIN input : input[k] \in Answer
  BY <1>1
<1>3. Answers(input)
  BY <1>1, <1>2, KeysAreNumbers DEF Answers
<1> QED
  BY <1>3 DEF input

\* Filed, in any list of versions.
FiledIn(versions, row) ==
  /\ row.schema \in DOMAIN versions
  /\ Answers(row.answers)
  /\ Fits(versions[row.schema].fields, row.answers)

LEMMA FiledMeans == \A row : Filed(row) <=> FiledIn(forms, row)
BY DEF Filed, FiledIn, Answers, Version

\* A version that was saved is there for good, with its questions.
Kept(versions, later) ==
  /\ DOMAIN versions \subseteq DOMAIN later
  /\ \A v \in DOMAIN versions : later[v].fields = versions[v].fields

LEMMA KeptFiled ==
  ASSUME NEW versions, NEW later, Kept(versions, later), NEW row, FiledIn(versions, row)
  PROVE  FiledIn(later, row)
BY DEF Kept, FiledIn

LEMMA Versions ==
  ASSUME FormsTypeOK
  PROVE  /\ Len(forms) \in Nat /\ Version = 1 .. Len(forms)
         /\ \A v \in Version : forms[v] \in Entry /\ forms[v].fields \in Seq(Field)
         /\ Published \subseteq Version
<1>1. forms \in Seq(Entry) /\ Len(forms) \in Nat /\ Version = 1 .. Len(forms)
  BY LenProperties DEF FormsTypeOK, Version
<1>2. \A v \in Version : forms[v] \in Entry
  BY <1>1, ElementOfSeq
<1> QED
  BY <1>1, <1>2 DEF Entry, Published

LEMMA ServedIsThere ==
  ASSUME FormsTypeOK, PublishedIsServed
  PROVE  Served \in Version /\ forms[Served].fields \in Seq(Field)
<1>1. Published # {} /\ Published \subseteq 1 .. Len(forms) /\ Len(forms) \in Nat
  BY Versions DEF PublishedIsServed
<1>2. Served \in Published
  BY <1>1, LatestVersion DEF Served
<1> QED
  BY <1>2, Versions

LEMMA FilledAnswers ==
  ASSUME NEW posted \in Filled
  PROVE  posted \in [DOMAIN posted -> Answer]
<1>1. PICK v \in Shown : posted \in Posts(forms[v].fields)
  BY DEF Filled
<1>2. posted \in [Keys(forms[v].fields) -> Answer]
  BY <1>1 DEF Posts
<1> QED
  BY <1>2
--------------------------------------------------------------------------------
(***************************************************************************)
(* SignupForms: the steps that change the versions.                        *)
(***************************************************************************)

LEMMA DraftSaved ==
  ASSUME FormsTypeOK, SaveDraft
  PROVE  /\ forms' \in Seq(Entry) /\ Kept(forms, forms')
         /\ Version' = 1 .. Len(forms) + 1
         /\ Published' = Published
<1> DEFINE draft == [fields |-> editor, status |-> "draft"]
<1>1. draft \in Entry
  BY DEF FormsTypeOK, Entry
<1>2. /\ forms' = Append(forms, draft) /\ forms \in Seq(Entry)
  BY DEF SaveDraft, FormsTypeOK
<1>3. /\ forms' \in Seq(Entry) /\ Len(forms') = Len(forms) + 1
      /\ \A v \in 1 .. Len(forms) : forms'[v] = forms[v]
      /\ forms'[Len(forms) + 1] = draft
  BY <1>1, <1>2, AppendProperties
<1>4. Version' = 1 .. Len(forms) + 1
  BY <1>3, LenProperties DEF Version
<1>5. Len(forms) \in Nat /\ Version = 1 .. Len(forms)
  BY Versions
<1>6. Version' = Version \cup {Len(forms) + 1}
  BY <1>4, <1>5
<1>7. Kept(forms, forms')
  BY <1>3, <1>5, <1>6 DEF Kept, Version
<1>8. draft.status = "draft"
  OBVIOUS
<1> HIDE DEF draft
<1>9. \A v \in Version : forms'[v] = forms[v]
  BY <1>3, <1>5
<1>10. Published' = {v \in Version' : forms'[v].status = "published"}
  BY DEF Published
<1>11. Published' = Published
  BY <1>3, <1>6, <1>8, <1>9, <1>10 DEF Published
<1> QED
  BY <1>3, <1>4, <1>7, <1>11

LEMMA PublicationCommitted ==
  ASSUME FormsTypeOK, PublicationsKnow, NEW o \in Officer, CommitPublication(o)
  PROVE  /\ forms' \in Seq(Entry) /\ Kept(forms, forms') /\ Version' = Version
         /\ publishing[o].version \in Version
         /\ Published' = {publishing[o].version} \cup (Published \ publishing[o].found)
<1> DEFINE made == publishing[o]
           Stand(v) == [forms[v] EXCEPT !.status =
                          IF v = made.version THEN "published"
                          ELSE IF v \in Archived(made.found) THEN "archived" ELSE @]
<1>1. made.version \in Version
  BY DEF CommitPublication, PublicationsKnow
<1>2. forms' = [v \in Version |-> Stand(v)]
  BY DEF CommitPublication
<1>3. \A v \in Version :
        /\ Stand(v) \in Entry
        /\ Stand(v).fields = forms[v].fields
        /\ Stand(v).status = IF v = made.version THEN "published"
                             ELSE IF v \in Archived(made.found) THEN "archived"
                             ELSE forms[v].status
  BY Versions DEF Entry
<1> HIDE DEF Stand
<1>4. /\ DOMAIN forms' = Version
      /\ \A v \in Version : forms'[v] = Stand(v)
  BY <1>2
<1>5. forms' \in Seq(Entry)
  <2>1. forms' \in [1 .. Len(forms) -> Entry] /\ Len(forms) \in Nat
    BY <1>2, <1>3, Versions
  <2> QED
    BY <2>1, SeqDef
<1>6. Version' = Version
  BY <1>4 DEF Version
<1>7. Kept(forms, forms')
  BY <1>3, <1>4 DEF Kept, Version
<1>8. Published' = {v \in Version : Stand(v).status = "published"}
  BY <1>4, <1>6 DEF Published
<1>9. ASSUME NEW v \in Version
      PROVE  Stand(v).status = "published" <=>
               v = made.version \/ (v \in Published /\ v \notin made.found)
  BY <1>3 DEF Archived, Published
<1>10. Published' = {made.version} \cup (Published \ made.found)
  BY <1>1, <1>8, <1>9 DEF Published
<1> QED
  BY <1>1, <1>5, <1>6, <1>7, <1>10
--------------------------------------------------------------------------------
(***************************************************************************)
(* SignupForms: the variables stay in their domains.                       *)
(***************************************************************************)

LEMMA FormsStart == FormsInit => FormsTypeOK /\ PublicationsKnow /\ PublishedIsServed
<1> SUFFICES ASSUME FormsInit PROVE FormsTypeOK /\ PublicationsKnow /\ PublishedIsServed
  OBVIOUS
<1> DEFINE first == [fields |-> FirstForm, status |-> "published"]
<1>1. first \in Entry /\ first.status = "published"
  BY FormsAssumption DEF Entry
<1>2. forms = <<first>>
  BY DEF FormsInit
<1> HIDE DEF first
<1>3. forms \in Seq(Entry) /\ DOMAIN forms = {1} /\ forms[1] = first
  BY <1>1, <1>2
<1>4. FormsTypeOK
  BY <1>3, FormsAssumption DEF FormsInit, FormsTypeOK, Version
<1>5. Published = {1}
  BY <1>1, <1>3 DEF Published, Version
<1>6. last = 1 /\ \A o \in Officer : publishing[o] = Absent
  BY DEF FormsInit
<1> QED
  BY <1>4, <1>5, <1>6 DEF PublicationsKnow, PublishedIsServed

\* What the editor does to the questions.
LEMMA EditedForm ==
  ASSUME FormsTypeOK, NEW fields \in Seq(Field), Edited(fields)
  PROVE  FormsTypeOK'
BY DEF Edited, formVars, intakeVars, FormsTypeOK, Version

LEMMA EditorTyped ==
  ASSUME FormsTypeOK, EditForm, UNCHANGED forms
  PROVE  FormsTypeOK'
<1>0. editor \in Seq(Field) /\ Len(editor) \in Nat /\ DOMAIN editor = 1 .. Len(editor)
      /\ \A i \in DOMAIN editor : editor[i] \in Field
  BY LenProperties, ElementOfSeq DEF FormsTypeOK
<1>1. CASE OpenEditor
  <2>1. Last(forms).fields \in Seq(Field)
    <3>1. Len(forms) \in Version
      BY Versions DEF FormsTypeOK
    <3> QED
      BY <3>1, Versions DEF Last
  <2> QED
    BY <1>1, <2>1 DEF OpenEditor, formVars, intakeVars, FormsTypeOK, Version
<1>2. CASE AddField
  <2> DEFINE field == [key |-> Len(editor) + 1, kind |-> "text", options |-> FALSE,
                       required |-> FALSE]
  <2>1. field \in Field
    BY <1>0 DEF Field
  <2>2. Append(editor, field) \in Seq(Field)
    BY <1>0, <2>1, AppendProperties
  <2> QED
    BY <1>2, <2>2, EditedForm DEF AddField
<1>3. ASSUME NEW i \in DOMAIN editor, RemoveField(i) PROVE FormsTypeOK'
  <2>1. i \in 1 .. Len(editor)
    BY <1>0
  <2>2. SubSeq(editor, 1, i - 1) \in Seq(Field)
    <3>1. \A k \in 1 .. i - 1 : editor[k] \in Field
      BY <1>0, <2>1
    <3> QED
      BY <2>1, <3>1, SubSeqProperties
  <2>3. SubSeq(editor, i + 1, Len(editor)) \in Seq(Field)
    <3>1. \A k \in i + 1 .. Len(editor) : editor[k] \in Field
      BY <1>0, <2>1
    <3> QED
      BY <1>0, <2>1, <3>1, SubSeqProperties
  <2>4. RemoveAt(editor, i) \in Seq(Field)
    BY <2>2, <2>3, ConcatProperties DEF RemoveAt
  <2> QED
    BY <1>3, <2>4, EditedForm DEF RemoveField
<1>4. ASSUME NEW i \in DOMAIN editor, MoveField(i) PROVE FormsTypeOK'
  <2>1. i \in 1 .. Len(editor) /\ i + 1 \in 1 .. Len(editor)
    BY <1>0, <1>4 DEF MoveField
  <2>2. [editor EXCEPT ![i] = editor[i + 1], ![i + 1] = editor[i]] \in Seq(Field)
    BY <1>0, <2>1, ExceptSeq
  <2> QED
    BY <1>4, <2>2, EditedForm DEF MoveField
<1>5. ASSUME NEW i \in DOMAIN editor, UpdateField(i) PROVE FormsTypeOK'
  <2>0. i \in 1 .. Len(editor)
    BY <1>0
  <2>1. ASSUME NEW field \in Field, Edited([editor EXCEPT ![i] = field])
        PROVE  FormsTypeOK'
    <3>1. [editor EXCEPT ![i] = field] \in Seq(Field)
      BY <1>0, <2>0, ExceptSeq
    <3> QED
      BY <2>1, <3>1, EditedForm
  <2>2. ASSUME NEW kind \in {"text", "select"}, Edited([editor EXCEPT ![i].kind = kind])
        PROVE  FormsTypeOK'
    <3>1. [editor[i] EXCEPT !.kind = kind] \in Field
      BY <1>0 DEF Field
    <3> QED
      BY <2>1, <2>2, <3>1
  <2>3. ASSUME Edited([editor EXCEPT ![i].options = ~@]) PROVE FormsTypeOK'
    <3>1. [editor[i] EXCEPT !.options = ~@] \in Field
      BY <1>0 DEF Field
    <3> QED
      BY <2>1, <2>3, <3>1
  <2>4. ASSUME Edited([editor EXCEPT ![i].required = ~@]) PROVE FormsTypeOK'
    <3>1. [editor[i] EXCEPT !.required = ~@] \in Field
      BY <1>0 DEF Field
    <3> QED
      BY <2>1, <2>4, <3>1
  <2> QED
    BY <1>5, <2>2, <2>3, <2>4 DEF UpdateField
<1>6. CASE SaveDraft
  BY <1>6 DEF SaveDraft, formVars, intakeVars, FormsTypeOK, Version
<1> QED
  BY <1>1, <1>2, <1>3, <1>4, <1>5, <1>6 DEF EditForm

LEMMA FormsTypedStep ==
  FormsTypeOK /\ PublicationsKnow /\ [FormsNext]_formsVars => FormsTypeOK'
<1> SUFFICES ASSUME FormsTypeOK, PublicationsKnow, [FormsNext]_formsVars
             PROVE  FormsTypeOK'
  OBVIOUS
<1>1. CASE SaveDraft
  <2>1. /\ forms' \in Seq(Entry) /\ Version \subseteq Version'
    BY <1>1, DraftSaved DEF Kept, Version
  <2> QED
    BY <1>1, <2>1 DEF SaveDraft, intakeVars, FormsTypeOK
<1>2. CASE EditForm /\ ~SaveDraft
  <2>1. UNCHANGED forms
    BY <1>2 DEF EditForm, OpenEditor, AddField, RemoveField, MoveField, UpdateField,
                Edited, formVars
  <2> QED
    BY <1>2, <2>1, EditorTyped
<1>3. ASSUME NEW o \in Officer, NEW v \in Version, ReadDraft(o, v) PROVE FormsTypeOK'
  <2>0. v \in Nat
    BY Versions
  <2>1. [version |-> v, found |-> Absent, overtaken |-> FALSE] \in Publishing
    BY <2>0 DEF Publishing
  <2> QED
    BY <1>3, <2>1 DEF ReadDraft, intakeVars, FormsTypeOK, Version
<1>4. ASSUME NEW o \in Officer, FindPublished(o) PROVE FormsTypeOK'
  <2>1. publishing[o] \in Publishing /\ Published \subseteq Nat
    BY <1>4, Versions DEF FindPublished, FormsTypeOK
  <2>2. [publishing[o] EXCEPT !.found = Published] \in Publishing
    BY <2>1 DEF Publishing
  <2>3. publishing' \in [Officer -> Publishing \cup {Absent}]
    BY <1>4, <2>2 DEF FindPublished, FormsTypeOK
  <2> QED
    BY <1>4, <2>3 DEF FindPublished, intakeVars, FormsTypeOK, Version
<1>5. ASSUME NEW o \in Officer, CommitPublication(o) PROVE FormsTypeOK'
  <2>1. forms' \in Seq(Entry) /\ Version' = Version /\ publishing[o].version \in Version
    BY <1>5, PublicationCommitted
  <2>2. publishing[o] \in Publishing
    BY <1>5 DEF CommitPublication, FormsTypeOK
  <2>3. \A p \in Officer : publishing[p] # Absent =>
          [publishing[p] EXCEPT !.overtaken = TRUE] \in Publishing
    BY DEF Publishing, FormsTypeOK
  <2>4. publishing' \in [Officer -> Publishing \cup {Absent}]
    BY <1>5, <2>3 DEF CommitPublication, FormsTypeOK
  <2>5. last' \in Version' /\ mixed' \in BOOLEAN
    BY <1>5, <2>1, <2>2 DEF CommitPublication, Publishing
  <2> QED
    BY <1>5, <2>1, <2>4, <2>5 DEF CommitPublication, intakeVars, FormsTypeOK
<1>6. CASE BeginSubmit \/ BeginStore \/ EndStore
  BY <1>6 DEF BeginSubmit, BeginStore, EndStore, formVars, FormsTypeOK, Version
<1>7. CASE EndSubmit
  BY <1>7 DEF EndSubmit, formVars, FormsTypeOK, Version
<1>8. CASE SaveSignupEdits
  <2>1. PICK new : submission' = [submission EXCEPT !.answers = new]
    BY <1>8 DEF SaveSignupEdits
  <2>2. submission # Absent /\ UNCHANGED <<forms, last, mixed, publishing, editor, touches>>
    BY <1>8 DEF SaveSignupEdits, formVars
  <2> QED
    BY <2>1, <2>2 DEF FormsTypeOK, Version
<1>9. CASE Decide
  BY <1>9 DEF Decide, formVars, FormsTypeOK, Version
<1>10. CASE BootstrapProfile
  BY <1>10 DEF BootstrapProfile, formVars, FormsTypeOK, Version
<1>11. CASE UNCHANGED formsVars
  BY <1>11 DEF formsVars, formVars, intakeVars, FormsTypeOK, Version
<1> QED
  BY <1>1, <1>2, <1>3, <1>4, <1>5, <1>6, <1>7, <1>8, <1>9, <1>10, <1>11
     DEF FormsNext, Publication
--------------------------------------------------------------------------------
(***************************************************************************)
(* SignupForms: what is published.                                         *)
(***************************************************************************)

LEMMA PublicationsStep ==
  FormsTypeOK /\ FormsTypeOK' /\ PublicationsKnow /\ PublishedIsServed
    /\ [FormsNext]_formsVars
  => PublicationsKnow' /\ PublishedIsServed'
<1> SUFFICES ASSUME FormsTypeOK, FormsTypeOK', PublicationsKnow, PublishedIsServed,
                    [FormsNext]_formsVars
             PROVE  PublicationsKnow' /\ PublishedIsServed'
  OBVIOUS
<1>1. CASE UNCHANGED formVars
  BY <1>1 DEF formVars, PublicationsKnow, PublishedIsServed, Published, Version
<1>2. CASE SaveDraft
  <2>1. /\ Published' = Published /\ Version \subseteq Version'
        /\ UNCHANGED <<last, mixed, publishing>>
    BY <1>2, DraftSaved DEF SaveDraft, Kept, Version
  <2> QED
    BY <2>1 DEF PublicationsKnow, PublishedIsServed
<1>3. ASSUME NEW o \in Officer, NEW v \in Version, ReadDraft(o, v)
      PROVE  PublicationsKnow' /\ PublishedIsServed'
  <2>1. /\ publishing'[o].version = v /\ publishing'[o].found = Absent
        /\ \A p \in Officer \ {o} : publishing'[p] = publishing[p]
        /\ UNCHANGED <<forms, last, mixed>>
    BY <1>3 DEF ReadDraft, FormsTypeOK
  <2>2. Published' = Published /\ Version' = Version
    BY <2>1 DEF Published, Version
  <2> QED
    BY <2>1, <2>2 DEF PublicationsKnow, PublishedIsServed
<1>4. ASSUME NEW o \in Officer, FindPublished(o)
      PROVE  PublicationsKnow' /\ PublishedIsServed'
  <2>1. publishing[o] \in Publishing /\ publishing[o] # Absent
    BY <1>4 DEF FindPublished, FormsTypeOK
  <2>2. /\ publishing'[o].version = publishing[o].version
        /\ publishing'[o].found = Published
        /\ \A p \in Officer \ {o} : publishing'[p] = publishing[p]
        /\ UNCHANGED <<forms, last, mixed>>
    BY <1>4, <2>1 DEF FindPublished, FormsTypeOK, Publishing
  <2>3. Published' = Published /\ Version' = Version
    BY <2>2 DEF Published, Version
  <2> QED
    BY <2>1, <2>2, <2>3 DEF PublicationsKnow, PublishedIsServed
<1>5. ASSUME NEW o \in Officer, CommitPublication(o)
      PROVE  PublicationsKnow' /\ PublishedIsServed'
  <2>1. /\ Version' = Version /\ publishing[o].version \in Version
        /\ Published' = {publishing[o].version} \cup (Published \ publishing[o].found)
    BY <1>5, PublicationCommitted
  <2>2. /\ publishing[o] # Absent /\ publishing[o].found # Absent
        /\ last' = publishing[o].version /\ mixed' = publishing[o].overtaken
        /\ publishing'[o] = Absent
    BY <1>5 DEF CommitPublication
  <2>3. ASSUME NEW p \in Officer \ {o}, publishing'[p] # Absent
        PROVE  /\ publishing'[p].version \in Version
               /\ publishing'[p].found # Absent => publishing'[p].overtaken
    <3>1. publishing'[p] = IF publishing[p] # Absent /\ publishing[p].found # Absent
                           THEN [publishing[p] EXCEPT !.overtaken = TRUE]
                           ELSE publishing[p]
      BY <1>5 DEF CommitPublication
    <3>2. publishing[p] # Absent => publishing[p] \in Publishing
      BY DEF FormsTypeOK
    <3>3. publishing[p] # Absent => publishing[p].version \in Version
      BY DEF PublicationsKnow
    <3>4. CASE publishing[p] # Absent /\ publishing[p].found # Absent
      BY <3>1, <3>2, <3>3, <3>4 DEF Publishing
    <3>5. CASE ~(publishing[p] # Absent /\ publishing[p].found # Absent)
      BY <2>3, <3>1, <3>3, <3>5
    <3> QED
      BY <3>4, <3>5
  <2>4. PublicationsKnow'
    BY <2>1, <2>2, <2>3 DEF PublicationsKnow
  <2>5. ~publishing[o].overtaken => publishing[o].found = Published
    BY <2>2 DEF PublicationsKnow
  <2>6. PublishedIsServed'
    BY <2>1, <2>2, <2>5 DEF PublishedIsServed
  <2> QED
    BY <2>4, <2>6
<1> QED
  BY <1>1, <1>2, <1>3, <1>4, <1>5
     DEF FormsNext, Publication, EditForm, OpenEditor, AddField, RemoveField, MoveField,
         UpdateField, Edited, BeginSubmit, EndSubmit, SaveSignupEdits, Decide,
         BootstrapProfile, BeginStore, EndStore, formsVars
--------------------------------------------------------------------------------
(***************************************************************************)
(* SignupForms: answers fit the version they are stored with.              *)
(***************************************************************************)

LEMMA FormsKept ==
  ASSUME FormsTypeOK, PublicationsKnow, [FormsNext]_formsVars
  PROVE  Kept(forms, forms')
<1>1. CASE SaveDraft
  BY <1>1, DraftSaved
<1>2. ASSUME NEW o \in Officer, CommitPublication(o) PROVE Kept(forms, forms')
  BY <1>2, PublicationCommitted
<1>3. CASE UNCHANGED forms
  BY <1>3 DEF Kept
<1> QED
  BY <1>1, <1>2, <1>3
     DEF FormsNext, Publication, EditForm, OpenEditor, AddField, RemoveField, MoveField,
         UpdateField, Edited, ReadDraft, FindPublished, BeginSubmit, EndSubmit,
         SaveSignupEdits, Decide, BootstrapProfile, BeginStore, EndStore, formVars,
         formsVars

LEMMA FitsStart == FormsInit => EverythingFits
BY DEF FormsInit, EverythingFits

\* What was posted is filed under the version it was validated on.
LEMMA PostedIsFiled ==
  ASSUME FormsTypeOK, PublishedIsServed, NEW posted \in Filled,
         Fits(forms[Served].fields, posted)
  PROVE  FiledIn(forms, [schema  |-> Served,
                         answers |-> Answered(forms[Served].fields, posted)])
<1>1. Served \in DOMAIN forms /\ forms[Served].fields \in Seq(Field)
  BY ServedIsThere DEF Version
<1>2. posted \in [DOMAIN posted -> Answer]
  BY FilledAnswers
<1>3. /\ Answers(Answered(forms[Served].fields, posted))
      /\ Fits(forms[Served].fields, Answered(forms[Served].fields, posted))
  BY <1>1, <1>2, AnsweredFits
<1> QED
  BY <1>1, <1>3 DEF FiledIn

LEMMA FitsStep ==
  FormsTypeOK /\ PublicationsKnow /\ PublishedIsServed /\ EverythingFits
    /\ [FormsNext]_formsVars
  => EverythingFits'
<1> SUFFICES ASSUME FormsTypeOK, PublicationsKnow, PublishedIsServed, EverythingFits,
                    [FormsNext]_formsVars
             PROVE  EverythingFits'
  OBVIOUS
<1>1. \A row : Filed(row) <=> FiledIn(forms, row)
  BY FiledMeans
<1>2. /\ Filed(submission)' <=> FiledIn(forms', submission')
      /\ Filed(sending)' <=> FiledIn(forms', sending')
      /\ Filed(profile)' <=> FiledIn(forms', profile')
      /\ Filed(storing)' <=> FiledIn(forms', storing')
  BY DEF Filed, FiledIn, Answers, Version
<1>3. /\ submission # Absent => FiledIn(forms', submission)
      /\ sending # Absent => FiledIn(forms', sending)
      /\ profile # Absent => FiledIn(forms', profile)
      /\ storing # Absent => FiledIn(forms', storing)
  BY <1>1, FormsKept, KeptFiled DEF EverythingFits
<1> SUFFICES /\ submission' # Absent => FiledIn(forms', submission')
             /\ sending' # Absent => FiledIn(forms', sending')
             /\ profile' # Absent => FiledIn(forms', profile')
             /\ storing' # Absent => FiledIn(forms', storing')
  BY <1>2 DEF EverythingFits
<1>4. CASE UNCHANGED intakeVars
  BY <1>3, <1>4 DEF intakeVars
<1>5. CASE BeginSubmit
  <2>1. /\ UNCHANGED <<forms, submission, profile, storing>>
        /\ FiledIn(forms, sending')
    BY <1>5, PostedIsFiled DEF BeginSubmit, formVars
  <2> QED
    BY <1>3, <2>1
<1>6. CASE EndSubmit
  <2>1. /\ UNCHANGED <<profile, storing>> /\ sending' = Absent /\ sending # Absent
        /\ \/ submission' = submission
           \/ submission'.schema = sending.schema /\ submission'.answers = sending.answers
    BY <1>6 DEF EndSubmit
  <2> QED
    BY <1>3, <2>1 DEF FiledIn
<1>7. CASE SaveSignupEdits
  <2>1. /\ submission # Absent /\ UNCHANGED <<forms, sending, profile, storing>>
    BY <1>7 DEF SaveSignupEdits, formVars
  <2>2. PICK posted \in [Keys(EditFields) -> Answer] :
          /\ Fits(EditFields, Normalized(EditFields, posted))
          /\ submission' = [submission EXCEPT !.answers =
               Merged(EditFields, submission.answers, Normalized(EditFields, posted))]
    BY <1>7 DEF SaveSignupEdits, Merged
  <2>3. FiledIn(forms, submission)
    BY <1>3, <2>1
  <2>4. EditFields = forms[submission.schema].fields /\ EditFields \in Seq(Field)
    BY <2>3, Versions DEF EditFields, EditSchema, FiledIn, Version
  <2> DEFINE merged == Merged(EditFields, submission.answers, Normalized(EditFields, posted))
  <2>5. Answers(merged) /\ Fits(EditFields, merged)
    BY <2>2, <2>3, <2>4, NormalizedAnswers, MergedFits DEF FiledIn
  <2> HIDE DEF merged
  <2>6. submission'.schema = submission.schema /\ submission'.answers = merged
    BY <2>1, <2>2 DEF FormsTypeOK, merged
  <2>7. FiledIn(forms, submission')
    BY <2>3, <2>4, <2>5, <2>6 DEF FiledIn
  <2> QED
    BY <1>3, <2>1, <2>7
<1>8. CASE Decide
  <2>1. /\ submission # Absent /\ UNCHANGED <<sending, profile, storing>>
        /\ submission' = Absent \/ submission' = [submission EXCEPT !.status = "approved"]
    BY <1>8 DEF Decide
  <2>2. CASE submission' = [submission EXCEPT !.status = "approved"]
    <3>1. /\ submission'.schema = submission.schema
          /\ submission'.answers = submission.answers
      BY <2>1, <2>2 DEF FormsTypeOK
    <3> QED
      BY <1>3, <2>1, <3>1 DEF FiledIn
  <2> QED
    BY <1>3, <2>1, <2>2
<1>9. CASE BootstrapProfile
  <2>1. /\ submission # Absent /\ submission' = Absent /\ UNCHANGED <<sending, storing>>
        /\ profile'.schema = submission.schema /\ profile'.answers = submission.answers
    BY <1>9 DEF BootstrapProfile
  <2> QED
    BY <1>3, <2>1 DEF FiledIn
<1>10. CASE BeginStore
  <2>1. /\ UNCHANGED <<forms, submission, sending, profile>>
        /\ FiledIn(forms, storing')
    BY <1>10, PostedIsFiled DEF BeginStore, formVars
  <2> QED
    BY <1>3, <2>1
<1>11. CASE EndStore
  <2>1. /\ storing # Absent /\ storing' = Absent /\ UNCHANGED <<submission, sending>>
        /\ \/ profile' = profile
           \/ profile'.schema = storing.schema /\ profile'.answers = storing.answers
    BY <1>11 DEF EndStore, Stored
  <2> QED
    BY <1>3, <2>1 DEF FiledIn
<1> QED
  BY <1>4, <1>5, <1>6, <1>7, <1>8, <1>9, <1>10, <1>11
     DEF FormsNext, Publication, EditForm, OpenEditor, AddField, RemoveField, MoveField,
         UpdateField, Edited, SaveDraft, ReadDraft, FindPublished, CommitPublication,
         formsVars
--------------------------------------------------------------------------------
(***************************************************************************)
(* SignupForms: the theorems.                                              *)
(***************************************************************************)

\* The invariant: the versions, what is stored and what is under way.
THEOREM FormsInvariant == FormsSpec => []FormsInv
<1>1. FormsInit => FormsInv
  BY FormsStart, FitsStart DEF FormsInv
<1>2. FormsInv /\ [FormsNext]_formsVars => FormsInv'
  <2>1. FormsInv /\ [FormsNext]_formsVars => FormsTypeOK' /\ EverythingFits'
    BY FormsTypedStep, FitsStep DEF FormsInv
  <2>2. FormsInv /\ [FormsNext]_formsVars => PublicationsKnow' /\ PublishedIsServed'
    BY <2>1, PublicationsStep DEF FormsInv
  <2> QED
    BY <2>1, <2>2 DEF FormsInv
<1> QED
  BY <1>1, <1>2, PTL DEF FormsSpec

\* The versions, the publications and the editor's page stay in their domains.
THEOREM FormsTyped == FormsSpec => []FormsTypeOK
<1>1. FormsInv => FormsTypeOK
  BY DEF FormsInv
<1> QED
  BY <1>1, FormsInvariant, PTL

\* However many officers publish at a time, the version published last is
\* published, and it alone unless its publication overlapped another.
THEOREM PublicationReplaces == FormsSpec => []PublishedIsServed
<1>1. FormsInv => PublishedIsServed
  BY DEF FormsInv
<1> QED
  BY <1>1, FormsInvariant, PTL

\* Whatever is edited, published and saved meanwhile, answers fit the version of
\* the form they are stored with.
THEOREM AnswersFit == FormsSpec => []AnswersFitTheirSchema
<1>1. FormsInv => AnswersFitTheirSchema
  BY DEF FormsInv, EverythingFits, Filed, AnswersFitTheirSchema
<1> QED
  BY <1>1, FormsInvariant, PTL
================================================================================
