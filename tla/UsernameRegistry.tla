---------------------------- MODULE UsernameRegistry ---------------------------
(***************************************************************************)
(* What the portal promises about usernames.  A name belongs to one        *)
(* applicant or one member; an approved applicant and one member may share *)
(* it, because the member is the account created for the applicant.  An    *)
(* approved applicant keeps the name until the record is deleted.          *)
(***************************************************************************)
CONSTANTS Signup, User, Name, NoName

VARIABLES applicant,   \* applicant[s]: the name signup s asks for, or NoName
          member,      \* member[x]: the name of account x, or NoName
          approved     \* signups an officer approved

vars == <<applicant, member, approved>>

Init == /\ applicant = [s \in Signup |-> NoName]
        /\ member = [x \in User |-> NoName]
        /\ approved = {}

Free(n) == /\ \A s \in Signup : applicant[s] # n
           /\ \A x \in User : member[x] # n

\* An applicant asks for a free name, or for another one before the approval.
Ask(s, n) == /\ s \notin approved
             /\ Free(n)
             /\ applicant' = [applicant EXCEPT ![s] = n]
             /\ UNCHANGED <<member, approved>>

Approve(s) == /\ applicant[s] # NoName
              /\ approved' = approved \cup {s}
              /\ UNCHANGED <<applicant, member>>

\* The signup is denied, or its record deleted.
Drop(s) == /\ applicant' = [applicant EXCEPT ![s] = NoName]
           /\ approved' = approved \ {s}
           /\ UNCHANGED member

\* A member takes a name nobody has.
Take(x, n) == /\ Free(n)
              /\ member' = [member EXCEPT ![x] = n]
              /\ UNCHANGED <<applicant, approved>>

\* The account of an approved applicant gets the applicant's name.
Join(x, s) == /\ s \in approved
              /\ \A y \in User \ {x} : member[y] # applicant[s]
              /\ member' = [member EXCEPT ![x] = applicant[s]]
              /\ UNCHANGED <<applicant, approved>>

Leave(x) == /\ member' = [member EXCEPT ![x] = NoName]
            /\ UNCHANGED <<applicant, approved>>

Next == \/ \E s \in Signup : Approve(s) \/ Drop(s) \/ \E n \in Name : Ask(s, n)
        \/ \E x \in User : \/ Leave(x)
                           \/ \E n \in Name : Take(x, n)
                           \/ \E s \in Signup : Join(x, s)

Spec == Init /\ [][Next]_vars
================================================================================
