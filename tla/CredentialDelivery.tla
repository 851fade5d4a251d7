-------------------------- MODULE CredentialDelivery --------------------------
(***************************************************************************)
(* What credential delivery promises for every approved signup, whatever   *)
(* workers, tokens, locks, retries and crashes are behind it.              *)
(***************************************************************************)
EXTENDS DirectoryAccount

CONSTANT Event

VARIABLES phase,     \* "new" | "open" | "stopped" | "done"
          receipt,   \* "null" | "pending" (owed) | "delivered"
          password,  \* the password in force in the directory
          told       \* the password the member was told last, or Unknown

vars == <<phase, receipt, password, told>>

Init == /\ phase = [e \in Event |-> "new"]
        /\ receipt = [e \in Event |-> "null"]
        /\ password = [e \in Event |-> Unknown]
        /\ told = [e \in Event |-> Unknown]

\* With manual delivery the credentials are owed from the start.
Queue(e) == /\ phase[e] = "new"
            /\ phase' = [phase EXCEPT ![e] = "open"]
            /\ \/ UNCHANGED receipt
               \/ /\ receipt[e] = "null"
                  /\ receipt' = [receipt EXCEPT ![e] = "pending"]
            /\ UNCHANGED <<password, told>>

\* The directory changes the initial password, and the row may take note of
\* it.  Never after delivery, and never a password of the member's own.
Issue(e) == /\ phase[e] \in {"open", "stopped"}
            /\ receipt[e] # "delivered"
            /\ password[e] # Chosen
            /\ password'[e] # Chosen
            /\ password' = [password EXCEPT ![e] = password'[e]]
            /\ \/ UNCHANGED receipt
               \/ receipt' = [receipt EXCEPT ![e] = "pending"]
            /\ UNCHANGED <<phase, told>>

\* The member is told the password in force; a receipt may be lost.
Tell(e) == /\ phase[e] = "open"
           /\ receipt[e] = "pending"
           /\ told' = [told EXCEPT ![e] = password[e]]
           /\ \/ UNCHANGED receipt
              \/ receipt' = [receipt EXCEPT ![e] = "delivered"]
           /\ UNCHANGED <<phase, password>>

\* An officer confirms that the member got the password in force, which the
\* member may have replaced by then.
Confirm(e) == /\ phase[e] = "open"
              /\ receipt[e] = "pending"
              /\ told[e] # Unknown
              /\ password[e] \in {told[e], Chosen}
              /\ receipt' = [receipt EXCEPT ![e] = "delivered"]
              /\ phase' = [phase EXCEPT ![e] = "done"]
              /\ UNCHANGED <<password, told>>

\* Nothing completes while credentials are owed.
Complete(e) == /\ phase[e] = "open"
               /\ receipt[e] # "pending"
               /\ phase' = [phase EXCEPT ![e] = "done"]
               /\ UNCHANGED <<receipt, password, told>>

Stop(e) == /\ phase[e] = "open"
           /\ phase' = [phase EXCEPT ![e] = "stopped"]
           /\ UNCHANGED <<receipt, password, told>>

Reopen(e) == /\ phase[e] = "stopped"
             /\ phase' = [phase EXCEPT ![e] = "open"]
             /\ UNCHANGED <<receipt, password, told>>

\* Only someone who was told the password in force can replace it.
MemberChooses(e) == /\ told[e] # Unknown
                    /\ password[e] = told[e]
                    /\ password' = [password EXCEPT ![e] = Chosen]
                    /\ UNCHANGED <<phase, receipt, told>>

Next == \E e \in Event :
          \/ Queue(e) \/ Issue(e) \/ Tell(e) \/ Confirm(e) \/ Complete(e)
          \/ Stop(e) \/ Reopen(e) \/ MemberChooses(e)

Spec == Init /\ [][Next]_vars
===============================================================================
