--------------------------- MODULE DirectoryAccount ---------------------------
(***************************************************************************)
(* The Active Directory account behind one signup, and what the Windows    *)
(* API does to it inside its per-account gate                              *)
(* (windows-api/AdAccountCreation.cs, AdAccountActivation.cs).             *)
(*                                                                         *)
(* The gate admits one operation on an account at a time, so an operation  *)
(* is described by the set of its outcomes: what it leaves in the          *)
(* directory, paired with what it answers.  A failure between two          *)
(* directory writes of one operation is an outcome of its own.             *)
(***************************************************************************)
EXTENDS Integers

(***************************************************************************)
(* A password is named by the attempt that generated it (1, 2, ...): every *)
(* attempt calls GeneratePassword at most once.                            *)
(***************************************************************************)
Unknown == 0     \* a password the portal never saw
Chosen  == -1    \* the password the member chose

Password == Nat \cup {Unknown, Chosen}

(***************************************************************************)
(* phase: no object, an object still disabled or without a password        *)
(* (UacCreateDisabled), or an enabled one (UacEnabled).                    *)
(* owned: its description holds this signup's event marker.                *)
(* mustChange: pwdLastSet = 0.                                             *)
(***************************************************************************)
Account == [phase      : {"absent", "incomplete", "ready"},
            owned      : BOOLEAN,
            mustChange : BOOLEAN,
            password   : Password]

Absent == [phase |-> "absent", owned |-> FALSE, mustChange |-> FALSE,
           password |-> Unknown]

\* An enabled account that this signup's event did not create.
Foreign == [phase |-> "ready", owned |-> FALSE, mustChange |-> FALSE,
            password |-> Unknown]

\* The object of a failed setup whose deletion failed too.
Leftover == [phase |-> "incomplete", owned |-> TRUE, mustChange |-> FALSE,
             password |-> Unknown]

Fresh(p) == [phase |-> "ready", owned |-> TRUE, mustChange |-> TRUE,
             password |-> p]

Answer == {"password", "existed", "error"}

Outcome(a, answer) == [account |-> a, answer |-> answer]

(***************************************************************************)
(* Create a new object, set its password, enable it.  On a failure the     *)
(* object is deleted, or stays behind when the deletion fails.  A          *)
(* directory client outside this API can win the race for the name.        *)
(***************************************************************************)
SetUp(p) == {Outcome(Fresh(p), "password"),
             Outcome(Absent, "error"),
             Outcome(Leftover, "error"),
             Outcome(Foreign, "existed")}

\* Mutant: an account in use can be reset.
Mut_Reissuable(a) == a.owned

\* Only an account made by this event and still unused gets a new password.
Reissuable(a) == a.owned /\ a.mustChange

(***************************************************************************)
(* SetPassword stamps pwdLastSet, Enable clears it again: when Enable      *)
(* fails the new password is in force and no change is required.           *)
(***************************************************************************)
Reset(a, p) == [a EXCEPT !.password = p]

ResetNotEnabled(a, p) == [a EXCEPT !.password = p, !.mustChange = FALSE]

Reissue(a, p) == {Outcome(Reset(a, p), "password"),
                  Outcome(a, "error"),
                  Outcome(ResetNotEnabled(a, p), "error")}

Replay(a, p) ==
  IF a.phase # "ready" THEN {Outcome(a, "error")}
  ELSE IF Reissuable(a) THEN Reissue(a, p)
  ELSE {Outcome(a, "existed")}

Create(a, p) == IF a.phase = "absent" THEN SetUp(p) ELSE Replay(a, p)

(***************************************************************************)
(* The member proves the current password p and sets one of their own:     *)
(* anywhere (CanChange), or through first-time activation (CanActivate).   *)
(***************************************************************************)
CanChange(a, p) == a.phase = "ready" /\ a.password = p

CanActivate(a, p) == CanChange(a, p) /\ a.owned /\ a.mustChange

TakenOver(a) == [a EXCEPT !.password = Chosen, !.mustChange = FALSE]
===============================================================================
