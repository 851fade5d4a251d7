---------------------------- MODULE MCSignupIntake -----------------------------
(***************************************************************************)
(* The two halves of a signup for TLC: its answers (SignupForms) and its   *)
(* Discord account (DiscordLinks).  Neither reads what the other writes,   *)
(* but that a signup which one refuses does not happen in the other, and   *)
(* each refuses at will already.  So a behaviour moves one half: the       *)
(* states add up instead of multiplying.                                   *)
(*                                                                         *)
(* The form first published asks one question under the key of a second,   *)
(* as the editor leaves it when the first one is removed: then the         *)
(* question added next repeats the key.                                    *)
(***************************************************************************)
EXTENDS SignupForms, DiscordLinks, TLC

MCFirstForm == <<[key |-> 2, kind |-> "select", options |-> TRUE,
                  required |-> TRUE]>>

VARIABLE half  \* the half that moves

Init == FormsInit /\ LinksInit /\ half \in {"forms", "links"}

Next == \/ half = "forms" /\ FormsNext /\ UNCHANGED <<linksVars, half>>
        \/ half = "links" /\ LinksNext /\ UNCHANGED <<formsVars, half>>

Spec == Init /\ [][Next]_<<formsVars, linksVars, half>>

Symmetry == Permutations(Officer) \cup Permutations(Person)
              \cup Permutations(Discord)
================================================================================
