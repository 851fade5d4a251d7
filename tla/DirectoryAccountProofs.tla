------------------------ MODULE DirectoryAccountProofs ------------------------
(***************************************************************************)
(* What a directory call leaves behind and answers, for every account.     *)
(***************************************************************************)
EXTENDS DirectoryAccount, TLAPS

\* The outcomes of a call, one disjunct per branch of Create.
LEMMA CreateOutcomes ==
  ASSUME NEW a \in Account, NEW p \in Nat, NEW out \in Create(a, p)
  PROVE  \/ /\ a.phase = "absent"
            /\ \/ out.account = Fresh(p) /\ out.answer = "password"
               \/ out.account \in {Absent, Leftover} /\ out.answer = "error"
               \/ out.account = Foreign /\ out.answer = "existed"
         \/ out.account = a /\ out.answer \in {"error", "existed"}
         \/ /\ a.phase = "ready" /\ Reissuable(a)
            /\ \/ out.account = Reset(a, p) /\ out.answer = "password"
               \/ out.account = ResetNotEnabled(a, p) /\ out.answer = "error"
<1>1. CASE a.phase = "absent"
  BY <1>1 DEF Create, SetUp, Outcome
<1>2. CASE a.phase # "absent" /\ a.phase # "ready"
  BY <1>2 DEF Create, Replay, Outcome
<1>3. CASE a.phase = "ready" /\ Reissuable(a)
  BY <1>3 DEF Create, Replay, Reissue, Outcome
<1>4. CASE a.phase = "ready" /\ ~Reissuable(a)
  BY <1>4 DEF Create, Replay, Outcome
<1> QED
  BY <1>1, <1>2, <1>3, <1>4

\* A call by attempt p keeps the account well formed.
LEMMA CreateType ==
  ASSUME NEW a \in Account, NEW p \in Nat, NEW out \in Create(a, p)
  PROVE  out.account \in Account /\ out.answer \in Answer
<1>1. /\ Fresh(p) \in Account /\ Absent \in Account
      /\ Leftover \in Account /\ Foreign \in Account
  BY DEF Fresh, Absent, Leftover, Foreign, Account, Password, Unknown
<1>2. Reset(a, p) \in Account /\ ResetNotEnabled(a, p) \in Account
  BY DEF Account, Password, Reset, ResetNotEnabled
<1> QED
  BY <1>1, <1>2, CreateOutcomes DEF Answer

\* The password a call answers with is the one it put in force.
LEMMA CreateAnswersItsPassword ==
  ASSUME NEW a \in Account, NEW p \in Nat, NEW out \in Create(a, p),
         out.answer = "password"
  PROVE  out.account.password = p
<1>1. Fresh(p).password = p /\ Reset(a, p).password = p
  BY DEF Fresh, Account, Reset
<1> QED
  BY <1>1, CreateOutcomes

\* A call neither brings in nor replaces a password of the member's own.
LEMMA CreateKeepsChosen ==
  ASSUME NEW a \in Account, NEW p \in Nat, NEW out \in Create(a, p),
         a.password = Chosen => a.phase = "ready" /\ ~a.mustChange
  PROVE  /\ out.account.password = Chosen =>
              out.account.phase = "ready" /\ ~out.account.mustChange
         /\ (out.account.password = Chosen) <=> (a.password = Chosen)
<1>1. \A b \in {Fresh(p), Absent, Leftover, Foreign} : b.password # Chosen
  BY DEF Fresh, Absent, Leftover, Foreign, Chosen, Unknown
<1>2. Reset(a, p).password # Chosen /\ ResetNotEnabled(a, p).password # Chosen
  BY DEF Account, Chosen, Reset, ResetNotEnabled
<1>3. a.password = Chosen => out.account = a
  BY CreateOutcomes DEF Reissuable
<1> QED
  BY <1>1, <1>2, <1>3, CreateOutcomes

\* A call leaves an account of the event's, or one with no password of its.
LEMMA CreateKeepsForeign ==
  ASSUME NEW a \in Account, NEW p \in Nat, NEW out \in Create(a, p),
         ~a.owned => a.password = Unknown
  PROVE  ~out.account.owned => out.account.password = Unknown
<1>1. \A b \in {Fresh(p), Absent, Leftover, Foreign} :
        ~b.owned => b.password = Unknown
  BY DEF Fresh, Absent, Leftover, Foreign
<1>2. Reissuable(a) => Reset(a, p).owned /\ ResetNotEnabled(a, p).owned
  BY DEF Account, Reset, ResetNotEnabled, Reissuable
<1> QED
  BY <1>1, <1>2, CreateOutcomes

\* A ready account that is not this event's, or that is in use, is untouched.
LEMMA CreateKeepsUsed ==
  ASSUME NEW a \in Account, NEW p \in Nat, NEW out \in Create(a, p),
         a.phase = "ready", ~a.owned \/ ~a.mustChange
  PROVE  out.account = a
BY CreateOutcomes DEF Reissuable

\* The password in force after a call is the call's, the one before, or none.
LEMMA CreatePasswords ==
  ASSUME NEW a \in Account, NEW p \in Nat, NEW out \in Create(a, p)
  PROVE  out.account.password \in {p, a.password, Unknown}
<1>1. /\ Fresh(p).password = p /\ Reset(a, p).password = p
      /\ ResetNotEnabled(a, p).password = p
      /\ \A b \in {Absent, Leftover, Foreign} : b.password = Unknown
  BY DEF Fresh, Absent, Leftover, Foreign, Account, Reset, ResetNotEnabled
<1> QED
  BY <1>1, CreateOutcomes
===============================================================================
