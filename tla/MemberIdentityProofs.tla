-------------------------- MODULE MemberIdentityProofs -------------------------
(***************************************************************************)
(* Proofs about MemberIdentity, for any members, names, requests and late  *)
(* calls.                                                                  *)
(***************************************************************************)
EXTENDS MemberIdentity, TLAPS

\* The verdicts of an answer.
LEMMA Verdicts ==
  ASSUME NEW answer \in {"ok", "rejected", "error", "lost"}
  PROVE  /\ ActivationVerdict(answer) \in {"ok", "rejected", "uncertain"}
         /\ PasswordVerdict(answer) \in {"ok", "rejected", "failed", "uncertain"}
         /\ SaveVerdict(answer) \in {"ok", "uncertain"}
         /\ ActivationVerdict(answer) = "ok" <=> answer = "ok"
         /\ SaveVerdict(answer) = "ok" <=> answer = "ok"
         /\ answer = "lost" => ActivationVerdict(answer) = "uncertain"
         /\ answer # "rejected" =>
              "rejected" \notin {ActivationVerdict(answer), PasswordVerdict(answer),
                                 SaveVerdict(answer)}
BY DEF ActivationVerdict, PasswordVerdict, SaveVerdict

\* What an answer makes of the job it answers.
Told(j, op, answer) ==
  /\ j.stage = "answered"
  /\ op = "activate" => j.verdict = ActivationVerdict(answer)
  /\ op = "password" => j.verdict = PasswordVerdict(answer)
  /\ op = "save"     => j.verdict = SaveVerdict(answer)

LEMMA AnsweredJob ==
  ASSUME TypeOK, NEW h \in Handler, job[h] # None,
         NEW answer \in {"ok", "rejected", "error", "lost"}, NEW did \in BOOLEAN,
         Answered(h, answer, did)
  PROVE  /\ job'[h] \in Jobs /\ job'[h] # None
         /\ job'[h].call = job[h].call /\ job'[h].did = did
         /\ Told(job'[h], job[h].call.op, answer)
         /\ \A g \in Handler \ {h} : job'[g] = job[g]
         /\ job' \in [Handler -> Jobs \cup {None}]
<1> DEFINE op == job[h].call.op
           verdict == CASE op = "activate" -> ActivationVerdict(answer)
                        [] op = "password" -> PasswordVerdict(answer)
                        [] op = "save"     -> SaveVerdict(answer)
<1>1. job[h] \in Jobs /\ job[h].call \in Calls /\ op \in {"activate", "password", "save"}
  BY DEF TypeOK, Jobs, Calls
<1>2. verdict \in {"none", "ok", "rejected", "failed", "uncertain"}
  BY <1>1, Verdicts
<1>3. /\ op = "activate" => verdict = ActivationVerdict(answer)
      /\ op = "password" => verdict = PasswordVerdict(answer)
      /\ op = "save"     => verdict = SaveVerdict(answer)
  OBVIOUS
<1>4. job' = [job EXCEPT ![h].stage = "answered", ![h].did = did, ![h].verdict = verdict]
  BY DEF Answered
<1> HIDE DEF verdict
<1>5. job'[h] = [job[h] EXCEPT !.stage = "answered", !.did = did, !.verdict = verdict]
  BY <1>4 DEF TypeOK
<1>6. /\ job'[h] \in Jobs /\ job'[h].call = job[h].call /\ job'[h].did = did
      /\ job'[h].stage = "answered" /\ job'[h].verdict = verdict
  BY <1>1, <1>2, <1>5 DEF Jobs
<1>7. \A g \in Handler \ {h} : job'[g] = job[g]
  BY <1>4 DEF TypeOK
<1>8. job' \in [Handler -> Jobs \cup {None}]
  BY <1>4, <1>6, <1>7 DEF TypeOK
<1> QED
  BY <1>3, <1>6, <1>7, <1>8, IdentityAssumption DEF Told

LEMMA StartedJob ==
  ASSUME TypeOK, NEW h \in Handler, NEW call \in Calls,
         NEW stage \in {"waiting", "read", "calling"}, Start(h, stage, call)
  PROVE  /\ job'[h] \in Jobs /\ job'[h] # None
         /\ job'[h].call = call /\ job'[h].stage = stage /\ ~job'[h].did
         /\ job'[h].verdict = "none"
         /\ \A g \in Handler \ {h} : job'[g] = job[g]
         /\ job' \in [Handler -> Jobs \cup {None}]
<1>1. [stage |-> stage, call |-> call, verdict |-> "none", did |-> FALSE] \in Jobs
  BY DEF Jobs
<1> QED
  BY <1>1, IdentityAssumption DEF Start, TypeOK

LEMMA EndedJob ==
  ASSUME TypeOK, NEW h \in Handler, End(h)
  PROVE  /\ job'[h] = None
         /\ \A g \in Handler \ {h} : job'[g] = job[g]
         /\ job' \in [Handler -> Jobs \cup {None}]
BY DEF End, TypeOK

LEMMA MovedJob ==
  ASSUME TypeOK, NEW h \in Handler, job[h] # None, Goes(h, "calling")
  PROVE  /\ job'[h] \in Jobs /\ job'[h] # None
         /\ job'[h].call = job[h].call /\ job'[h].stage = "calling"
         /\ job'[h].did = job[h].did /\ job'[h].verdict = job[h].verdict
         /\ \A g \in Handler \ {h} : job'[g] = job[g]
         /\ job' \in [Handler -> Jobs \cup {None}]
<1>1. job[h] \in Jobs
  BY DEF TypeOK
<1>2. job'[h] = [job[h] EXCEPT !.stage = "calling"]
  BY DEF Goes, TypeOK
<1>3. /\ job'[h] \in Jobs
      /\ job'[h].call = job[h].call /\ job'[h].stage = "calling"
      /\ job'[h].did = job[h].did /\ job'[h].verdict = job[h].verdict
  BY <1>1, <1>2 DEF Jobs
<1> QED
  BY <1>3, IdentityAssumption DEF Goes, TypeOK

LEMMA CallTyped ==
  ASSUME TypeOK, NEW m \in Member
  PROVE  /\ Request(m) \in Calls
         /\ name[m] # None => /\ Call("password", m, name[m], None) \in Calls
                              /\ \A n \in Name : Call("save", m, Target(m, n), n) \in Calls
<1>1. SignupName[m] \in Name
  BY IdentityAssumption
<1> QED
  BY <1>1 DEF Request, Call, Calls, Target, TypeOK

LEMMA JobTyped ==
  ASSUME TypeOK, NEW h \in Handler, job[h] # None
  PROVE  /\ job[h] \in Jobs /\ job[h].call \in Calls
         /\ job[h].call.who \in Member /\ job[h].call.target \in Name
         /\ job[h].call.op \in {"activate", "password", "save"}
         /\ job[h].call.op = "save" => job[h].call.want \in Name
BY DEF TypeOK, Jobs, Calls
-------------------------------------------------------------------------------
(***************************************************************************)
(* The variables stay in their domains.                                    *)
(***************************************************************************)

LEMMA ActsTyped ==
  ASSUME TypeOK, NEW call \in Calls, NEW q \in Member, Acts(call, q)
  PROVE  /\ sam' \in [Member -> Name]
         /\ changed' \subseteq Member /\ took' \subseteq Member
<1>1. call.who \in Member /\ (call.op = "save" => call.want \in Name)
  BY DEF Calls
<1> QED
  BY <1>1 DEF Acts, TypeOK

LEMMA TypedStart == Init => TypeOK
<1>1. New \subseteq Member /\ SignupName \in [Member -> Name]
  BY IdentityAssumption
<1> QED
  BY <1>1 DEF Init, TypeOK

LEMMA TypedStep == TypeOK /\ [Next]_vars => TypeOK'
<1> SUFFICES ASSUME TypeOK, [Next]_vars PROVE TypeOK'
  OBVIOUS
<1>1. ASSUME NEW m \in Member, FirstLogin(m) PROVE TypeOK'
  <2>1. SignupName[m] \in Name
    BY IdentityAssumption
  <2> QED
    BY <1>1, <2>1 DEF FirstLogin, history, TypeOK
<1>2. ASSUME NEW call \in late, LateCall(call) PROVE TypeOK'
  <2>1. call \in Calls
    BY DEF TypeOK
  <2>2. sam' \in [Member -> Name] /\ changed' \subseteq Member /\ took' \subseteq Member
    BY <1>2, <2>1, ActsTyped DEF LateCall, TypeOK
  <2> QED
    BY <1>2, <2>2 DEF LateCall, TypeOK
<1>3. ASSUME NEW h \in Handler, NEW m \in Member, BeginActivation(h, m) PROVE TypeOK'
  BY <1>3, CallTyped, StartedJob DEF BeginActivation, history, TypeOK
<1>4. ASSUME NEW h \in Handler, NEW m \in Member, BeginPasswordChange(h, m) PROVE TypeOK'
  BY <1>4, CallTyped, StartedJob DEF BeginPasswordChange, history, TypeOK
<1>5. ASSUME NEW h \in Handler, NEW m \in Member, NEW n \in Name, ReadProfile(h, m, n)
      PROVE  TypeOK'
  <2>1. overlapped' \in BOOLEAN
    BY <1>5 DEF ReadProfile, Saving, TypeOK
  <2> QED
    BY <1>5, <2>1, CallTyped, StartedJob DEF ReadProfile, TypeOK
<1>6. ASSUME NEW h \in Handler, WriteProfile(h) PROVE TypeOK'
  <2>1. job[h] # None /\ job[h].call.who \in Member /\ job[h].call.want \in Name
    BY <1>6, JobTyped DEF WriteProfile, Doing
  <2>2. job' \in [Handler -> Jobs \cup {None}]
    BY <1>6, <2>1, MovedJob, EndedJob DEF WriteProfile
  <2> QED
    BY <1>6, <2>1, <2>2 DEF WriteProfile, history, TypeOK
<1>7. ASSUME NEW h \in Handler, RefuseProfile(h) PROVE TypeOK'
  BY <1>7, EndedJob DEF RefuseProfile, history, TypeOK
<1>8. ASSUME NEW h \in Handler, NEW q \in Member, DirectoryActs(h, q) PROVE TypeOK'
  <2>1. job[h] # None /\ job[h].call \in Calls
    BY <1>8, JobTyped DEF DirectoryActs
  <2>2. job' \in [Handler -> Jobs \cup {None}]
    BY <1>8, <2>1, AnsweredJob DEF DirectoryActs
  <2> QED
    BY <1>8, <2>1, <2>2, ActsTyped DEF DirectoryActs, TypeOK
<1>9. ASSUME NEW h \in Handler, DirectoryRefuses(h) PROVE TypeOK'
  <2>1. job' \in [Handler -> Jobs \cup {None}]
    BY <1>9, AnsweredJob DEF DirectoryRefuses
  <2> QED
    BY <1>9, <2>1 DEF DirectoryRefuses, history, TypeOK
<1>10. ASSUME NEW h \in Handler, GiveUp(h) PROVE TypeOK'
  <2>1. job[h] # None /\ job[h].call \in Calls
    BY <1>10, JobTyped DEF GiveUp
  <2>2. job' \in [Handler -> Jobs \cup {None}]
    BY <1>10, <2>1, AnsweredJob DEF GiveUp
  <2> QED
    BY <1>10, <2>1, <2>2 DEF GiveUp, Outlives, history, TypeOK
<1>11. ASSUME NEW h \in Handler, EndActivation(h) PROVE TypeOK'
  <2>1. job[h] # None /\ job[h].call.who \in Member
    BY <1>11, JobTyped DEF EndActivation, Doing
  <2>2. receipts' \subseteq Member /\ unsure' \subseteq Member
    BY <1>11, <2>1 DEF EndActivation, Unconfirmed, TypeOK
  <2> QED
    BY <1>11, <2>2, EndedJob DEF EndActivation, TypeOK
<1>12. ASSUME NEW h \in Handler, EndPasswordChange(h) PROVE TypeOK'
  BY <1>12, EndedJob DEF EndPasswordChange, history, TypeOK
<1>13. ASSUME NEW h \in Handler, EndSave(h) PROVE TypeOK'
  <2>1. job[h] # None /\ job[h].call.who \in Member
    BY <1>13, JobTyped DEF EndSave, Doing
  <2> QED
    BY <1>13, <2>1, EndedJob DEF EndSave, TypeOK
<1>14. ASSUME NEW h \in Handler, Crash(h) PROVE TypeOK'
  <2>1. job[h] # None /\ job[h].call \in Calls /\ job[h].call.who \in Member
    BY <1>14, JobTyped DEF Crash
  <2>2. late' \subseteq Calls /\ unsure' \subseteq Member /\ warned' \subseteq Member
    BY <1>14, <2>1 DEF Crash, Outlives, Unconfirmed, TypeOK
  <2> QED
    BY <1>14, <2>2, EndedJob DEF Crash, TypeOK
<1>15. ASSUME NEW h \in Handler, LockEvent(h) PROVE TypeOK'
  BY <1>15, MovedJob DEF LockEvent, Doing, history, TypeOK
<1>16. CASE UNCHANGED vars
  BY <1>16 DEF vars, TypeOK
<1> QED
  BY <1>1, <1>2, <1>3, <1>4, <1>5, <1>6, <1>7, <1>8, <1>9, <1>10, <1>11, <1>12,
     <1>13, <1>14, <1>15, <1>16 DEF Next
-------------------------------------------------------------------------------
(***************************************************************************)
(* A rejection is safe.                                                    *)
(***************************************************************************)

LEMMA AnswersAreSafe ==
  ASSUME TypeOK, RejectionsAreSafe, NEW h \in Handler, job[h] # None,
         NEW answer \in {"ok", "rejected", "error", "lost"}, NEW did \in BOOLEAN,
         did => answer # "rejected", Answered(h, answer, did)
  PROVE  RejectionsAreSafe'
<1>1. did => job'[h].verdict # "rejected"
  BY AnsweredJob, JobTyped, Verdicts DEF Told
<1> QED
  BY <1>1, AnsweredJob DEF RejectionsAreSafe

LEMMA SafeStep == TypeOK /\ RejectionsAreSafe /\ [Next]_vars => RejectionsAreSafe'
<1> SUFFICES ASSUME TypeOK, RejectionsAreSafe, [Next]_vars PROVE RejectionsAreSafe'
  OBVIOUS
<1>1. CASE job' = job
  BY <1>1 DEF RejectionsAreSafe
<1>2. ASSUME NEW h \in Handler, NEW m \in Member,
             BeginActivation(h, m) \/ BeginPasswordChange(h, m)
      PROVE  RejectionsAreSafe'
  BY <1>2, CallTyped, StartedJob
     DEF BeginActivation, BeginPasswordChange, RejectionsAreSafe
<1>3. ASSUME NEW h \in Handler, NEW m \in Member, NEW n \in Name, ReadProfile(h, m, n)
      PROVE  RejectionsAreSafe'
  BY <1>3, CallTyped, StartedJob DEF ReadProfile, RejectionsAreSafe
<1>4. ASSUME NEW h \in Handler, WriteProfile(h) \/ LockEvent(h) PROVE RejectionsAreSafe'
  BY <1>4, MovedJob, EndedJob DEF WriteProfile, LockEvent, Doing, RejectionsAreSafe
<1>5. ASSUME NEW h \in Handler, End(h) PROVE RejectionsAreSafe'
  BY <1>5, EndedJob DEF RejectionsAreSafe
<1>6. ASSUME NEW h \in Handler, NEW q \in Member, DirectoryActs(h, q)
      PROVE  RejectionsAreSafe'
  BY <1>6, AnswersAreSafe DEF DirectoryActs
<1>7. ASSUME NEW h \in Handler, DirectoryRefuses(h) \/ GiveUp(h) PROVE RejectionsAreSafe'
  BY <1>7, AnswersAreSafe DEF DirectoryRefuses, GiveUp
<1> QED
  BY <1>1, <1>2, <1>3, <1>4, <1>5, <1>6, <1>7
     DEF Next, vars, FirstLogin, LateCall, RefuseProfile, EndActivation,
         EndPasswordChange, EndSave, Crash
-------------------------------------------------------------------------------
(***************************************************************************)
(* Activations are accounted for.                                          *)
(***************************************************************************)

ActivationsTold == TookIsTold /\ LateIsTold /\ ToldIsTrue

\* A request that has no activation to report is of no concern here.
LEMMA QuietlyTold ==
  ASSUME ActivationsTold, NEW h \in Handler,
         \A g \in Handler \ {h} : job'[g] = job[g],
         \A m \in Member : \A verdicts : ~ActivationTold(h, m, verdicts),
         \A m \in Member : \A verdicts : ~ActivationTold(h, m, verdicts)',
         late \subseteq Calls, took \subseteq Member,
         UNCHANGED <<late, took, unsure, receipts>>
  PROVE  ActivationsTold'
<1>1. \A g \in Handler, m \in Member : \A verdicts :
        ActivationTold(g, m, verdicts)' <=> ActivationTold(g, m, verdicts)
  <2>1. ASSUME NEW g \in Handler \ {h}, NEW m \in Member, NEW verdicts
        PROVE  ActivationTold(g, m, verdicts)' <=> ActivationTold(g, m, verdicts)
    BY <2>1 DEF ActivationTold, Doing
  <2> QED
    BY <2>1
<1>2. \A call \in late : call.who \in Member
  BY DEF Calls
<1>3. TookIsTold'
  BY <1>1 DEF ActivationsTold, TookIsTold
<1>4. LateIsTold'
  BY <1>1, <1>2 DEF ActivationsTold, LateIsTold
<1>5. ToldIsTrue'
  BY <1>1 DEF ActivationsTold, ToldIsTrue
<1> QED
  BY <1>3, <1>4, <1>5 DEF ActivationsTold

\* What the other requests report stays.
LEMMA OthersTold ==
  ASSUME NEW h \in Handler, \A g \in Handler \ {h} : job'[g] = job[g]
  PROVE  \A g \in Handler \ {h}, m \in Member : \A verdicts :
           ActivationTold(g, m, verdicts)' <=> ActivationTold(g, m, verdicts)
<1> SUFFICES ASSUME NEW g \in Handler \ {h}, NEW m \in Member, NEW verdicts
             PROVE  ActivationTold(g, m, verdicts)' <=> ActivationTold(g, m, verdicts)
  OBVIOUS
<1> QED
  BY DEF ActivationTold, Doing

\* An answer that came: what took effect is told or not confirmed, and what is
\* told took effect.
LEMMA AnswersAreTold ==
  ASSUME TypeOK, ActivationsTold, NEW h \in Handler, job[h] # None,
         job[h].stage = "calling",
         NEW answer \in {"ok", "rejected", "error", "lost"}, NEW did \in BOOLEAN,
         Answered(h, answer, did),
         took' \subseteq Member, took \subseteq took',
         \A m \in took' \ took :
           job[h].call.op = "activate" /\ job[h].call.who = m /\ answer # "rejected",
         answer = "ok" /\ job[h].call.op = "activate" => job[h].call.who \in took',
         late' \subseteq Calls,
         \A call \in late' \ late :
           call = job[h].call /\ call.op # "save" /\ answer = "lost",
         UNCHANGED <<unsure, receipts>>
  PROVE  ActivationsTold'
<1>1. /\ job[h].call \in Calls /\ job[h].call.who \in Member
      /\ job'[h] # None /\ job'[h].call = job[h].call
      /\ \A g \in Handler \ {h} : job'[g] = job[g]
      /\ Told(job'[h], job[h].call.op, answer)
  BY AnsweredJob, JobTyped
<1>2. \A g \in Handler \ {h}, m \in Member : \A verdicts :
        ActivationTold(g, m, verdicts)' <=> ActivationTold(g, m, verdicts)
  BY <1>1, OthersTold
<1>3. \A m \in Member : \A verdicts : ~ActivationTold(h, m, verdicts)
  BY DEF ActivationTold, Doing
<1>4. \A m \in Member : \A verdicts :
        ActivationTold(h, m, verdicts)' <=>
          /\ job[h].call.op = "activate" /\ job[h].call.who = m
          /\ ActivationVerdict(answer) \in verdicts
  BY <1>1 DEF ActivationTold, Doing, Told
<1>5. TookIsTold'
  <2> SUFFICES ASSUME NEW m \in took' \ (receipts \cup unsure)
               PROVE  \E g \in Handler : ActivationTold(g, m, {"ok", "uncertain"})'
    BY DEF TookIsTold
  <2>1. CASE m \in took
    BY <2>1, <1>2, <1>3 DEF ActivationsTold, TookIsTold
  <2>2. CASE m \notin took
    BY <2>2, <1>4, Verdicts DEF ActivationVerdict
  <2> QED
    BY <2>1, <2>2
<1>6. LateIsTold'
  <2> SUFFICES ASSUME NEW call \in late'
               PROVE  /\ call.op # "save"
                      /\ call.op = "activate" =>
                           \/ call.who \in unsure
                           \/ \E g \in Handler : ActivationTold(g, call.who, {"uncertain"})'
    BY DEF LateIsTold
  <2>1. call.who \in Member
    BY DEF Calls
  <2>2. CASE call \in late
    BY <2>1, <2>2, <1>2, <1>3 DEF ActivationsTold, LateIsTold
  <2>3. CASE call \notin late
    BY <2>1, <2>3, <1>4, Verdicts
  <2> QED
    BY <2>2, <2>3
<1>7. ToldIsTrue'
  <2>1. receipts' \cap New \subseteq took'
    BY DEF ActivationsTold, ToldIsTrue
  <2>2. ASSUME NEW m \in Member, ActivationTold(h, m, {"ok"})' PROVE m \in took'
    BY <2>2, <1>4, Verdicts
  <2>3. ASSUME NEW g \in Handler \ {h}, NEW m \in Member, ActivationTold(g, m, {"ok"})'
        PROVE  m \in took'
    BY <2>3, <1>2 DEF ActivationsTold, ToldIsTrue
  <2> QED
    BY <2>1, <2>2, <2>3 DEF ToldIsTrue
<1> QED
  BY <1>5, <1>6, <1>7 DEF ActivationsTold

LEMMA ToldStart == Init => ActivationsTold
BY IdentityAssumption
   DEF Init, ActivationsTold, TookIsTold, LateIsTold, ToldIsTrue, ActivationTold, Doing

LEMMA ToldStep ==
  TypeOK /\ TypeOK' /\ ActivationsTold /\ [Next]_vars => ActivationsTold'
<1> SUFFICES ASSUME TypeOK, TypeOK', ActivationsTold, [Next]_vars PROVE ActivationsTold'
  OBVIOUS
<1>0. late \subseteq Calls /\ late' \subseteq Calls
      /\ took \subseteq Member /\ took' \subseteq Member
  BY DEF TypeOK
<1>1. CASE UNCHANGED <<job, late, took, unsure, receipts>>
  BY <1>1 DEF ActivationsTold, TookIsTold, LateIsTold, ToldIsTrue, ActivationTold, Doing
<1>2. ASSUME NEW call \in late, LateCall(call) PROVE ActivationsTold'
  <2>1. call \in Calls /\ call.op # "save"
    BY <1>0 DEF ActivationsTold, LateIsTold
  <2>2. /\ UNCHANGED <<job, unsure, receipts>> /\ late' \subseteq late
        /\ took \subseteq took'
        /\ \A m \in took' \ took : call.op = "activate" /\ m = call.who
    BY <1>2 DEF LateCall, Acts
  <2>3. \A g \in Handler, m \in Member : \A verdicts :
          ActivationTold(g, m, verdicts)' <=> ActivationTold(g, m, verdicts)
    BY <2>2 DEF ActivationTold, Doing
  <2>4. \A m \in Member, g \in Handler :
          ActivationTold(g, m, {"uncertain"}) => ActivationTold(g, m, {"ok", "uncertain"})
    BY DEF ActivationTold
  <2>5. TookIsTold'
    BY <2>2, <2>3, <2>4, <1>0 DEF ActivationsTold, TookIsTold, LateIsTold
  <2>6. LateIsTold'
    <3>1. \A c \in late : c.who \in Member
      BY <1>0 DEF Calls
    <3> QED
      BY <3>1, <2>2, <2>3 DEF ActivationsTold, LateIsTold
  <2>7. ToldIsTrue'
    BY <2>2, <2>3 DEF ActivationsTold, ToldIsTrue
  <2> QED
    BY <2>5, <2>6, <2>7 DEF ActivationsTold
<1>3. ASSUME NEW h \in Handler, NEW m \in Member,
             BeginActivation(h, m) \/ BeginPasswordChange(h, m)
      PROVE  ActivationsTold'
  <2>1. job[h] = None /\ UNCHANGED <<late, took, unsure, receipts>>
    BY <1>3 DEF BeginActivation, BeginPasswordChange, history
  <2>2. job'[h].stage # "answered" /\ \A g \in Handler \ {h} : job'[g] = job[g]
    BY <1>3, CallTyped, StartedJob DEF BeginActivation, BeginPasswordChange
  <2> QED
    BY <1>0, <2>1, <2>2, QuietlyTold DEF ActivationTold, Doing
<1>4. ASSUME NEW h \in Handler, NEW m \in Member, NEW n \in Name, ReadProfile(h, m, n)
      PROVE  ActivationsTold'
  <2>1. job[h] = None /\ UNCHANGED <<late, took, unsure, receipts>>
    BY <1>4 DEF ReadProfile
  <2>2. job'[h].stage = "read" /\ \A g \in Handler \ {h} : job'[g] = job[g]
    BY <1>4, CallTyped, StartedJob DEF ReadProfile
  <2> QED
    BY <1>0, <2>1, <2>2, QuietlyTold DEF ActivationTold, Doing
<1>5. ASSUME NEW h \in Handler, WriteProfile(h) PROVE ActivationsTold'
  <2>1. job[h] # None /\ job[h].call.op = "save"
        /\ UNCHANGED <<late, took, unsure, receipts>>
    BY <1>5 DEF WriteProfile, Doing, history
  <2>2. /\ job'[h] = None \/ job'[h].call = job[h].call
        /\ \A g \in Handler \ {h} : job'[g] = job[g]
    BY <1>5, <2>1, MovedJob, EndedJob DEF WriteProfile
  <2> QED
    BY <1>0, <2>1, <2>2, QuietlyTold DEF ActivationTold, Doing
<1>6. ASSUME NEW h \in Handler,
             RefuseProfile(h) \/ EndPasswordChange(h) \/ EndSave(h)
      PROVE  ActivationsTold'
  <2>1. job[h] # None /\ job[h].call.op # "activate" /\ End(h)
        /\ UNCHANGED <<late, took, unsure, receipts>>
    BY <1>6 DEF RefuseProfile, EndPasswordChange, EndSave, Doing, history
  <2> QED
    BY <1>0, <2>1, EndedJob, QuietlyTold DEF ActivationTold, Doing
<1>7. ASSUME NEW h \in Handler, NEW q \in Member, DirectoryActs(h, q)
      PROVE  ActivationsTold'
  <2>1. /\ job[h] # None /\ job[h].stage = "calling"
        /\ UNCHANGED <<late, unsure, receipts>>
        /\ took' = IF job[h].call.op = "activate" THEN took \cup {job[h].call.who} ELSE took
    BY <1>7 DEF DirectoryActs, Acts
  <2>2. PICK answer \in {"ok", "error", "lost"} : Answered(h, answer, TRUE)
    BY <1>7 DEF DirectoryActs
  <2> QED
    BY <1>0, <2>1, <2>2, AnswersAreTold
<1>8. ASSUME NEW h \in Handler, DirectoryRefuses(h) PROVE ActivationsTold'
  <2>1. /\ job[h] # None /\ job[h].stage = "calling"
        /\ UNCHANGED <<late, took, unsure, receipts>>
    BY <1>8 DEF DirectoryRefuses, history
  <2>2. PICK answer \in {"rejected", "error", "lost"} : Answered(h, answer, FALSE)
    BY <1>8 DEF DirectoryRefuses
  <2> QED
    BY <1>0, <2>1, <2>2, AnswersAreTold
<1>9. ASSUME NEW h \in Handler, GiveUp(h) PROVE ActivationsTold'
  <2>1. /\ job[h] # None /\ job[h].stage = "calling"
        /\ UNCHANGED <<took, unsure, receipts>>
        /\ Answered(h, "lost", FALSE)
        /\ \A call \in late' \ late : call = job[h].call /\ call.op # "save"
    BY <1>9 DEF GiveUp, Outlives, history
  <2> QED
    BY <1>0, <2>1, AnswersAreTold
<1>10. ASSUME NEW h \in Handler, EndActivation(h) PROVE ActivationsTold'
  <2> DEFINE m == job[h].call.who
  <2>1. /\ job[h] # None /\ m \in Member /\ job[h].call.op = "activate"
        /\ job[h].stage = "answered" /\ UNCHANGED <<late, took>>
    BY <1>10, JobTyped DEF EndActivation, Doing
  <2>2. job'[h] = None /\ \A g \in Handler \ {h} : job'[g] = job[g]
    BY <1>10, EndedJob DEF EndActivation
  <2>3. \A q \in Member : \A verdicts : ActivationTold(h, q, verdicts) <=>
                                      q = m /\ job[h].verdict \in verdicts
    BY <2>1 DEF ActivationTold, Doing
  <2>4. \A g \in Handler \ {h}, q \in Member : \A verdicts :
          ActivationTold(g, q, verdicts)' <=> ActivationTold(g, q, verdicts)
    BY <2>2, OthersTold
  <2>5. \/ job[h].verdict = "ok" /\ receipts' = receipts \cup {m} /\ unsure' = unsure
        \/ /\ job[h].verdict \in {"ok", "uncertain"} /\ unsure' = unsure \cup {m}
           /\ receipts' = receipts
        \/ job[h].verdict = "rejected" /\ receipts' = receipts /\ unsure' = unsure
    BY <1>10, <2>1 DEF EndActivation, Unconfirmed
  <2>6. TookIsTold'
    BY <1>0, <2>1, <2>3, <2>4, <2>5 DEF ActivationsTold, TookIsTold
  <2>7. LateIsTold'
    <3>1. \A c \in late : c.who \in Member
      BY <1>0 DEF Calls
    <3> QED
      BY <3>1, <2>1, <2>3, <2>4, <2>5 DEF ActivationsTold, LateIsTold
  <2>8. ToldIsTrue'
    <3>1. \A q \in Member : \A verdicts : ~ActivationTold(h, q, verdicts)'
      BY <2>2 DEF ActivationTold, Doing
    <3>2. receipts' \cap New \subseteq took
      BY <2>1, <2>3, <2>5 DEF ActivationsTold, ToldIsTrue
    <3> QED
      BY <3>1, <3>2, <2>1, <2>4 DEF ActivationsTold, ToldIsTrue
  <2> QED
    BY <2>6, <2>7, <2>8 DEF ActivationsTold
<1>11. ASSUME NEW h \in Handler, Crash(h) PROVE ActivationsTold'
  <2> DEFINE m == job[h].call.who
  <2>1. /\ job[h] # None /\ m \in Member /\ UNCHANGED <<took, receipts>>
        /\ unsure' = IF job[h].call.op = "activate" THEN unsure \cup {m} ELSE unsure
        /\ \A c \in late' \ late : c = job[h].call /\ c.op # "save"
    BY <1>11, JobTyped DEF Crash, Unconfirmed, Outlives
  <2>2. job'[h] = None /\ \A g \in Handler \ {h} : job'[g] = job[g]
    BY <1>11, EndedJob DEF Crash
  <2>3. \A q \in Member : \A verdicts : ActivationTold(h, q, verdicts) =>
                                      q = m /\ job[h].call.op = "activate"
    BY DEF ActivationTold, Doing
  <2>4. \A g \in Handler \ {h}, q \in Member : \A verdicts :
          ActivationTold(g, q, verdicts)' <=> ActivationTold(g, q, verdicts)
    BY <2>2, OthersTold
  <2>5. TookIsTold'
    BY <1>0, <2>1, <2>3, <2>4 DEF ActivationsTold, TookIsTold
  <2>6. LateIsTold'
    <3>1. \A c \in late' : c.who \in Member
      BY <1>0 DEF Calls
    <3> QED
      BY <3>1, <2>1, <2>3, <2>4 DEF ActivationsTold, LateIsTold
  <2>7. ToldIsTrue'
    <3>1. \A q \in Member : \A verdicts : ~ActivationTold(h, q, verdicts)'
      BY <2>2 DEF ActivationTold, Doing
    <3> QED
      BY <3>1, <2>1, <2>4 DEF ActivationsTold, ToldIsTrue
  <2> QED
    BY <2>5, <2>6, <2>7 DEF ActivationsTold
<1>12. ASSUME NEW h \in Handler, LockEvent(h) PROVE ActivationsTold'
  <2>1. /\ job[h] # None /\ job[h].stage = "waiting" /\ Goes(h, "calling")
        /\ UNCHANGED <<late, took, unsure, receipts>>
    BY <1>12 DEF LockEvent, Doing, history
  <2>2. job'[h].stage = "calling" /\ \A g \in Handler \ {h} : job'[g] = job[g]
    BY <2>1, <1>0, MovedJob
  <2> QED
    BY <1>0, <2>1, <2>2, QuietlyTold DEF ActivationTold, Doing
<1> QED
  BY <1>1, <1>2, <1>3, <1>4, <1>5, <1>6, <1>7, <1>8, <1>9, <1>10, <1>11, <1>12
     DEF Next, vars, FirstLogin, history
-------------------------------------------------------------------------------
(***************************************************************************)
(* Names agree.                                                            *)
(***************************************************************************)

LEMMA RenamesKeepNamesApart ==
  ASSUME TypeOK, OneAccountPerName, NEW call \in Calls, NEW q \in Member,
         Allowed(call, q), Acts(call, q)
  PROVE  OneAccountPerName'
<1>1. CASE call.op = "save"
  <2>1. \A r \in Member \ {q} : sam[r] # call.want
    BY <1>1 DEF Allowed, MayRename
  <2>2. sam'[q] = call.want /\ \A r \in Member \ {q} : sam'[r] = sam[r]
    BY <1>1 DEF Acts, TypeOK
  <2> QED
    BY <2>1, <2>2 DEF OneAccountPerName
<1>2. CASE call.op # "save"
  BY <1>2 DEF Acts, OneAccountPerName
<1> QED
  BY <1>1, <1>2

LEMMA ApartStep == TypeOK /\ OneAccountPerName /\ [Next]_vars => OneAccountPerName'
<1> SUFFICES ASSUME TypeOK, OneAccountPerName, [Next]_vars PROVE OneAccountPerName'
  OBVIOUS
<1>1. CASE sam' = sam
  BY <1>1 DEF OneAccountPerName
<1>2. ASSUME NEW call \in late, LateCall(call) PROVE OneAccountPerName'
  <2>1. call \in Calls
    BY DEF TypeOK
  <2> QED
    BY <1>1, <1>2, <2>1, RenamesKeepNamesApart DEF LateCall
<1>3. ASSUME NEW h \in Handler, NEW q \in Member, DirectoryActs(h, q)
      PROVE  OneAccountPerName'
  BY <1>3, JobTyped, RenamesKeepNamesApart DEF DirectoryActs
<1> QED
  BY <1>1, <1>2, <1>3
     DEF Next, vars, FirstLogin, BeginActivation, LockEvent, BeginPasswordChange, ReadProfile,
         WriteProfile, RefuseProfile, DirectoryRefuses, GiveUp, EndActivation,
         EndPasswordChange, EndSave, Crash

\* NamesAreTrue without its condition.
Saves(h) == job[h] # None /\ job[h].call.op = "save"

NamesTrue ==
  /\ \A m \in Member : name[m] \in {None, sam[m]} \/ Saving(m)
  /\ NewAreUnchanged
  /\ OneSave
  /\ \A h \in Handler : SaveAgrees(h)

LEMMA NamesTrueMeans == NamesAreTrue <=> (Trusted => NamesTrue)
BY DEF NamesAreTrue, NamesTrue, NamesAgree

\* A request that saves nothing is of no concern here.
LEMMA QuietNames ==
  ASSUME NamesTrue, NEW h \in Handler,
         \A g \in Handler \ {h} : job'[g] = job[g],
         ~Saves(h), ~Saves(h)', UNCHANGED <<name, sam>>
  PROVE  NamesTrue'
<1>1. \A g \in Handler : Saves(g)' <=> Saves(g)
  BY DEF Saves
<1>2. \A g \in Handler : Saves(g) => job'[g] = job[g]
  OBVIOUS
<1>3. \A m \in Member : Saving(m)' <=> Saving(m)
  BY <1>1, <1>2 DEF Saving, Saves
<1>4. OneSave'
  BY <1>1, <1>2 DEF NamesTrue, OneSave, Saves
<1>5. \A g \in Handler : SaveAgrees(g)'
  BY <1>1, <1>2 DEF NamesTrue, SaveAgrees, Saves
<1> QED
  BY <1>3, <1>4, <1>5 DEF NamesTrue, NewAreUnchanged

\* The answer to a save says that it arrived, or is taken for a failure.
LEMMA AnswersOfSaves ==
  ASSUME TypeOK, NamesTrue, NEW h \in Handler, Saves(h), job[h].stage = "calling",
         NEW answer \in {"ok", "rejected", "error", "lost"}, NEW did \in BOOLEAN,
         Answered(h, answer, did), UNCHANGED name,
         \A q \in Member \ {job[h].call.who} : sam'[q] = sam[q],
         \/ sam'[job[h].call.who] = job[h].call.want
         \/ answer # "ok" /\ UNCHANGED sam
  PROVE  NamesTrue'
<1> DEFINE m == job[h].call.who
<1>1. m \in Member /\ job[h].call \in Calls
  BY JobTyped DEF Saves
<1>2. /\ job'[h] # None /\ job'[h].call = job[h].call /\ job'[h].stage = "answered"
      /\ job'[h].verdict = SaveVerdict(answer)
      /\ \A g \in Handler \ {h} : job'[g] = job[g]
  BY AnsweredJob DEF Saves, Told
<1>3. \A g \in Handler : Saves(g)' <=> Saves(g)
  BY <1>2 DEF Saves
<1>4. \A q \in Member : Saving(q)' <=> Saving(q)
  BY <1>2, <1>3 DEF Saving, Saves
<1>5. OneSave'
  BY <1>2, <1>3 DEF NamesTrue, OneSave, Saves
<1>6. Saving(m) /\ name[m] # None /\ name[m] = job[h].call.want
  BY DEF NamesTrue, SaveAgrees, Saving, Saves
<1>7. SaveAgrees(h)'
  <2>1. SaveVerdict(answer) = "ok" => sam'[m] = job[h].call.want
    BY Verdicts
  <2> QED
    BY <1>2, <1>6, <2>1 DEF SaveAgrees, Warns
<1>8. \A g \in Handler \ {h} : SaveAgrees(g)'
  <2> SUFFICES ASSUME NEW g \in Handler \ {h}, Saves(g) PROVE SaveAgrees(g)'
    BY <1>2 DEF SaveAgrees, Saves
  <2>1. job[g].call.who # m /\ job[g].call.who \in Member
    BY JobTyped DEF NamesTrue, OneSave, Saves
  <2>2. sam'[job[g].call.who] = sam[job[g].call.who]
    BY <2>1
  <2> QED
    BY <1>2, <2>2 DEF NamesTrue, SaveAgrees, Saves
<1>9. NewAreUnchanged'
  BY <1>6 DEF NamesTrue, NewAreUnchanged
<1>10. \A q \in Member : name'[q] \in {None, sam'[q]} \/ Saving(q)'
  BY <1>4, <1>6 DEF NamesTrue
<1> QED
  BY <1>5, <1>7, <1>8, <1>9, <1>10 DEF NamesTrue

\* A save that ends with the name where it is to be.
LEMMA EndsOfSaves ==
  ASSUME TypeOK, NamesTrue, NEW h \in Handler, Saves(h), End(h), UNCHANGED sam,
         \A q \in Member \ {job[h].call.who} : name'[q] = name[q],
         name'[job[h].call.who] = sam[job[h].call.who],
         sam[job[h].call.who] # None
  PROVE  NamesTrue'
<1> DEFINE m == job[h].call.who
<1>1. m \in Member
  BY JobTyped DEF Saves
<1>2. job'[h] = None /\ \A g \in Handler \ {h} : job'[g] = job[g]
  BY EndedJob
<1>3. \A q \in Member \ {m} : Saving(q)' <=> Saving(q)
  BY <1>2 DEF Saving, Saves
<1>4. OneSave'
  BY <1>2 DEF NamesTrue, OneSave, Saves
<1>5. \A g \in Handler : SaveAgrees(g)'
  <2> SUFFICES ASSUME NEW g \in Handler \ {h}, Saves(g) PROVE SaveAgrees(g)'
    BY <1>2 DEF SaveAgrees, Saves
  <2>1. job[g].call.who # m /\ job[g].call.who \in Member
    BY JobTyped DEF NamesTrue, OneSave, Saves
  <2>2. name'[job[g].call.who] = name[job[g].call.who]
    BY <2>1
  <2> QED
    BY <1>2, <2>2 DEF NamesTrue, SaveAgrees, Saves
<1>6. NewAreUnchanged'
  BY DEF NamesTrue, NewAreUnchanged
<1>7. \A q \in Member : name'[q] \in {None, sam'[q]} \/ Saving(q)'
  BY <1>3 DEF NamesTrue
<1> QED
  BY <1>4, <1>5, <1>6, <1>7 DEF NamesTrue

\* A directory operation of a save finds its member's own account.
LEMMA OwnAccount ==
  ASSUME TypeOK, OneAccountPerName, NamesTrue, NEW h \in Handler, NEW q \in Member,
         job[h] # None, job[h].stage = "calling", Allowed(job[h].call, q)
  PROVE  q = job[h].call.who
<1>1. job[h].call.who \in Member /\ job[h].call.op \in {"activate", "password", "save"}
  BY JobTyped
<1>2. CASE job[h].call.op = "save"
  <2>1. sam[job[h].call.who] = job[h].call.target
    BY <1>2 DEF NamesTrue, SaveAgrees
  <2>2. sam[q] = job[h].call.target
    BY DEF Allowed, Found
  <2> QED
    BY <1>1, <2>1, <2>2 DEF OneAccountPerName
<1>3. CASE job[h].call.op = "activate"
  BY <1>3 DEF Allowed, MayActivate
<1>4. CASE job[h].call.op = "password"
  BY <1>4 DEF Allowed, MayChangePassword
<1> QED
  BY <1>1, <1>2, <1>3, <1>4

LEMMA NamesStart == Init => OneAccountPerName /\ NamesAreTrue
<1> SUFFICES ASSUME Init PROVE OneAccountPerName /\ NamesAreTrue
  OBVIOUS
<1>1. OneAccountPerName
  BY IdentityAssumption DEF Init, OneAccountPerName
<1>2. NamesTrue
  <2>1. \A m \in Member : name[m] \in {None, sam[m]} /\ sam[m] = SignupName[m]
    BY DEF Init
  <2>2. \A h \in Handler : job[h] = None
    BY DEF Init
  <2> QED
    BY <2>1, <2>2 DEF NamesTrue, NewAreUnchanged, OneSave, SaveAgrees
<1> QED
  BY <1>1, <1>2, NamesTrueMeans

LEMMA NamesStep ==
  TypeOK /\ TypeOK' /\ LateIsTold /\ OneAccountPerName /\ NamesAreTrue /\ [Next]_vars
    => NamesAreTrue'
<1> SUFFICES ASSUME TypeOK, TypeOK', LateIsTold, OneAccountPerName, NamesAreTrue,
                    [Next]_vars, Trusted'
             PROVE  NamesTrue'
  BY NamesTrueMeans, PTL
<1>0. Trusted
  BY DEF Trusted, Next, vars, history, FirstLogin, LateCall, BeginActivation, LockEvent,
         BeginPasswordChange, ReadProfile, WriteProfile, RefuseProfile, DirectoryActs,
         DirectoryRefuses, GiveUp, EndActivation, EndPasswordChange, EndSave, Crash,
         TypeOK
<1>1. NamesTrue
  BY <1>0, NamesTrueMeans
<1>2. CASE UNCHANGED <<name, sam, job>>
  BY <1>1, <1>2 DEF NamesTrue, NewAreUnchanged, OneSave, SaveAgrees, Saving
<1>3. ASSUME NEW m \in Member, FirstLogin(m) PROVE NamesTrue'
  <2>1. /\ name[m] = None /\ name'[m] = SignupName[m] /\ UNCHANGED <<sam, job>>
        /\ \A q \in Member \ {m} : name'[q] = name[q]
    BY <1>3 DEF FirstLogin, TypeOK
  <2>2. sam[m] = SignupName[m] /\ sam[m] # None
    BY <1>1, <2>1, IdentityAssumption DEF NamesTrue, NewAreUnchanged
  <2>3. \A h \in Handler : SaveAgrees(h)'
    <3> SUFFICES ASSUME NEW h \in Handler, Saves(h) PROVE SaveAgrees(h)'
      BY <2>1 DEF SaveAgrees, Saves
    <3>1. job[h].call.who \in Member \ {m}
      BY <1>1, <2>1, JobTyped DEF NamesTrue, SaveAgrees, Saves
    <3> QED
      BY <1>1, <2>1, <3>1 DEF NamesTrue, SaveAgrees, Saves
  <2> QED
    BY <1>1, <2>1, <2>2, <2>3 DEF NamesTrue, NewAreUnchanged, OneSave, Saving
<1>4. ASSUME NEW call \in late, LateCall(call) PROVE UNCHANGED <<name, sam, job>>
  BY <1>4 DEF LateCall, Acts, LateIsTold
<1>5. ASSUME NEW h \in Handler, NEW m \in Member,
             BeginActivation(h, m) \/ BeginPasswordChange(h, m)
      PROVE  NamesTrue'
  <2>1. job[h] = None /\ UNCHANGED <<name, sam>>
    BY <1>5 DEF BeginActivation, BeginPasswordChange
  <2>2. /\ job'[h].call.op # "save" /\ \A g \in Handler \ {h} : job'[g] = job[g]
    BY <1>5, CallTyped, StartedJob
       DEF BeginActivation, BeginPasswordChange, Request, Call
  <2> QED
    BY <1>1, <2>1, <2>2, QuietNames DEF Saves
<1>6. ASSUME NEW h \in Handler, NEW m \in Member, NEW n \in Name, ReadProfile(h, m, n)
      PROVE  NamesTrue'
  <2> DEFINE call == Call("save", m, Target(m, n), n)
  <2>1. /\ job[h] = None /\ name[m] # None /\ UNCHANGED <<name, sam>>
        /\ Start(h, "read", call) /\ ~Saving(m)
    BY <1>6 DEF ReadProfile, Trusted
  <2>2. call \in Calls /\ call.op = "save" /\ call.who = m
        /\ call.target = name[m] /\ call.want = n
    BY <2>1, CallTyped DEF Call, Target
  <2> HIDE DEF call
  <2>3. /\ job'[h] # None /\ job'[h].call = call /\ job'[h].stage = "read"
        /\ \A g \in Handler \ {h} : job'[g] = job[g]
    BY <2>1, <2>2, StartedJob
  <2>4. sam[m] = name[m]
    BY <1>1, <2>1 DEF NamesTrue
  <2>5. \A q \in Member \ {m} : Saving(q)' <=> Saving(q)
    BY <2>1, <2>2, <2>3 DEF Saving
  <2>6. OneSave'
    <3>1. \A g \in Handler \ {h} : Saves(g) => job[g].call.who # m
      BY <2>1 DEF Saves, Saving
    <3> QED
      BY <1>1, <2>2, <2>3, <3>1 DEF NamesTrue, OneSave, Saves
  <2>7. SaveAgrees(h)'
    BY <2>1, <2>2, <2>3, <2>4 DEF SaveAgrees
  <2>8. \A g \in Handler \ {h} : SaveAgrees(g)'
    BY <1>1, <2>1, <2>3 DEF NamesTrue, SaveAgrees
  <2> QED
    BY <1>1, <2>1, <2>4, <2>5, <2>6, <2>7, <2>8 DEF NamesTrue, NewAreUnchanged
<1>7. ASSUME NEW h \in Handler, WriteProfile(h) PROVE NamesTrue'
  <2> DEFINE m == job[h].call.who
             n == job[h].call.want
  <2>1. /\ Saves(h) /\ job[h].stage = "read" /\ sam' = sam
        /\ m \in Member /\ n \in Name
    BY <1>7, JobTyped DEF WriteProfile, Doing, Saves
  <2>2. name'[m] = n /\ \A q \in Member \ {m} : name'[q] = name[q]
    BY <1>7, <2>1 DEF WriteProfile, TypeOK
  <2>3. name[m] = job[h].call.target /\ sam[m] = job[h].call.target
    BY <1>1, <2>1 DEF NamesTrue, SaveAgrees, Saves
  <2>4. CASE Goes(h, "calling")
    <3>1. /\ job'[h] # None /\ job'[h].call = job[h].call /\ job'[h].stage = "calling"
          /\ \A g \in Handler \ {h} : job'[g] = job[g]
      BY <2>1, <2>4, MovedJob DEF Saves
    <3>2. \A g \in Handler : Saves(g)' <=> Saves(g)
      BY <2>1, <3>1 DEF Saves
    <3>3. \A q \in Member : Saving(q)' <=> Saving(q)
      BY <3>1, <3>2 DEF Saving, Saves
    <3>4. OneSave'
      BY <1>1, <3>1, <3>2 DEF NamesTrue, OneSave, Saves
    <3>5. SaveAgrees(h)'
      BY <2>1, <2>2, <2>3, <3>1, IdentityAssumption DEF SaveAgrees
    <3>6. \A g \in Handler \ {h} : SaveAgrees(g)'
      <4> SUFFICES ASSUME NEW g \in Handler \ {h}, Saves(g) PROVE SaveAgrees(g)'
        BY <3>1 DEF SaveAgrees, Saves
      <4>1. job[g].call.who # m /\ job[g].call.who \in Member
        BY <1>1, <2>1, JobTyped DEF NamesTrue, OneSave, Saves
      <4> QED
        BY <1>1, <2>1, <2>2, <3>1, <4>1 DEF NamesTrue, SaveAgrees, Saves
    <3>7. Saving(m)
      BY <2>1 DEF Saving, Saves
    <3>8. NewAreUnchanged'
      BY <1>1, <2>1, <2>2, IdentityAssumption DEF NamesTrue, NewAreUnchanged
    <3>9. \A q \in Member : name'[q] \in {None, sam'[q]} \/ Saving(q)'
      BY <1>1, <2>1, <2>2, <3>3, <3>7 DEF NamesTrue
    <3> QED
      BY <3>4, <3>5, <3>6, <3>8, <3>9 DEF NamesTrue
  <2>5. CASE End(h) /\ n = job[h].call.target
    BY <1>1, <2>1, <2>2, <2>3, <2>5, EndsOfSaves, IdentityAssumption
  <2> QED
    BY <1>7, <2>4, <2>5 DEF WriteProfile, Changed
<1>8. ASSUME NEW h \in Handler, RefuseProfile(h) PROVE NamesTrue'
  <2>1. Saves(h) /\ job[h].stage = "read" /\ End(h) /\ UNCHANGED <<name, sam>>
        /\ job[h].call.who \in Member
    BY <1>8, JobTyped DEF RefuseProfile, Doing, Saves
  <2>2. name[job[h].call.who] = sam[job[h].call.who] /\ name[job[h].call.who] # None
    BY <1>1, <2>1 DEF NamesTrue, SaveAgrees, Saves
  <2> QED
    BY <1>1, <2>1, <2>2, EndsOfSaves
<1>9. ASSUME NEW h \in Handler, NEW q \in Member, DirectoryActs(h, q) PROVE NamesTrue'
  <2>1. /\ job[h] # None /\ job[h].stage = "calling" /\ Allowed(job[h].call, q)
        /\ Acts(job[h].call, q) /\ UNCHANGED name
    BY <1>9 DEF DirectoryActs
  <2>2. PICK answer \in {"ok", "error", "lost"} : Answered(h, answer, TRUE)
    BY <1>9 DEF DirectoryActs
  <2>3. q = job[h].call.who
    BY <1>1, <2>1, OwnAccount
  <2>4. CASE Saves(h)
    <3>1. sam'[q] = job[h].call.want /\ \A r \in Member \ {q} : sam'[r] = sam[r]
      BY <2>1, <2>4 DEF Acts, Saves, TypeOK
    <3>2. /\ sam'[job[h].call.who] = job[h].call.want
          /\ \A r \in Member \ {job[h].call.who} : sam'[r] = sam[r]
      BY <2>3, <3>1
    <3>3. answer \in {"ok", "rejected", "error", "lost"} /\ job[h].stage = "calling"
          /\ UNCHANGED name
      BY <2>1
    <3> QED
      BY <1>1, <2>2, <2>4, <3>2, <3>3, AnswersOfSaves
  <2>5. CASE ~Saves(h)
    <3>1. sam' = sam
      BY <2>1, <2>5 DEF Acts, Saves
    <3>2. job'[h].call = job[h].call /\ \A g \in Handler \ {h} : job'[g] = job[g]
      BY <2>1, <2>2, AnsweredJob
    <3> QED
      BY <1>1, <2>1, <2>5, <3>1, <3>2, QuietNames DEF Saves
  <2> QED
    BY <2>4, <2>5
<1>10. ASSUME NEW h \in Handler, DirectoryRefuses(h) \/ GiveUp(h) PROVE NamesTrue'
  <2>1. /\ job[h] # None /\ job[h].stage = "calling" /\ UNCHANGED <<name, sam>>
    BY <1>10 DEF DirectoryRefuses, GiveUp
  <2>2. PICK answer \in {"rejected", "error", "lost"} : Answered(h, answer, FALSE)
    BY <1>10 DEF DirectoryRefuses, GiveUp
  <2>3. CASE Saves(h)
    BY <1>1, <2>1, <2>2, <2>3, AnswersOfSaves
  <2>4. CASE ~Saves(h)
    <3>1. job'[h].call = job[h].call /\ \A g \in Handler \ {h} : job'[g] = job[g]
      BY <2>1, <2>2, AnsweredJob
    <3> QED
      BY <1>1, <2>1, <2>4, <3>1, QuietNames DEF Saves
  <2> QED
    BY <2>3, <2>4
<1>11. ASSUME NEW h \in Handler,
              EndActivation(h) \/ EndPasswordChange(h) \/ Crash(h)
       PROVE  NamesTrue'
  <2>1. End(h) /\ UNCHANGED <<name, sam>>
    BY <1>11 DEF EndActivation, EndPasswordChange, Crash
  <2>2. ~Saves(h)
    BY <1>11 DEF EndActivation, EndPasswordChange, Crash, Doing, Saves, Trusted
  <2>3. job'[h] = None /\ \A g \in Handler \ {h} : job'[g] = job[g]
    BY <2>1, EndedJob
  <2> QED
    BY <1>1, <2>1, <2>2, <2>3, QuietNames DEF Saves
<1>12. ASSUME NEW h \in Handler, EndSave(h) PROVE NamesTrue'
  <2>1. /\ Saves(h) /\ job[h].stage = "answered" /\ End(h) /\ UNCHANGED <<name, sam>>
        /\ job[h].call.who \in Member /\ ~Warns(job[h].verdict)
    BY <1>12, JobTyped DEF EndSave, Doing, Saves, Trusted
  <2>2. name[job[h].call.who] = sam[job[h].call.who] /\ name[job[h].call.who] # None
    BY <1>1, <2>1 DEF NamesTrue, SaveAgrees, Saves
  <2> QED
    BY <1>1, <2>1, <2>2, EndsOfSaves
<1>13. ASSUME NEW h \in Handler, LockEvent(h) PROVE NamesTrue'
  <2>1. /\ job[h] # None /\ job[h].call.op = "activate" /\ Goes(h, "calling")
        /\ UNCHANGED <<name, sam>>
    BY <1>13 DEF LockEvent, Doing
  <2>2. job'[h].call = job[h].call /\ \A g \in Handler \ {h} : job'[g] = job[g]
    BY <2>1, MovedJob
  <2> QED
    BY <1>1, <2>1, <2>2, QuietNames DEF Saves
<1> QED
  BY <1>2, <1>3, <1>4, <1>5, <1>6, <1>7, <1>8, <1>9, <1>10, <1>11, <1>12, <1>13
     DEF Next, vars
-------------------------------------------------------------------------------
(***************************************************************************)
(* The theorems.                                                           *)
(***************************************************************************)

\* Whatever the directory answers, and however late it acts, the portal is in a
\* state of its tables, its requests and the directory's accounts.
THEOREM IdentityTyped == Spec => []TypeOK
<1>1. Init => TypeOK
  BY TypedStart
<1>2. TypeOK /\ [Next]_vars => TypeOK'
  BY TypedStep
<1> QED
  BY <1>1, <1>2, PTL DEF Spec

\* The invariant: what was told of activations is true, accounts have names of
\* their own, and a save that was not warned of arrived.
THEOREM IdentityInvariant == Spec => []IInv
<1>1. Init => IInv
  <2>1. Init => RejectionsAreSafe
    BY DEF Init, RejectionsAreSafe
  <2> QED
    BY <2>1, TypedStart, ToldStart, NamesStart DEF IInv, ActivationsTold
<1>2. IInv /\ [Next]_vars => IInv'
  <2>1. IInv /\ [Next]_vars => TypeOK' /\ RejectionsAreSafe' /\ OneAccountPerName'
    BY TypedStep, SafeStep, ApartStep DEF IInv
  <2>2. IInv /\ [Next]_vars => ActivationsTold'
    BY <2>1, ToldStep DEF IInv, ActivationsTold
  <2>3. IInv /\ [Next]_vars => NamesAreTrue'
    BY <2>1, NamesStep DEF IInv
  <2> QED
    BY <2>1, <2>2, <2>3 DEF IInv, ActivationsTold
<1> QED
  BY <1>1, <1>2, PTL DEF Spec

\* A member who is told to check the input and try again has the password they
\* had: nothing the directory did is answered as rejected.
THEOREM RejectionsLeavePasswords == Spec => []RejectionsAreSafe
<1>1. IInv => RejectionsAreSafe
  BY DEF IInv
<1> QED
  BY <1>1, IdentityInvariant, PTL

\* No activation is lost and none is made up: a receipt stands for one that took
\* place, and one that took place has its receipt, or its member was told that it
\* is not confirmed, or its request is still under way.
THEOREM ActivationsAreNotLost == Spec => []ActivationsAreAccounted
<1>1. IInv => ActivationsAreAccounted
  BY DEF IInv, TypeOK, TookIsTold, ToldIsTrue, ActivationTold, Doing,
         ActivationsAreAccounted, EventLocked
<1> QED
  BY <1>1, IdentityInvariant, PTL

\* The directory knows every member by the portal's username until a save warned
\* its member or overlapped another of the same member.
THEOREM DirectoryFollowsNames == Spec => []NamesAgree
<1>1. IInv => NamesAgree
  BY DEF IInv, NamesAreTrue, NamesAgree
<1> QED
  BY <1>1, IdentityInvariant, PTL

\* Until then every call on the directory, whatever usernames were given up and
\* taken again meanwhile, acts on its own member's account.
THEOREM NobodyReachesAnother == Spec => OwnAccountOnly
<1>1. IInv /\ [Next]_vars =>
        [\A h \in Handler, q \in Member :
           Trusted /\ DirectoryActs(h, q) => q = job[h].call.who]_vars
  BY OwnAccount, NamesTrueMeans DEF IInv, DirectoryActs
<1> QED
  BY <1>1, IdentityInvariant, PTL DEF Spec, OwnAccountOnly
===============================================================================
