------------------------------ MODULE SignupForms ------------------------------
(***************************************************************************)
(* The signup form and what is answered on it.  Officers edit the          *)
(* questions in components/admin/field-editor.tsx, save them as versions   *)
(* and publish one (routes/(member)/dashboard/admin/forms).  One person    *)
(* signs up (routes/signup), officers edit and decide the signup           *)
(* (lib/signups/edit.ts), the first login turns its answers into a profile *)
(* (lib/auth-bootstrap.ts) and the member edits that (lib/profiles).       *)
(*                                                                         *)
(* A question has the key under which it is answered, a kind, its options  *)
(* and whether it is required.  Base fields are the same in every version  *)
(* and left out.  An answer is a word, one of the options, or blank; the   *)
(* kind "text" stands for all kinds that take a blank when not required.   *)
(***************************************************************************)
EXTENDS Naturals, Sequences, SequencesExt

CONSTANTS Officer,      \* officers who publish at the same time
          FirstForm,    \* the questions of the form first published
          MaxVersions,  \* bound on the versions saved
          MaxTouches,   \* bound on the changes made in the editor
          Absent        \* no job, no signup, no profile

VARIABLES forms,        \* form_schemas: the versions, in order
          last,         \* the version published last
          mixed,        \* that publication overlapped another
          publishing,   \* publishing[o]: o's publication
          editor,       \* the questions on the editor's page
          touches,      \* how often they were changed
          submission,   \* the row of signup_submissions
          sending,      \* a signup validated and not yet inserted
          profile,      \* the row of member_profiles
          storing       \* a profile validated and not yet written

intakeVars == <<submission, sending, profile, storing>>
formVars   == <<forms, last, mixed, publishing>>
formsVars  == <<formVars, editor, touches, intakeVars>>

Field == [key : Nat, kind : {"text", "select"}, options : BOOLEAN,
          required : BOOLEAN]

\* A row of form_schemas, and what a publication has read.
Entry == [fields : Seq(Field), status : {"draft", "published", "archived"}]
Publishing == [version : Nat, found : (SUBSET Nat) \cup {Absent}, overtaken : BOOLEAN]

ASSUME FormsAssumption == FirstForm \in Seq(Field)

Version   == DOMAIN forms
Published == {v \in Version : forms[v].status = "published"}

\* loadPublishedSignupForm: the latest of the published versions.
Served == Max(Published)

FormsInit == /\ forms = <<[fields |-> FirstForm, status |-> "published"]>>
             /\ last = 1
             /\ mixed = FALSE
             /\ publishing = [o \in Officer |-> Absent]
             /\ editor = FirstForm
             /\ touches = 0
             /\ submission = Absent
             /\ sending = Absent
             /\ profile = Absent
             /\ storing = Absent
--------------------------------------------------------------------------------
(***************************************************************************)
(* The editor of questions and the drafts.                                 *)
(***************************************************************************)

\* Nothing is edited that could not be saved any more.
MoreVersions == Len(forms) < MaxVersions

\* The page is loaded with the questions of the latest version.
OpenEditor == /\ MoreVersions
              /\ editor' = Last(forms).fields
              /\ UNCHANGED <<formVars, touches, intakeVars>>

Edited(fields) == /\ MoreVersions /\ touches < MaxTouches
                  /\ touches' = touches + 1
                  /\ editor' = fields
                  /\ UNCHANGED <<formVars, intakeVars>>

\* The key of a new question is its place, so it may repeat another's.
AddField == Edited(Append(editor, [key |-> Len(editor) + 1, kind |-> "text",
                                   options |-> FALSE, required |-> FALSE]))

RemoveField(i) == Edited(RemoveAt(editor, i))

MoveField(i) == /\ i < Len(editor)
                /\ Edited([editor EXCEPT ![i] = editor[i + 1],
                                         ![i + 1] = editor[i]])

\* Kind, options and the mark "required" are changed one at a time.
UpdateField(i) ==
  \/ \E kind \in {"text", "select"} \ {editor[i].kind} :
       Edited([editor EXCEPT ![i].kind = kind])
  \/ /\ editor[i].kind = "select"
     /\ Edited([editor EXCEPT ![i].options = ~@])
  \/ Edited([editor EXCEPT ![i].required = ~@])

\* useSaveDraft: the next version.  Of two at once one fails, on the key of
\* version numbers, and leaves nothing.
SaveDraft == /\ MoreVersions
             /\ forms' = Append(forms, [fields |-> editor, status |-> "draft"])
             /\ UNCHANGED <<last, mixed, publishing, editor, touches,
                            intakeVars>>
--------------------------------------------------------------------------------
(***************************************************************************)
(* Publication (usePublishSchema): a transaction at READ COMMITTED, whose  *)
(* statements each see what was committed when they began.                 *)
(***************************************************************************)

\* Its first statement finds the draft.
ReadDraft(o, v) ==
  /\ publishing[o] = Absent
  /\ forms[v].status = "draft"
  /\ publishing' = [publishing EXCEPT ![o] = [version |-> v, found |-> Absent,
                                              overtaken |-> FALSE]]
  /\ UNCHANGED <<forms, last, mixed, editor, touches, intakeVars>>

\* The second one finds the published versions to archive.  It waits for those
\* that another transaction has written, then leaves the ones not published
\* any more.
FindPublished(o) ==
  /\ publishing[o] # Absent
  /\ publishing[o].found = Absent
  /\ publishing' = [publishing EXCEPT ![o].found = Published]
  /\ UNCHANGED <<forms, last, mixed, editor, touches, intakeVars>>

\* Mutant: only the version that is served is archived.
Mut_Archived(found) == found \cap {Served}

Archived(found) == found \cap Published

\* The rest, which nobody sees before it commits.
CommitPublication(o) ==
  LET job == publishing[o] IN
  /\ job # Absent
  /\ job.found # Absent
  /\ forms' = [v \in Version |->
                 [forms[v] EXCEPT !.status =
                    IF v = job.version THEN "published"
                    ELSE IF v \in Archived(job.found) THEN "archived" ELSE @]]
  /\ last' = job.version
  /\ mixed' = job.overtaken
  /\ publishing' = [p \in Officer |->
       IF p = o THEN Absent
       ELSE IF publishing[p] # Absent /\ publishing[p].found # Absent
            THEN [publishing[p] EXCEPT !.overtaken = TRUE]
            ELSE publishing[p]]
  /\ UNCHANGED <<editor, touches, intakeVars>>
--------------------------------------------------------------------------------
(***************************************************************************)
(* What is posted and what is accepted (lib/forms/zod-compiler.ts).        *)
(***************************************************************************)

Keys(fields) == {fields[i].key : i \in DOMAIN fields}

\* Of two fields with one key the later one makes the rule.
Rule(fields, k) == fields[Max({i \in DOMAIN fields : fields[i].key = k})]

\* Compiling a choice without options throws.
Compiles(fields) == \A i \in DOMAIN fields :
                      fields[i].kind = "select" => fields[i].options

Answer == {"", "word", "option"}

\* compileField.  A choice is one of the options even when it is not required:
\* what the page posts for "Select..." is no option, and not absent.
Accepts(field, answer) ==
  IF field.kind = "text" THEN field.required => answer # ""
                         ELSE answer = "option"

\* The answers fit the questions; one that is absent was not required.  The rule
\* on graduation years is left out: it is the same in every version.
Fits(fields, answers) ==
  /\ Compiles(fields)
  /\ \A k \in Keys(fields) : IF k \in DOMAIN answers
                             THEN Accepts(Rule(fields, k), answers[k])
                             ELSE ~Rule(fields, k).required

\* valuesFromFormElement: a page posts every question it shows, and
\* clientFieldErrors checks the answers in the page.
Posts(fields) == {answers \in [Keys(fields) -> Answer] : Fits(fields, answers)}

\* Pages of versions published once may still be open.
Shown == {v \in Version : forms[v].status # "draft"}

\* onSubmit$ of a page: it is not sent while it finds errors itself.
Filled == UNION {Posts(forms[v].fields) : v \in Shown}

\* The object schema drops what was posted for other questions; splitAnswers
\* takes the base fields apart.
Answered(fields, posted) ==
  [k \in Keys(fields) \cap DOMAIN posted |-> posted[k]]
--------------------------------------------------------------------------------
(***************************************************************************)
(* Signing up (useSubmitSignup) and the officers' queue.                   *)
(***************************************************************************)

\* The posted answers are validated on the form that is served now.
BeginSubmit ==
  /\ submission = Absent /\ sending = Absent /\ profile = Absent
  /\ \E posted \in Filled :
       /\ Fits(forms[Served].fields, posted)
       /\ sending' = [schema |-> Served,
                      answers |-> Answered(forms[Served].fields, posted)]
  /\ UNCHANGED <<formVars, editor, touches, submission, profile, storing>>

\* createPendingSignup; or a username or a Discord account is taken.
EndSubmit ==
  /\ sending # Absent
  /\ sending' = Absent
  /\ \/ submission' = [schema |-> sending.schema, answers |-> sending.answers,
                       status |-> "pending"]
     \/ UNCHANGED submission
  /\ UNCHANGED <<formVars, editor, touches, profile, storing>>

\* saveSignupEdits: optional choices left blank are taken as absent.
Normalized(fields, posted) ==
  LET blank == {k \in DOMAIN posted : /\ posted[k] = ""
                                      /\ Rule(fields, k).kind = "select"
                                      /\ ~Rule(fields, k).required} IN
  [k \in DOMAIN posted \ blank |-> posted[k]]

\* An edit is validated on the version that is stored with the signup.
EditSchema == submission.schema

\* signupEditFields: its questions, those included that were retired since.
EditFields == forms[EditSchema].fields

\* One transaction, which holds the row.  The page posts the questions of the
\* version stored with the signup.  The answers are merged into the old ones.
SaveSignupEdits ==
  /\ submission # Absent
  /\ submission.status = "pending"
  /\ \E posted \in [Keys(EditFields) -> Answer] :
       LET input == Normalized(EditFields, posted) IN
       /\ Fits(EditFields, input)
       /\ submission' = [submission EXCEPT !.answers =
            [k \in (DOMAIN @ \ Keys(EditFields)) \cup DOMAIN input |->
               IF k \in DOMAIN input THEN input[k] ELSE @[k]]]
  /\ UNCHANGED <<formVars, editor, touches, sending, profile, storing>>

\* useApproveSignup; a denied signup is of no further interest.
Decide ==
  /\ submission # Absent
  /\ submission.status = "pending"
  /\ \/ submission' = [submission EXCEPT !.status = "approved"]
     \/ submission' = Absent
  /\ UNCHANGED <<formVars, editor, touches, sending, profile, storing>>
--------------------------------------------------------------------------------
(***************************************************************************)
(* The profile.                                                            *)
(***************************************************************************)

\* bootstrapUser: an approved signup hands its answers to the profile, and is
\* not read again.
BootstrapProfile ==
  /\ submission # Absent
  /\ submission.status = "approved"
  /\ profile' = [schema |-> submission.schema, answers |-> submission.answers]
  /\ submission' = Absent
  /\ UNCHANGED <<formVars, editor, touches, sending, storing>>

\* saveProfile reads the form and validates on it.
BeginStore ==
  /\ profile # Absent /\ storing = Absent
  /\ \E posted \in Filled :
       /\ Fits(forms[Served].fields, posted)
       /\ storing' = [schema |-> Served,
                      answers |-> Answered(forms[Served].fields, posted)]
  /\ UNCHANGED <<formVars, editor, touches, submission, sending, profile>>

\* Mutant: answers are filed under the form served when they are written.
Mut_Stored == [schema |-> Served, answers |-> storing.answers]

\* Then it replaces the answers, or refuses the name or the address.
Stored == [schema |-> storing.schema, answers |-> storing.answers]

EndStore == /\ storing # Absent
            /\ storing' = Absent
            /\ profile' = Stored \/ UNCHANGED profile
            /\ UNCHANGED <<formVars, editor, touches, submission, sending>>
--------------------------------------------------------------------------------
Publication(o) == \/ \E v \in Version : ReadDraft(o, v)
                  \/ FindPublished(o)
                  \/ CommitPublication(o)

EditForm == \/ OpenEditor
            \/ AddField
            \/ \E i \in DOMAIN editor :
                 RemoveField(i) \/ MoveField(i) \/ UpdateField(i)
            \/ SaveDraft

FormsNext == \/ EditForm
             \/ \E o \in Officer : Publication(o)
             \/ BeginSubmit \/ EndSubmit \/ SaveSignupEdits \/ Decide
             \/ BootstrapProfile \/ BeginStore \/ EndStore

FormsSpec == FormsInit /\ [][FormsNext]_formsVars
--------------------------------------------------------------------------------
(***************************************************************************)
(* Properties.                                                             *)
(***************************************************************************)

\* A publication replaces the form: the version published last is published,
\* and it alone unless its publication overlapped another.
PublishedIsServed == /\ last \in Published
                     /\ ~mixed => Published = {last}

\* Past submissions keep their schema: answers stored with a version of the
\* form are answers to it, whatever is published, edited or saved meanwhile.
AnswersFitTheirSchema ==
  /\ submission # Absent => Fits(forms[submission.schema].fields,
                                 submission.answers)
  /\ profile # Absent => Fits(forms[profile.schema].fields, profile.answers)
--------------------------------------------------------------------------------
(***************************************************************************)
(* The inductive invariant behind the properties, part by part.            *)
(***************************************************************************)

\* A signup or a profile, with answers to questions of its version.
Filed(row) ==
  /\ row.schema \in Version
  /\ DOMAIN row.answers \subseteq Nat
  /\ row.answers \in [DOMAIN row.answers -> Answer]
  /\ Fits(forms[row.schema].fields, row.answers)

\* The variables stay in their domains.
FormsTypeOK ==
  /\ forms \in Seq(Entry) /\ last \in Version /\ mixed \in BOOLEAN
  /\ publishing \in [Officer -> Publishing \cup {Absent}]
  /\ editor \in Seq(Field) /\ touches \in Nat
  /\ submission # Absent =>
       submission = [schema |-> submission.schema, answers |-> submission.answers,
                     status |-> submission.status]

\* What is stored fits, and what was validated and is about to be stored.
EverythingFits ==
  /\ submission # Absent => Filed(submission)
  /\ sending # Absent => Filed(sending)
  /\ profile # Absent => Filed(profile)
  /\ storing # Absent => Filed(storing)

\* A publication that none has overtaken knows what is published.
PublicationsKnow ==
  \A o \in Officer :
    publishing[o] # Absent =>
      /\ publishing[o].version \in Version
      /\ publishing[o].found # Absent /\ ~publishing[o].overtaken =>
           publishing[o].found = Published

FormsInv == FormsTypeOK /\ EverythingFits /\ PublicationsKnow /\ PublishedIsServed
================================================================================
