----------------------------- MODULE Onboarding -----------------------------
(***************************************************************************)
(* Employee onboarding (backend/app/domains/onboarding) composed with the  *)
(* document store and with profile changes: a bundle is a snapshot of a    *)
(* template's tasks; FORM tasks are merged into one profile change, a      *)
(* DOCUMENT task uploads a file, makes it a document and may have it       *)
(* verified.                                                               *)
(*                                                                         *)
(* upload_document_task is not one transaction: storing the file, creating *)
(* or versioning the document, asking for its verification and updating    *)
(* the task commit one after the other, and HR may act in between.         *)
(***************************************************************************)
EXTENDS Documents, ProfileChange

CONSTANTS Codes,      \* task codes of the one plan template, ordered by order_index
          TaskDef,    \* [Codes -> its type, document type, verification, form fields]
          Sessions    \* ESS requests of the employees

ASSUME OnboardingAssumption ==
  /\ Codes \subseteq Nat \ {0} /\ IsFiniteSet(Codes)
  /\ \A c \in Codes :
       /\ TaskDef[c].type \in {"FORM", "DOCUMENT", "ACK"}
       /\ TaskDef[c].type = "DOCUMENT" => TaskDef[c].doc \in DocTypes
       /\ TaskDef[c].type # "FORM" => TaskDef[c].fields = {}

VARIABLES template,   \* codes added to the template
          bundle,     \* [Employees -> the active bundle, if any, as its task codes]
          task,       \* [Employees -> [Codes -> the employee task]]
          session     \* where each session stands

vars == <<requests, types, files, docs, changes, profile, effects, template, bundle, task, session>>

hr == <<changes, profile, effects>>
dms == <<types, files, docs>>
onboarding == <<template, bundle, task, session>>

Blank == [status |-> "PENDING", doc |-> None, request |-> None, form |-> <<>>]
Idle == [at |-> "idle"]

\* The idempotency key of a bundle's packet: "onboarding:<bundle_id>".
PacketKey == "onboarding"

Init ==
  /\ requests = <<>>
  /\ DocumentsInit
  /\ ProfileInit
  /\ template = {}
  /\ bundle = [e \in Employees |-> {}]
  /\ task = [e \in Employees |-> [c \in Codes |-> Blank]]
  /\ session = [s \in Sessions |-> Idle]

Tasks(e) == UNION bundle[e]
Editable(e, c) == c \in Tasks(e) /\ task[e][c].status = "PENDING"

-----------------------------------------------------------------------------
(* Templates and bundles, HR.                                               *)

AddTemplateTask(c) ==
  /\ c \notin template
  /\ template' = template \cup {c}
  /\ UNCHANGED <<requests, dms, hr, bundle, task, session>>

\* One active bundle per employee (a partial unique index); later changes of
\* the template do not reach it.
CreateBundle(e) ==
  /\ bundle[e] = {}
  /\ bundle' = [bundle EXCEPT ![e] = {template}]
  /\ UNCHANGED <<requests, dms, hr, template, task, session>>

-----------------------------------------------------------------------------
(* Acknowledgements, forms and the packet.                                  *)

Ack(e, c) ==
  /\ TaskDef[c].type = "ACK" /\ Editable(e, c)
  /\ task' = [task EXCEPT ![e][c].status = "APPROVED"]
  /\ UNCHANGED <<requests, dms, hr, template, bundle, session>>

\* submit_form_task looks at the row without locking it ...
FormBegin(s, e, c) ==
  /\ session[s] = Idle
  /\ TaskDef[c].type = "FORM" /\ Editable(e, c)
  /\ \E form \in ChangeSets :
       /\ DOMAIN form \subseteq TaskDef[c].fields
       /\ session' = [session EXCEPT ![s] = [at |-> "form", emp |-> e, code |-> c, form |-> form]]
  /\ UNCHANGED <<requests, dms, hr, template, bundle, task>>

\* ... and writes whatever has become of it since.
FormSubmit(s) ==
  /\ session[s].at = "form"
  /\ LET e == session[s].emp
         c == session[s].code IN
     task' = [task EXCEPT ![e][c] = [@ EXCEPT !.status = "SUBMITTED", !.form = session[s].form]]
  /\ session' = [session EXCEPT ![s] = Idle]
  /\ UNCHANGED <<requests, dms, hr, template, bundle>>

Submitted(e) == {c \in Tasks(e) : TaskDef[c].type = "FORM" /\ task[e][c].status = "SUBMITTED"}

\* The submitted forms merged in order_index order: later tasks win.
Merged(e) ==
  LET mapped == UNION {DOMAIN task[e][c].form : c \in Submitted(e)}
      last(f) == CHOOSE c \in Submitted(e) : /\ f \in DOMAIN task[e][c].form
                                             /\ \A b \in Submitted(e) :
                                                  f \in DOMAIN task[e][b].form => b <= c IN
  [f \in mapped |-> task[e][last(f)].form[f]]

SubmitPacket(e) ==
  /\ Submitted(e) # {}
  /\ CreateChange(e, PacketKey, Merged(e))
  /\ UNCHANGED <<dms, onboarding>>

-----------------------------------------------------------------------------
(* upload_document_task, one step per transaction.                          *)

At(s, pc) == session[s].at = pc

Move(s, pc) == session' = [session EXCEPT ![s].at = pc]

UploadBegin(s, e, c) ==
  /\ session[s] = Idle
  /\ TaskDef[c].type = "DOCUMENT" /\ Editable(e, c)
  /\ ReserveFile
  /\ session' = [session EXCEPT ![s] = [at |-> "storing", emp |-> e, code |-> c,
                                        file |-> Len(files) + 1, doc |-> None, request |-> None]]
  /\ UNCHANGED <<hr, template, bundle, task>>

\* An upload by HR, for no task.
HrUploadBegin(s) ==
  /\ session[s] = Idle
  /\ ReserveFile
  /\ session' = [session EXCEPT ![s] = [at |-> "storing", code |-> None, file |-> Len(files) + 1]]
  /\ UNCHANGED <<hr, template, bundle, task>>

UploadStored(s) ==
  /\ At(s, "storing")
  /\ FileStored(session[s].file)
  /\ session' = [session EXCEPT ![s] = IF @.code = None THEN Idle ELSE [@ EXCEPT !.at = "stored"]]
  /\ UNCHANGED <<hr, template, bundle, task>>

UploadFails(s) ==
  /\ At(s, "storing")
  /\ FileFails(session[s].file)
  /\ session' = [session EXCEPT ![s] = Idle]
  /\ UNCHANGED <<hr, template, bundle, task>>

\* The employee's newest document of the type the task asks for, whatever
\* its status, looked up without a lock.
Newest(e, type) ==
  {d \in DOMAIN docs : docs[d].type = type /\ docs[d].owner = e
     /\ \A b \in DOMAIN docs : docs[b].type = type /\ docs[b].owner = e => b <= d}

LookUp(s) ==
  LET found == {d \in Newest(session[s].emp, TaskDef[session[s].code].doc) :
                  docs[d].status = "SUBMITTED"} IN
  /\ At(s, "stored")
  /\ \/ /\ found = {} /\ Move(s, "creating")
     \/ \E d \in found :
          session' = [session EXCEPT ![s] = [@ EXCEPT !.at = "versioning", !.doc = d]]
  /\ UNCHANGED <<requests, dms, hr, template, bundle, task>>

UploadVersion(s) ==
  /\ At(s, "versioning")
  /\ AddVersion(session[s].doc, session[s].file)
  /\ Move(s, "uploaded")
  /\ UNCHANGED <<hr, template, bundle, task>>

UploadDocument(s) ==
  /\ At(s, "creating")
  /\ CreateDocument(session[s].emp, TaskDef[session[s].code].doc, session[s].file)
  /\ session' = [session EXCEPT ![s] = [@ EXCEPT !.at = "uploaded", !.doc = Len(docs) + 1]]
  /\ UNCHANGED <<hr, template, bundle, task>>

Verify(s) ==
  /\ At(s, "uploaded") /\ TaskDef[session[s].code].verify
  /\ RequestVerification(session[s].doc)
  /\ session' = [session EXCEPT ![s] = [@ EXCEPT !.at = "linking",
                                                 !.request = Verification(session[s].doc)]]
  /\ UNCHANGED <<hr, template, bundle, task>>

SkipVerification(s) ==
  /\ At(s, "uploaded") /\ ~TaskDef[session[s].code].verify
  /\ Move(s, "linking")
  /\ UNCHANGED <<requests, dms, hr, template, bundle, task>>

\* Mutant: a task that wants verification is approved at once.
LinkApproves(s) ==
  /\ At(s, "linking")
  /\ task' = [task EXCEPT ![session[s].emp][session[s].code] =
                [@ EXCEPT !.status = "APPROVED",
                          !.doc = session[s].doc, !.request = session[s].request]]
  /\ session' = [session EXCEPT ![s] = Idle]
  /\ UNCHANGED <<requests, dms, hr, template, bundle>>

\* The UPDATE of the task, whatever has become of it and of the document.
LinkTask(s) ==
  /\ At(s, "linking")
  /\ task' = [task EXCEPT ![session[s].emp][session[s].code] =
                [@ EXCEPT !.status = IF TaskDef[session[s].code].verify THEN "SUBMITTED"
                                     ELSE "APPROVED",
                          !.doc = session[s].doc, !.request = session[s].request]]
  /\ session' = [session EXCEPT ![s] = Idle]
  /\ UNCHANGED <<requests, dms, hr, template, bundle>>

\* The process dies, or a step is refused (the document was decided, its
\* type was deactivated): what is committed stays.
Abandon(s) ==
  /\ session[s] # Idle
  /\ session' = [session EXCEPT ![s] = Idle]
  /\ UNCHANGED <<requests, dms, hr, template, bundle, task>>

-----------------------------------------------------------------------------
(* Decisions, with the hooks of the document and profile domains.           *)

\* _update_onboarding_tasks_for_document.
Outcome(d, verdict) ==
  [e \in Employees |-> [c \in Codes |->
     IF verdict \in {"APPROVED", "REJECTED"} /\ task[e][c].doc = d /\ task[e][c].request # None
     THEN [task[e][c] EXCEPT !.status = verdict] ELSE task[e][c]]]

DecideVerification(r, verdict) ==
  /\ DecideDocument(r, verdict)
  /\ task' = Outcome(requests[r].ref, verdict)
  /\ UNCHANGED <<hr, template, bundle, session>>

DocumentStep ==
  \/ \E t \in DocTypes : CreateType(t) \/ \E a \in BOOLEAN : PatchType(t, a)
  \/ \E f \in DOMAIN files, e \in Employees, t \in DocTypes : CreateDocument(e, t, f)
  \/ \E d \in DOMAIN docs, f \in DOMAIN files : AddVersion(d, f)
  \/ \E d \in DOMAIN docs : RequestVerification(d)

ProfileStep ==
  \/ \E e \in Employees, k \in Keys \cup {NoKey}, c \in ChangeSets :
       CreateChange(e, k, c)
  \/ \E i \in DOMAIN changes : CancelMine(i)
  \/ \E e \in Employees, p \in Phones : EditDirectly(e, p)

UploadStep(s) ==
  \/ \E e \in Employees, c \in Codes : UploadBegin(s, e, c)
  \/ HrUploadBegin(s)
  \/ UploadStored(s) \/ UploadFails(s) \/ LookUp(s) \/ UploadVersion(s) \/ UploadDocument(s)
  \/ Verify(s) \/ SkipVerification(s) \/ LinkTask(s)

Next ==
  \/ DocumentStep /\ UNCHANGED <<hr, onboarding>>
  \/ ProfileStep /\ UNCHANGED <<dms, onboarding>>
  \/ \E c \in Codes : AddTemplateTask(c)
  \/ \E e \in Employees : CreateBundle(e) \/ SubmitPacket(e) \/ \E c \in Codes : Ack(e, c)
  \/ \E s \in Sessions, e \in Employees, c \in Codes : FormBegin(s, e, c)
  \/ \E s \in Sessions : FormSubmit(s) \/ UploadStep(s) \/ Abandon(s)
  \/ \E r \in DOMAIN requests, v \in Verdicts :
       \/ DecideVerification(r, v)
       \/ DecideChange(r, v) /\ UNCHANGED <<dms, onboarding>>

Spec == Init /\ [][Next]_vars

-----------------------------------------------------------------------------
(* Properties.                                                              *)

\* Onboarding never claims more than was verified: a task that wants
\* verification is APPROVED or REJECTED only with the document it points at,
\* although two uploads of one task, and a decision, may cross.
TasksClaimNoMore ==
  \A e \in Employees : \A c \in Codes :
    LET t == task[e][c] IN
    t.request # None =>
      /\ t.status = "APPROVED" => docs[t.doc].status = "VERIFIED"
      /\ t.status = "REJECTED" => docs[t.doc].status = "REJECTED"

=============================================================================
